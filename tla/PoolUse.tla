------------------------------ MODULE PoolUse -------------------------------
(***************************************************************************)
(* The pool under its callers.  An owner is a use of a connection by the   *)
(* event handlers of server.c: getRedis in readC, putRedis when the last   *)
(* reply has been copied (readR:424) or the command was malformed          *)
(* (readC:478), delRedis when a transfer fails (removeRC, removeByC).      *)
(*                                                                         *)
(* A connection in use may fail, and Redis may close an idle one: then     *)
(* readR:376 deletes a struct that is still on the free list.  What the    *)
(* pool promises depends on which of the two has happened: `failed'        *)
(* remembers.                                                              *)
(***************************************************************************)
EXTENDS Pool

CONSTANT Owner

VARIABLES held,       \* the struct each owner uses
          closed,     \* freePool has been called
          failed      \* history: what has failed, a "used" or an "idle" one
vars == <<redises, next, alive, avalidNum, activeNum, crashed, held, closed, failed>>

Leased == {held[o] : o \in Owner} \ {NULL}
Idle   == alive \ Leased

Init ==
    /\ PoolInit
    /\ held = [o \in Owner |-> NULL]
    /\ closed = FALSE
    /\ failed = {}

Acquire(o) ==
    /\ held[o] = NULL
    /\ \/ \E r \in Redis : GetRedis(r) /\ held' = [held EXCEPT ![o] = r]
       \/ PopFault /\ UNCHANGED held
    /\ UNCHANGED <<closed, failed>>

Return(o) ==
    /\ held[o] # NULL
    /\ PutRedis(held[o]) \/ UseFault(held[o])
    /\ held' = [held EXCEPT ![o] = NULL]
    /\ UNCHANGED <<closed, failed>>

Discard(o) ==
    /\ held[o] # NULL
    /\ DelRedis(held[o]) \/ UseFault(held[o])
    /\ held' = [held EXCEPT ![o] = NULL]
    /\ failed' = failed \cup {"used"}
    /\ UNCHANGED closed

IdleClose(r) ==
    /\ r \in Idle
    /\ DelRedis(r)
    /\ failed' = failed \cup {"idle"}
    /\ UNCHANGED <<held, closed>>

(* freePool, once, when no handler uses a connection any more.  (Its only  *)
(* caller for a pool in service, freeServer, is itself not called.)        *)
Close ==
    /\ \A o \in Owner : held[o] = NULL
    /\ FreeIdle
    /\ closed' = TRUE
    /\ UNCHANGED <<held, failed>>

Next ==
    /\ ~crashed
    /\ ~closed
    /\ \/ \E o \in Owner : Acquire(o) \/ Return(o) \/ Discard(o)
       \/ \E r \in Redis : IdleClose(r)
       \/ Close

Spec == Init /\ [][Next]_vars

-----------------------------------------------------------------------------
(* The types of the pool's fields and of the owners' references.           *)
TypeOK ==
    /\ PoolTypeOK
    /\ held \in [Owner -> Redis \cup {NULL}]
    /\ closed \in BOOLEAN
    /\ failed \subseteq {"used", "idle"}

Unshared ==
    /\ \A o, p \in Owner : held[o] = held[p] /\ held[o] # NULL => o = p
    /\ Leased \subseteq alive
HeadIdle == ~closed /\ avalidNum > 0 => redises \in Idle

(* How much may fail before a struct can be lent twice: delRedis breaks    *)
(* the list of a pool with min > 2, and any list when an idle one goes.    *)
Sound == failed = {} \/ (failed = {"used"} /\ MinNum <= 2)

(* No two owners ever use the same struct, and the struct an owner uses    *)
(* has not been freed under it: a reply read from a Redis connection       *)
(* belongs to the one client that connection was taken for.                *)
Exclusive == Sound => Unshared

(* Whenever avalidNum promises an idle connection, the head of the list    *)
(* is one: allocated, and used by nobody.  getRedis:157-158 takes it       *)
(* unchecked.                                                              *)
HeadUsable == Sound => HeadIdle

(* As long as no connection has failed, the process never follows a NULL   *)
(* or freed pointer in the pool, freePool's walk included.                 *)
NoCrash == failed = {} => ~crashed

(* While avalidNum promises idle connections, the two counters add up to   *)
(* min; afterwards every grant was counted and none is ever uncounted.     *)
Accounting ==
    IF avalidNum > 0 THEN avalidNum + activeNum = MinNum
                     ELSE activeNum >= MinNum

(* The worker never has more than max connections to Redis open.           *)
ConnectionLimit == Cardinality(alive) <= MaxNum

(* As long as no connection has failed, every open one is in use or still  *)
(* reachable from the free list (until freePool has freed the list): none  *)
(* is lost by relinking.                                                   *)
NoLeak ==
    LET chain == Chain
    IN  failed = {} => Idle = {chain[i] : i \in 1 .. Len(chain)}

(* Until a connection fails, the free list is a stack of connections with  *)
(* a quota of MaxNum grants.                                               *)
Stack == INSTANCE PoolStack WITH
             idle    <- Chain,
             granted <- activeNum
StackSpec == Stack!Init /\ [][failed' = {} => Stack!Next]_(Stack!vars)
=============================================================================
