--------------------------- MODULE PoolUse_proofs ---------------------------
(***************************************************************************)
(* Proofs about PoolUse for every MinNum, MaxNum, NRedis and Owner: the    *)
(* counters and who holds what, and then the free list as a whole.         *)
(***************************************************************************)
EXTENDS PoolUse, Iteration, FiniteSetTheorems, SequenceTheorems, TLAPS

USE DEF HasListed, UnderLimit, CountListed, CountNew, HeadAfterPop,
        HeadAfterDel, LinkAfterPut

(* The counters bound the connections: avalidNum of those opened by        *)
(* initPool were never granted, activeNum is what was.                     *)
CountInv ==
    /\ TypeOK
    /\ Accounting
    /\ Cardinality(alive) <= avalidNum + activeNum

(* Finitely many structs are allocated: Cardinality(alive) is a number.    *)
LEMMA AliveFinite == TypeOK => IsFiniteSet(alive)
  <1>1. IsFiniteSet(Redis)
    BY FS_Interval, SizeAssumption DEF Redis
  <1>. QED
    BY <1>1, FS_Subset DEF TypeOK, PoolTypeOK

(* initPool leaves the counters and the allocated structs in agreement.    *)
LEMMA InitCount == Init => CountInv
  <1>. SUFFICES ASSUME Init PROVE CountInv
    OBVIOUS
  <1>. USE SizeAssumption DEF Init, PoolInit, Redis, NULL
  <1>1. TypeOK
    <2>1. redises \in Redis /\ alive \subseteq Redis
      OBVIOUS
    <2>2. next \in [Redis -> Redis \cup {NULL}]
      OBVIOUS
    <2>3. avalidNum \in 0 .. MinNum /\ activeNum \in 0 .. MaxNum
      OBVIOUS
    <2>4. held \in [Owner -> Redis \cup {NULL}]
      OBVIOUS
    <2>. QED
      BY <2>1, <2>2, <2>3, <2>4 DEF TypeOK, PoolTypeOK
  <1>2. Accounting
    BY DEF Accounting
  <1>3. Cardinality(1 .. MinNum) = MinNum
    BY FS_Interval
  <1>. QED
    BY <1>1, <1>2, <1>3 DEF CountInv

(* Each operation of the pool, and Crash, keeps the types of its fields    *)
(* and the accounting.                                                     *)
LEMMA PoolOpsKeepCount ==
  ASSUME CountInv, NEW r \in Redis,
         GetRedis(r) \/ PutRedis(r) \/ DelRedis(r) \/ Crash \/ FreeIdle
  PROVE  /\ PoolTypeOK'
         /\ Accounting'
         /\ Cardinality(alive') <= avalidNum' + activeNum'
  <1>. USE SizeAssumption DEF CountInv, TypeOK, PoolTypeOK, Redis, NULL
  <1>0. IsFiniteSet(alive) /\ Cardinality(alive) \in Nat
    BY AliveFinite, FS_CardinalityType
  <1>1. CASE PopRedis(r)
    BY <1>0, <1>1 DEF PopRedis, Accounting
  <1>2. CASE NewRedis(r)
    <2>1. Cardinality(alive \cup {r}) = Cardinality(alive) + 1
      BY <1>0, <1>2, FS_AddElement DEF NewRedis
    <2>. QED
      BY <1>0, <1>2, <2>1 DEF NewRedis, Accounting
  <1>3. CASE PutRedis(r)
    BY <1>0, <1>3 DEF PutRedis, Accounting
  <1>4. CASE DelRedis(r)
    <2>1. Cardinality(alive \ {r}) = Cardinality(alive) - 1
      BY <1>0, <1>4, FS_RemoveElement DEF DelRedis
    <2>. QED
      BY <1>0, <1>4, <2>1 DEF DelRedis, Accounting
  <1>5. CASE Crash
    BY <1>0, <1>5 DEF Crash, Accounting
  <1>6. CASE FreeIdle
    <2>1. CASE Crash
      BY <1>5, <2>1
    <2>2. CASE ~Crash
      <3>1. PICK list : /\ redises' = NULL
                        /\ alive' = alive \ list
                        /\ next' = [s \in Redis |-> IF s \in list THEN NULL
                                                    ELSE next[s]]
                        /\ UNCHANGED <<avalidNum, activeNum, crashed>>
        BY <1>6, <2>2 DEF FreeIdle
      <3>2. Cardinality(alive') <= Cardinality(alive)
        BY <1>0, <3>1, FS_Subset
      <3>3. Cardinality(alive') \in Nat
        BY <1>0, <3>1, FS_Subset, FS_CardinalityType
      <3>4. next' \in [Redis -> Redis \cup {NULL}]
        BY <3>1
      <3>5. PoolTypeOK'
        BY <3>1, <3>4
      <3>6. Accounting'
        BY <3>1 DEF Accounting
      <3>7. Cardinality(alive') <= avalidNum' + activeNum'
        BY <1>0, <3>1, <3>2, <3>3
      <3>. QED
        BY <3>5, <3>6, <3>7
    <2>. QED
      BY <2>1, <2>2
  <1>. QED
    BY <1>1, <1>2, <1>3, <1>4, <1>5, <1>6 DEF GetRedis

(* Every step of the pool under its callers keeps types and accounting.    *)
LEMMA NextKeepsCount == CountInv /\ [Next]_vars => CountInv'
  <1>. SUFFICES ASSUME CountInv, [Next]_vars PROVE CountInv'
    OBVIOUS
  <1>. USE DEF CountInv, TypeOK
  <1>1. ASSUME NEW o \in Owner, Acquire(o) PROVE CountInv'
    <2>1. CASE PopFault /\ UNCHANGED held
      <3>1. Crash /\ 1 \in Redis
        BY <2>1, SizeAssumption DEF PopFault, Redis
      <3>. QED
        BY <1>1, <2>1, <3>1, PoolOpsKeepCount DEF Acquire
    <2>2. ASSUME NEW r \in Redis, GetRedis(r), held' = [held EXCEPT ![o] = r]
          PROVE  CountInv'
      BY <1>1, <2>2, PoolOpsKeepCount DEF Acquire
    <2>. QED
      BY <1>1, <2>1, <2>2 DEF Acquire
  <1>2. ASSUME NEW o \in Owner, Return(o) \/ Discard(o) PROVE CountInv'
    <2>1. held[o] \in Redis
      BY <1>2 DEF Return, Discard
    <2>2. held' = [held EXCEPT ![o] = NULL] /\ UNCHANGED closed
      BY <1>2 DEF Return, Discard
    <2>4. failed' \subseteq {"used", "idle"}
      BY <1>2 DEF Return, Discard
    <2>3. PutRedis(held[o]) \/ DelRedis(held[o]) \/ Crash
      BY <1>2 DEF Return, Discard, UseFault
    <2>. QED
      BY <2>1, <2>2, <2>3, <2>4, PoolOpsKeepCount
  <1>3. ASSUME NEW r \in Redis, IdleClose(r) PROVE CountInv'
    BY <1>3, PoolOpsKeepCount DEF IdleClose
  <1>4. CASE Close
    <2>1. FreeIdle /\ 1 \in Redis
      BY <1>4, SizeAssumption DEF Close, Redis
    <2>. QED
      BY <1>4, <2>1, PoolOpsKeepCount DEF Close
  <1>5. CASE UNCHANGED vars
    BY <1>5 DEF vars, PoolTypeOK, Accounting
  <1>. QED
    BY <1>1, <1>2, <1>3, <1>4, <1>5 DEF Next

(* The counting invariant of every reachable state.                        *)
THEOREM CountInvariant == Spec => []CountInv
  BY InitCount, NextKeepsCount, PTL DEF Spec

(* The pool's fields and the owners' references keep their types.          *)
THEOREM TypeCorrect == Spec => []TypeOK
  <1>1. CountInv => TypeOK
    BY DEF CountInv
  <1>. QED
    BY <1>1, CountInvariant, PTL

(* The counters always account for every grant, whatever connections fail. *)
THEOREM AccountingHolds == Spec => []Accounting
  <1>1. CountInv => Accounting
    BY DEF CountInv
  <1>. QED
    BY <1>1, CountInvariant, PTL

(* A worker never has more than max connections to Redis open, whatever    *)
(* fails and whatever the free list has become.                            *)
THEOREM LimitHolds == Spec => []ConnectionLimit
  <1>1. CountInv => ConnectionLimit
    <2>. SUFFICES ASSUME CountInv PROVE ConnectionLimit
      OBVIOUS
    <2>1. Cardinality(alive) \in Nat
      BY AliveFinite, FS_CardinalityType DEF CountInv
    <2>. QED
      BY <2>1, SizeAssumption
      DEF CountInv, TypeOK, PoolTypeOK, Accounting, ConnectionLimit
  <1>. QED
    BY <1>1, CountInvariant, PTL

-----------------------------------------------------------------------------
(* The first case of Sound: connections in use fail, min is at most 2.     *)
(* While the list is still read (avalidNum > 0) at most one connection is  *)
(* out, and its stale `next' is the current head, so deleting it changes   *)
(* nothing.                                                                *)
SmallInv ==
    /\ Unshared
    /\ HeadIdle
    /\ ~closed =>
         /\ avalidNum = MinNum => \A o \in Owner : held[o] = NULL
         /\ avalidNum > 0 => \A o, p \in Owner :
                                held[o] # NULL /\ held[p] # NULL => o = p
         /\ avalidNum > 0 => \A o \in Owner :
                                held[o] # NULL => next[held[o]] = redises
         /\ avalidNum = 2 => next[redises] \in alive \ {redises}

(* initPool with min of 1 or 2 builds a list as SmallInv describes it.     *)
LEMMA InitSmall == MinNum <= 2 /\ Init => SmallInv
  BY SizeAssumption
  DEF SmallInv, Init, PoolInit, Redis, NULL, Unshared, Leased,
      Idle, HeadIdle

(* delRedis of a struct in use keeps SmallInv while min is at most 2: what *)
(* the head becomes is then NULL or the one struct that is still listed.   *)
LEMMA NextKeepsSmall ==
  ASSUME MinNum <= 2, "idle" \notin failed', TypeOK, TypeOK', SmallInv, [Next]_vars
  PROVE  SmallInv'
  <1>. USE SizeAssumption DEF TypeOK, PoolTypeOK, Redis, NULL
  <1>1. ASSUME NEW o \in Owner, NEW r \in Redis, ~closed,
               held[o] = NULL, PopRedis(r), UNCHANGED closed,
               held' = [held EXCEPT ![o] = r]
        PROVE  SmallInv'
    <2>1. r \notin Leased /\ r \in alive
      BY <1>1 DEF SmallInv, HeadIdle, PopRedis, Idle
    <2>2. Unshared'
      BY <1>1, <2>1 DEF SmallInv, Unshared, Leased, PopRedis
    <2>3. avalidNum' > 0 => avalidNum = 2 /\ avalidNum' = 1 /\ MinNum = 2
      BY <1>1 DEF PopRedis
    <2>4. avalidNum' > 0 => /\ \A p \in Owner : held[p] = NULL
                            /\ redises' \in alive \ {r}
      BY <1>1, <2>3 DEF SmallInv, PopRedis
    <2>5. HeadIdle'
      BY <1>1, <2>4 DEF HeadIdle, Idle, Leased, PopRedis
    <2>6. avalidNum' # MinNum /\ avalidNum' # 2
      BY <1>1 DEF PopRedis
    <2>. QED
      BY <1>1, <2>2, <2>3, <2>4, <2>5, <2>6 DEF SmallInv, PopRedis
  <1>2. ASSUME NEW o \in Owner, NEW r \in Redis, ~closed,
               held[o] = NULL, NewRedis(r), UNCHANGED closed,
               held' = [held EXCEPT ![o] = r]
        PROVE  SmallInv'
    <2>1. Unshared'
      BY <1>2 DEF SmallInv, Unshared, Leased, NewRedis
    <2>. QED
      BY <1>2, <2>1 DEF SmallInv, HeadIdle, NewRedis
  <1>3. ASSUME NEW o \in Owner, Return(o), ~closed PROVE SmallInv'
    <2>1. held[o] \in alive /\ held[o] # NULL /\ PutRedis(held[o])
      BY <1>3 DEF SmallInv, Unshared, Leased, Return, UseFault
    <2>2. /\ held' = [held EXCEPT ![o] = NULL]
          /\ UNCHANGED <<closed, alive, avalidNum>>
          /\ redises' = held[o]
      BY <1>3, <2>1 DEF Return, PutRedis
    <2>3. Unshared'
      BY <2>2 DEF SmallInv, Unshared, Leased
    <2>4. held[o] \notin Leased'
      BY <2>1, <2>2 DEF SmallInv, Unshared, Leased
    <2>5. HeadIdle'
      BY <2>1, <2>2, <2>4 DEF HeadIdle, Idle
    <2>6. avalidNum # MinNum /\ avalidNum # 2
      BY <1>3, <2>1 DEF SmallInv
    <2>7. avalidNum > 0 => \A p \in Owner : held'[p] = NULL
      BY <1>3, <2>1, <2>2 DEF SmallInv
    <2>. QED
      BY <2>2, <2>3, <2>5, <2>6, <2>7 DEF SmallInv
  <1>4. ASSUME NEW o \in Owner, Discard(o), ~closed PROVE SmallInv'
    <2>1. held[o] \in alive /\ held[o] # NULL /\ DelRedis(held[o])
      BY <1>4 DEF SmallInv, Unshared, Leased, Discard, UseFault
    <2>2. /\ held' = [held EXCEPT ![o] = NULL]
          /\ UNCHANGED <<closed, avalidNum>>
          /\ alive' = alive \ {held[o]}
          /\ redises' = next[held[o]]
      BY <1>4, <2>1 DEF Discard, DelRedis
    <2>3. Unshared'
      BY <2>1, <2>2 DEF SmallInv, Unshared, Leased
    <2>4. avalidNum > 0 => redises' = redises /\ redises # held[o]
      BY <1>4, <2>1, <2>2 DEF SmallInv, HeadIdle, Idle, Leased
    <2>5. HeadIdle'
      BY <2>1, <2>2, <2>4 DEF SmallInv, HeadIdle, Idle, Leased
    <2>6. avalidNum # MinNum /\ avalidNum # 2
      BY <1>4, <2>1 DEF SmallInv
    <2>7. avalidNum > 0 => \A p \in Owner : held'[p] = NULL
      BY <1>4, <2>1, <2>2 DEF SmallInv
    <2>. QED
      BY <2>2, <2>3, <2>5, <2>6, <2>7 DEF SmallInv
  <1>5. CASE Close
    <2>1. closed' = TRUE /\ UNCHANGED held /\ \A o \in Owner : held[o] = NULL
      BY <1>5 DEF Close
    <2>. QED
      BY <2>1 DEF SmallInv, Unshared, Leased, HeadIdle
  <1>6. CASE UNCHANGED vars
    BY <1>6 DEF vars, SmallInv, Unshared, Leased, HeadIdle, Idle
  <1>7. ASSUME NEW o \in Owner, Acquire(o), ~closed PROVE SmallInv'
    <2>1. ~PopFault
      BY <1>7 DEF SmallInv, HeadIdle, Idle, PopFault
    <2>. QED
      BY <1>1, <1>2, <1>7, <2>1 DEF Acquire, GetRedis
  <1>8. \A r \in Redis : ~IdleClose(r)
    BY DEF IdleClose
  <1>. QED
    BY <1>3, <1>4, <1>5, <1>6, <1>7, <1>8 DEF Next

-----------------------------------------------------------------------------
(* The second case: no connection has failed, and min is any number.  The  *)
(* idle structs form one list without sharing, at least avalidNum long,    *)
(* with all of them on it: a function d decreases along `next', tells them *)
(* apart and is largest at the head.                                       *)
Depth(d) ==
    /\ d[NULL] = 0
    /\ \A r \in Idle : d[r] = d[next[r]] + 1 /\ d[r] <= d[redises]
    /\ \A r, s \in Idle : d[r] = d[s] => r = s
    /\ d[redises] >= avalidNum

Linked ==
    /\ redises \in Idle \cup {NULL}
    /\ \A r \in Idle : next[r] \in Idle \cup {NULL}
    /\ \A r \in Idle : next[r] # NULL => next[r] # redises
    /\ \A r, s \in Idle : next[r] = next[s] /\ next[r] # NULL => r = s

ListInv ==
    /\ Unshared
    /\ ~closed => Linked
    /\ ~closed => \E d \in [Redis \cup {NULL} -> Nat] : Depth(d)

(* The ranks of initPool's chain.                                          *)
InitRank == [r \in Redis \cup {NULL} |->
                IF r = NULL \/ r > MinNum THEN 0 ELSE MinNum - r + 1]

LEMMA InitRanked ==
  Init => /\ Idle = 1 .. MinNum
          /\ InitRank \in [Redis \cup {NULL} -> Nat]
          /\ Depth(InitRank)
  <1>. SUFFICES ASSUME Init
                PROVE  /\ Idle = 1 .. MinNum
                       /\ InitRank \in [Redis \cup {NULL} -> Nat]
                       /\ Depth(InitRank)
    OBVIOUS
  <1>. USE SizeAssumption DEF Init, PoolInit, Redis, NULL, InitRank
  <1>1. Idle = 1 .. MinNum
    BY DEF Idle, Leased
  <1>2. InitRank \in [Redis \cup {NULL} -> Nat]
    OBVIOUS
  <1>3. \A r \in Idle : /\ InitRank[r] = InitRank[next[r]] + 1
                        /\ InitRank[r] <= InitRank[redises]
    BY <1>1
  <1>4. InitRank[NULL] = 0 /\ InitRank[redises] >= avalidNum
    OBVIOUS
  <1>5. \A r, s \in Idle : InitRank[r] = InitRank[s] => r = s
    BY <1>1
  <1>6. Depth(InitRank)
    BY <1>3, <1>4, <1>5 DEF Depth
  <1>. HIDE DEF InitRank
  <1>. QED
    BY <1>1, <1>2, <1>6

(* initPool's chain is linked.                                             *)
LEMMA InitList == Init => ListInv
  <1>. SUFFICES ASSUME Init PROVE ListInv
    OBVIOUS
  <1>1. Unshared
    BY DEF Init, Unshared, Leased
  <1>2. Linked
    <2>1. /\ Idle = 1 .. MinNum /\ redises = 1 /\ MinNum \in Nat \ {0}
          /\ \A r \in 1 .. MinNum : next[r] = IF r < MinNum THEN r + 1 ELSE NULL
      BY InitRanked, SizeAssumption DEF Init, PoolInit, Redis
    <2>. QED
      BY <2>1 DEF Linked, NULL
  <1>. QED
    BY <1>1, <1>2, InitRanked DEF ListInv

(* A linked list with promised connections has a usable head.              *)
LEMMA ListHeadUsable == TypeOK /\ ListInv => HeadIdle
  BY DEF TypeOK, PoolTypeOK, Redis, ListInv, Linked, Depth, HeadIdle, NULL

(* getRedis takes the head off the list.                                   *)
LEMMA PopLinked ==
  ASSUME TypeOK, TypeOK', ListInv, ~closed, NEW o \in Owner, NEW r \in Redis,
         held[o] = NULL, PopRedis(r), UNCHANGED closed,
         held' = [held EXCEPT ![o] = r]
  PROVE  /\ Unshared' /\ Linked'
         /\ r = redises /\ r \in Idle /\ Idle' = Idle \ {r} /\ redises' = next[r]
         /\ \A d \in [Redis \cup {NULL} -> Nat] : Depth(d) => Depth(d)'
  <1>. USE SizeAssumption DEF TypeOK, PoolTypeOK, Redis, NULL
  <1>1. r \in Idle /\ r = redises /\ r # NULL
    BY ListHeadUsable DEF HeadIdle, PopRedis
  <1>2. Unshared'
    BY <1>1 DEF ListInv, Unshared, Leased, Idle, PopRedis
  <1>3. Idle' = Idle \ {r}
    BY <1>1 DEF Idle, Leased, PopRedis
  <1>4. redises' = next[r] /\ next' = next /\ avalidNum' = avalidNum - 1
    BY DEF PopRedis
  <1>5. next[r] # r
    BY <1>1 DEF ListInv, Linked
  <1>6. Linked'
    BY <1>1, <1>3, <1>4, <1>5 DEF ListInv, Linked
  <1>7. ASSUME NEW d \in [Redis \cup {NULL} -> Nat], Depth(d) PROVE Depth(d)'
    <2>1. d[redises'] >= avalidNum'
      BY <1>1, <1>4, <1>7 DEF Depth
    <2>2. \A s \in Idle' : d[s] <= d[redises']
      <3>1. ASSUME NEW s \in Idle' PROVE d[s] # d[r] /\ d[s] <= d[r] /\ d[s] \in Nat
        BY <1>1, <1>3, <1>7 DEF Depth, Idle
      <3>2. d[r] = d[redises'] + 1 /\ d[redises'] \in Nat
        BY <1>1, <1>4, <1>7 DEF Depth
      <3>. QED
        BY <3>1, <3>2
    <2>. QED
      BY <1>3, <1>4, <1>7, <2>1, <2>2 DEF Depth
  <1>. QED
    BY <1>1, <1>2, <1>3, <1>4, <1>6, <1>7

(* A new connection does not disturb the list.                             *)
LEMMA NewLinked ==
  ASSUME TypeOK, TypeOK', ListInv, ~closed, NEW o \in Owner, NEW r \in Redis,
         held[o] = NULL, NewRedis(r), UNCHANGED closed,
         held' = [held EXCEPT ![o] = r]
  PROVE  /\ Unshared' /\ Linked'
         /\ Idle' = Idle /\ redises' = redises
         /\ \A d \in [Redis \cup {NULL} -> Nat] : Depth(d) => Depth(d)'
  <1>. USE SizeAssumption DEF TypeOK, PoolTypeOK, Redis, NULL
  <1>1. Unshared' /\ Idle' = Idle
    BY DEF ListInv, Unshared, Leased, Idle, NewRedis
  <1>2. /\ \A s \in Idle : next'[s] = next[s]
        /\ UNCHANGED <<redises, avalidNum>>
    BY DEF NewRedis, Idle
  <1>3. Linked'
    BY <1>1, <1>2 DEF ListInv, Linked
  <1>4. ASSUME NEW d \in [Redis \cup {NULL} -> Nat], Depth(d) PROVE Depth(d)'
    BY <1>1, <1>2, <1>4 DEF Depth
  <1>. QED
    BY <1>1, <1>2, <1>3, <1>4

(* putRedis makes the returned connection the head.                        *)
LEMMA PutLinked ==
  ASSUME TypeOK, TypeOK', ListInv, ~closed, NEW o \in Owner, NEW r \in Redis,
         r = held[o], Return(o)
  PROVE  /\ Unshared' /\ Linked' /\ UNCHANGED closed
         /\ r \notin Idle /\ Idle' = Idle \cup {r} /\ redises' = r
         /\ held' = [held EXCEPT ![o] = NULL] /\ UNCHANGED <<activeNum, crashed>>
         /\ \A d \in [Redis \cup {NULL} -> Nat] : Depth(d) =>
                \E e \in [Redis \cup {NULL} -> Nat] :
                    /\ Depth(e)'
                    /\ e[r] = d[redises] + 1
                    /\ \A s \in Idle : e[s] = d[s]
  <1>. USE SizeAssumption DEF TypeOK, PoolTypeOK, Redis, NULL
  <1>1. r \in alive /\ r \notin Idle /\ PutRedis(r)
    BY DEF ListInv, Unshared, Leased, Idle, Return, UseFault
  <1>2. /\ held' = [held EXCEPT ![o] = NULL]
        /\ UNCHANGED <<closed, alive, avalidNum, activeNum, crashed>>
        /\ redises' = r
        /\ next' = [next EXCEPT ![r] = redises]
    BY <1>1 DEF Return, PutRedis
  <1>3. Unshared'
    BY <1>2 DEF ListInv, Unshared, Leased
  <1>4. r \notin Leased'
    BY <1>1, <1>2 DEF ListInv, Unshared, Leased
  <1>5. Idle' = Idle \cup {r}
    BY <1>1, <1>2, <1>4 DEF Idle, Leased
  <1>6. redises # r /\ \A s \in Idle : next[s] # r /\ s # r
    BY <1>1 DEF ListInv, Linked
  <1>. HIDE DEF NULL
  <1>7. Linked'
    <2>1. redises' \in Idle' \cup {NULL}
      BY <1>2, <1>5
    <2>2. next'[r] = redises /\ \A s \in Idle : next'[s] = next[s]
      BY <1>1, <1>2
    <2>3. /\ redises \in Idle \cup {NULL}
          /\ \A s \in Idle : next[s] \in Idle \cup {NULL}
          /\ \A s \in Idle : next[s] # NULL => next[s] # redises
          /\ \A s, t \in Idle : next[s] = next[t] /\ next[s] # NULL => s = t
      BY DEF ListInv, Linked
    <2>4. r # NULL
      BY DEF NULL
    <2>. QED
      BY <1>1, <1>2, <1>5, <2>1, <2>2, <2>3, <2>4 DEF Linked
  <1>8. ASSUME NEW d \in [Redis \cup {NULL} -> Nat], Depth(d)
        PROVE  \E e \in [Redis \cup {NULL} -> Nat] :
                   /\ Depth(e)'
                   /\ e[r] = d[redises] + 1
                   /\ \A s \in Idle : e[s] = d[s]
    <2>1. PICK n \in Nat : n = d[redises]
      BY <1>8
    <2>. DEFINE e == [d EXCEPT ![r] = n + 1]
    <2>2. e \in [Redis \cup {NULL} -> Nat]
      BY <1>1, <1>8
    <2>. USE DEF NULL
    <2>3. \A s \in Idle' : e[s] = e[next'[s]] + 1
      <3>1. e[r] = e[next'[r]] + 1
        BY <1>1, <1>2, <1>6, <1>8, <2>1
      <3>2. ASSUME NEW s \in Idle PROVE e[s] = e[next'[s]] + 1
        <4>1. s \in Redis /\ next'[s] = next[s] /\ next[s] \in Redis \cup {NULL}
          BY <1>2, <1>6 DEF Idle
        <4>2. e[s] = d[s] /\ e[next[s]] = d[next[s]]
          BY <1>6, <1>8, <4>1
        <4>. QED
          BY <1>8, <4>1, <4>2 DEF Depth
      <3>. QED
        BY <1>5, <3>1, <3>2
    <2>4. e[NULL] = 0 /\ e[redises'] >= avalidNum'
      BY <1>1, <1>2, <1>8, <2>1 DEF Depth
    <2>5. e[r] = n + 1 /\ redises' = r
      BY <1>2, <1>8
    <2>6. \A s \in Idle : s \in Redis /\ e[s] = d[s] /\ d[s] <= n /\ d[s] \in Nat
      BY <1>6, <1>8, <2>1 DEF Depth, Idle
    <2>. HIDE DEF e
    <2>7. /\ \A s \in Idle' : e[s] <= e[redises']
          /\ \A s, t \in Idle' : e[s] = e[t] => s = t
      <3>1. \A s, t \in Idle : d[s] = d[t] => s = t
        BY <1>8 DEF Depth
      <3>. QED
        BY <1>5, <2>5, <2>6, <3>1
    <2>8. Depth(e)'
      BY <2>3, <2>4, <2>7 DEF Depth
    <2>. QED
      BY <2>1, <2>2, <2>5, <2>6, <2>8
  <1>. QED
    BY <1>1, <1>2, <1>3, <1>5, <1>7, <1>8

(* getRedis and putRedis keep the list linked, when nothing is deleted.    *)
LEMMA NextKeepsList ==
  ASSUME failed' = {}, TypeOK, TypeOK', ListInv, [Next]_vars
  PROVE  ListInv'
  <1>. USE SizeAssumption DEF TypeOK, PoolTypeOK, Redis, NULL
  <1>1. ASSUME NEW o \in Owner, NEW r \in Redis, ~closed,
               held[o] = NULL, PopRedis(r) \/ NewRedis(r), UNCHANGED closed,
               held' = [held EXCEPT ![o] = r]
        PROVE  ListInv'
    BY <1>1, PopLinked, NewLinked DEF ListInv
  <1>3. ASSUME NEW o \in Owner, NEW r \in Redis, r = held[o],
               Return(o), ~closed
        PROVE  ListInv'
    BY <1>3, PutLinked DEF ListInv
  <1>4. CASE Close
    BY <1>4 DEF Close, ListInv, Unshared, Leased
  <1>5. CASE UNCHANGED vars
    <2>1. /\ Unshared' = Unshared /\ Linked' = Linked
          /\ Idle' = Idle /\ UNCHANGED <<closed, next, redises, avalidNum>>
      BY <1>5 DEF vars, Unshared, Leased, Linked, Idle
    <2>2. ASSUME NEW d \in [Redis \cup {NULL} -> Nat], Depth(d)
          PROVE  Depth(d)'
      BY <2>1, <2>2 DEF Depth
    <2>. QED
      BY <2>1, <2>2 DEF ListInv
  <1>6. ASSUME NEW o \in Owner, Acquire(o), ~closed PROVE ListInv'
    <2>1. ~PopFault
      BY <1>6, ListHeadUsable DEF HeadIdle, Idle, PopFault
    <2>. QED
      BY <1>1, <1>6, <2>1 DEF Acquire, GetRedis
  <1>7. \A r \in Redis : ~IdleClose(r)
    BY DEF IdleClose
  <1>8. \A o \in Owner : ~Discard(o)
    BY DEF Discard
  <1>9. ASSUME NEW o \in Owner, Return(o), ~closed PROVE ListInv'
    <2>1. held[o] \in Redis
      BY <1>9 DEF Return
    <2>. QED
      BY <1>3, <1>9, <2>1
  <1>10. CASE Next
    <2>1. ~closed
      BY <1>10 DEF Next
    <2>. QED
      BY <1>4, <1>6, <1>7, <1>8, <1>9, <1>10, <2>1 DEF Next
  <1>. QED
    BY <1>5, <1>10

-----------------------------------------------------------------------------
(* What fails stays on record, so a step that leads to a state of either   *)
(* case started in one.                                                    *)
LEMMA FailedGrows == [Next]_vars => failed \subseteq failed'
  BY DEF Next, vars, Acquire, Return, Discard, IdleClose, Close

(* The two cases of Sound together, in which nothing that matters fails.   *)
SoundInv ==
    /\ MinNum <= 2 /\ "idle" \notin failed => SmallInv
    /\ failed = {} => ListInv

(* In every reachable state the list is as its case describes it.          *)
THEOREM ListInvariant == Spec => []SoundInv
  <1>1. Init => SoundInv
    BY InitSmall, InitList DEF SoundInv
  <1>2. TypeOK /\ TypeOK' /\ SoundInv /\ [Next]_vars => SoundInv'
    <2>. SUFFICES ASSUME TypeOK, TypeOK', SoundInv, [Next]_vars
                  PROVE  SoundInv'
      OBVIOUS
    <2>1. MinNum <= 2 /\ "idle" \notin failed' => SmallInv'
      BY FailedGrows, NextKeepsSmall DEF SoundInv
    <2>2. failed' = {} => ListInv'
      BY FailedGrows, NextKeepsList DEF SoundInv
    <2>. QED
      BY <2>1, <2>2 DEF SoundInv
  <1>. QED
    BY <1>1, <1>2, TypeCorrect, PTL DEF Spec

(* No two owners share a connection, and none is freed under its owner, as *)
(* long as no idle connection has failed, and none at all or min is at     *)
(* most 2: for every size of the pool and every number of owners.          *)
THEOREM ExclusiveHolds == Spec => []Exclusive
  <1>1. SoundInv => Exclusive
    BY DEF SoundInv, Exclusive, Sound, SmallInv, ListInv
  <1>. QED
    BY <1>1, ListInvariant, PTL

(* Under the same conditions getRedis finds an idle connection at the head *)
(* whenever avalidNum promises one.                                        *)
THEOREM HeadUsableHolds == Spec => []HeadUsable
  <1>1. TypeOK /\ SoundInv => HeadUsable
    BY ListHeadUsable DEF SoundInv, HeadUsable, Sound, SmallInv
  <1>. QED
    BY <1>1, TypeCorrect, ListInvariant, PTL

-----------------------------------------------------------------------------
(* Proofs about the free list of PoolUse as a whole, while no connection   *)
(* has failed: Chain, the walk along `next', visits every idle struct      *)
(* once.  That freePool's walk is safe, that nothing is lost and that the  *)
(* pool is a stack follow from it.                                         *)

(* Node, the k-th struct from the head, satisfies its definition.          *)
Follow == [r \in Redis \cup {NULL} |-> IF r = NULL THEN NULL ELSE next[r]]

LEMMA NodeDefined ==
  TypeOK => /\ Node \in [0 .. NRedis -> Redis \cup {NULL}]
            /\ Node[0] = redises
            /\ \A k \in 1 .. NRedis : Node[k] = Follow[Node[k - 1]]
  <1>. SUFFICES ASSUME TypeOK
                PROVE  /\ Node \in [0 .. NRedis -> Redis \cup {NULL}]
                       /\ Node[0] = redises
                       /\ \A k \in 1 .. NRedis : Node[k] = Follow[Node[k - 1]]
    OBVIOUS
  <1>1. Follow \in [Redis \cup {NULL} -> Redis \cup {NULL}] /\ redises \in Redis \cup {NULL}
    BY DEF Follow, TypeOK, PoolTypeOK
  <1>2. NRedis \in Nat
    BY SizeAssumption
  <1>. DEFINE Raw(f) == [k \in 0 .. NRedis |-> IF k = 0 THEN redises ELSE Follow[f[k - 1]]]
              w == CHOOSE f : f = Raw(f)
  <1>3. Node = w
    BY DEF Node, Follow
  <1>. DEFINE S == Redis \cup {NULL}
  <1>. HIDE DEF S
  <1>6. Follow \in [S -> S] /\ redises \in S
    BY <1>1 DEF S
  <1>7. PICK f : Iterated(f, S, redises, Follow, NRedis)
    BY <1>2, <1>6, Iterates
  <1>8. f = Raw(f)
    BY <1>2, <1>7 DEF Iterated
  <1>9. w = Raw(w)
    BY <1>8
  <1>. HIDE DEF w
  <1>10. w = [k \in 0 .. NRedis |-> w[k]] /\ w[0] = redises
         /\ \A k \in 1 .. NRedis : w[k] = Follow[w[k - 1]]
    BY <1>2, <1>9
  <1>11. Iterated(w, S, redises, Follow, NRedis)
    BY <1>2, <1>6, <1>10, Unfolds
  <1>4. Iterated(Node, Redis \cup {NULL}, redises, Follow, NRedis)
    BY <1>3, <1>11 DEF S
  <1>. QED
    BY <1>4 DEF Iterated

-----------------------------------------------------------------------------
(* How Chain looks when d ranks the idle structs: one struct of each rank, *)
(* from that of the head down to 1.                                        *)
Shape(d) ==
    /\ d[redises] \in 0 .. NRedis
    /\ Chain \in Seq(Idle) /\ Len(Chain) = d[redises]
    /\ \A i \in 1 .. d[redises] : Chain[i] \in Idle /\ d[Chain[i]] = d[redises] - i + 1

ChainShape == ~closed => \A d \in [Redis \cup {NULL} -> Nat] : Depth(d) => Shape(d)

(* The walk along a linked list is as long as the rank of its head.        *)
LEMMA ListShape == TypeOK /\ ListInv => ChainShape
  <1>. SUFFICES ASSUME TypeOK, ListInv, ~closed,
                       NEW d \in [Redis \cup {NULL} -> Nat], Depth(d)
                PROVE  Shape(d)
    BY DEF ChainShape
  <1>1. PICK m \in Nat : m = d[redises]
    BY DEF TypeOK, PoolTypeOK
  <1>2. /\ redises \in Idle \cup {NULL}
        /\ \A r \in Idle : next[r] \in Idle \cup {NULL}
        /\ \A r \in Idle : r \in Redis /\ r # NULL
    BY DEF ListInv, Linked, Idle, TypeOK, PoolTypeOK, Redis, NULL
  <1>3. /\ d[NULL] = 0
        /\ \A r \in Idle : d[r] = d[next[r]] + 1 /\ d[r] > 0 /\ d[next[r]] \in Nat
    <2>1. d[NULL] = 0 /\ \A r \in Idle : d[r] = d[next[r]] + 1
      BY DEF Depth
    <2>2. \A r \in Idle : d[next[r]] \in Nat
      BY <1>2
    <2>. QED
      BY <2>1, <2>2
  <1>4. NRedis \in Nat
    BY SizeAssumption
  <1>5. /\ Node[0] = redises
        /\ \A k \in 1 .. NRedis : Node[k] = Follow[Node[k - 1]]
        /\ Node \in [0 .. NRedis -> Redis \cup {NULL}]
    BY NodeDefined
  <1>. DEFINE Right(k) == IF k < m THEN Node[k] \in Idle /\ d[Node[k]] = m - k
                                   ELSE Node[k] = NULL
              Bad == {k \in 0 .. NRedis : ~Right(k)}
  <1>6. \A k \in 0 .. NRedis : Right(k)
    <2>1. SUFFICES ASSUME Bad # {} PROVE FALSE
      OBVIOUS
    <2>2. Bad \subseteq Nat
      BY <1>4
    <2>3. PICK k \in Bad : \A l \in Bad : k <= l
      <3>. HIDE DEF Bad
      <3>. QED
        BY <2>1, <2>2, LeastNumber
    <2>4. k \in 0 .. NRedis /\ ~Right(k)
      OBVIOUS
    <2>5. k # 0
      <3>1. Right(0)
        <4>1. CASE m = 0
          <5>1. redises \notin Idle
            <6>1. \A r \in Idle : d[r] # 0
              BY <1>3
            <6>2. d[redises] = 0
              BY <1>1, <4>1
            <6>. QED
              BY <6>1, <6>2, Zenon
          <5>. QED
            BY <1>2, <1>5, <4>1, <5>1
        <4>2. CASE m > 0
          BY <1>1, <1>2, <1>3, <1>5, <4>2
        <4>. QED
          BY <1>1, <4>1, <4>2
      <3>. QED
        BY <2>4, <3>1
    <2>6. k - 1 \in 0 .. NRedis /\ k \in 1 .. NRedis /\ ~(k <= k - 1)
      BY <1>4, <2>4, <2>5
    <2>7. Right(k - 1)
      <3>1. k - 1 \notin Bad
        <4>. HIDE DEF Bad
        <4>. QED
          BY <2>3, <2>6
      <3>. QED
        BY <2>6, <3>1
    <2>8. Node[k] = Follow[Node[k - 1]]
      BY <1>5, <2>6
    <2>9. CASE k - 1 < m
      <3>1. Node[k - 1] \in Idle /\ d[Node[k - 1]] = m - (k - 1)
        BY <2>7, <2>9
      <3>2. Node[k] = next[Node[k - 1]]
        BY <1>2, <2>8, <3>1 DEF Follow
      <3>3. Node[k] \in Idle \cup {NULL} /\ d[Node[k]] = m - k
        BY <1>2, <1>3, <2>6, <3>1, <3>2
      <3>4. Right(k)
        BY <1>3, <2>6, <2>9, <3>3
      <3>. QED
        BY <2>4, <3>4
    <2>10. CASE ~(k - 1 < m)
      <3>1. Node[k - 1] = NULL
        BY <2>7, <2>10
      <3>2. Node[k] = NULL
        BY <2>8, <3>1 DEF Follow
      <3>3. ~(k < m)
        BY <2>6, <2>10
      <3>. QED
        BY <2>4, <3>2, <3>3
    <2>. QED
      BY <2>9, <2>10
  <1>. HIDE DEF Bad
  <1>7. m <= NRedis
    <2>1. SUFFICES ASSUME m > NRedis PROVE FALSE
      BY <1>4
    <2>2. \A k \in 0 .. NRedis : Node[k] \in Redis /\ d[Node[k]] = m - k
      BY <1>2, <1>4, <1>6, <2>1
    <2>3. Node \in [0 .. NRedis -> Redis]
      <3>. HIDE DEF Right
      <3>. QED
        BY <1>5, <2>2
    <2>4. IsFiniteSet(Redis) /\ Cardinality(Redis) = NRedis
      BY <1>4, FS_Interval DEF Redis
    <2>5. PICK j, k \in 0 .. NRedis : j # k /\ Node[j] = Node[k]
      BY <1>4, <2>3, <2>4, TooLong
    <2>. QED
      BY <1>1, <1>4, <2>2, <2>5
  <1>8. {k \in 0 .. NRedis : Node[k] # NULL} = 0 .. m - 1
    BY <1>1, <1>2, <1>4, <1>6, <1>7
  <1>9. Cardinality(0 .. m - 1) = m
    BY <1>1, FS_Interval
  <1>10. Chain = [i \in 1 .. m |-> Node[i - 1]]
    BY <1>8, <1>9 DEF Chain
  <1>11. \A i \in 1 .. m : Chain[i] \in Idle /\ d[Chain[i]] = m - i + 1
    <2>1. ASSUME NEW i \in 1 .. m
          PROVE  i - 1 \in 0 .. NRedis /\ i - 1 < m /\ m - (i - 1) = m - i + 1
      BY <1>1, <1>4, <1>7
    <2>. QED
      BY <1>6, <1>10, <2>1
  <1>12. Chain \in [1 .. m -> Idle]
    BY <1>10, <1>11
  <1>13. Chain \in Seq(Idle)
    <2>1. [1 .. m -> Idle] \in {[1 .. n -> Idle] : n \in Nat}
      BY <1>1
    <2>2. Chain \in UNION {[1 .. n -> Idle] : n \in Nat}
      BY <1>12, <2>1, Zenon
    <2>. QED
      BY <2>2, SeqDef, Zenon
  <1>14. Len(Chain) = m
    <2>1. Len(Chain) \in Nat /\ DOMAIN Chain = 1 .. Len(Chain) /\ DOMAIN Chain = 1 .. m
      BY <1>12, <1>13, LenProperties
    <2>. QED
      BY <1>1, <2>1
  <1>. QED
    BY <1>1, <1>4, <1>7, <1>11, <1>13, <1>14 DEF Shape

-----------------------------------------------------------------------------
(* Every idle struct is on such a list.                                    *)
LEMMA ChainIsIdle ==
  ASSUME NEW d \in [Redis \cup {NULL} -> Nat], TypeOK, Depth(d), Shape(d)
  PROVE  {Chain[i] : i \in 1 .. Len(Chain)} = Idle
  <1>1. PICK m \in Nat : m = d[redises]
    BY SizeAssumption DEF Shape
  <1>2. /\ Len(Chain) = m
        /\ \A i \in 1 .. m : Chain[i] \in Idle /\ d[Chain[i]] = m - i + 1
    BY <1>1 DEF Shape
  <1>3. ASSUME NEW r \in Idle PROVE \E i \in 1 .. m : Chain[i] = r
    <2>1. d[r] \in 1 .. m
      <3>1. r \in Redis /\ next[r] \in Redis \cup {NULL}
        BY DEF Idle, TypeOK, PoolTypeOK
      <3>2. d[r] = d[next[r]] + 1 /\ d[r] <= m
        BY <1>1 DEF Depth
      <3>. QED
        BY <3>1, <3>2
    <2>2. PICK i \in 1 .. m : d[Chain[i]] = d[r]
      <3>1. m - d[r] + 1 \in 1 .. m /\ m - (m - d[r] + 1) + 1 = d[r]
        BY <2>1
      <3>. QED
        BY <1>2, <3>1
    <2>3. Chain[i] = r
      BY <1>2, <2>2 DEF Depth
    <2>. QED
      BY <2>3
  <1>. QED
    BY <1>2, <1>3

(* The list of a state without failures is complete and finite.            *)
NoLoss ==
    failed = {} /\ ~closed =>
        Len(Chain) <= NRedis /\ {Chain[i] : i \in 1 .. Len(Chain)} = Idle

LEMMA SoundIsComplete == TypeOK /\ SoundInv => NoLoss
  <1>. SUFFICES ASSUME TypeOK, ListInv, ~closed
                PROVE  Len(Chain) <= NRedis /\ {Chain[i] : i \in 1 .. Len(Chain)} = Idle
    BY DEF SoundInv, NoLoss
  <1>1. PICK d \in [Redis \cup {NULL} -> Nat] : Depth(d)
    BY DEF ListInv
  <1>2. Shape(d)
    BY <1>1, ListShape DEF ChainShape
  <1>3. {Chain[i] : i \in 1 .. Len(Chain)} = Idle
    BY <1>1, <1>2, ChainIsIdle
  <1>4. Len(Chain) <= NRedis
    BY <1>2, SizeAssumption DEF Shape
  <1>. QED
    BY <1>3, <1>4

(* Without a head there is no list.                                        *)
EmptyChain == redises = NULL => Chain = <<>>

LEMMA NullIsEmpty == TypeOK => EmptyChain
  <1>. SUFFICES ASSUME TypeOK, redises = NULL PROVE Chain = <<>>
    BY DEF EmptyChain
  <1>1. NRedis \in Nat
    BY SizeAssumption
  <1>. DEFINE Bad == {k \in 0 .. NRedis : Node[k] # NULL}
  <1>2. Bad = {}
    <2>1. SUFFICES ASSUME Bad # {} PROVE FALSE
      OBVIOUS
    <2>2. Bad \subseteq Nat
      BY <1>1
    <2>3. PICK k \in Bad : \A l \in Bad : k <= l
      <3>. HIDE DEF Bad
      <3>. QED
        BY <2>1, <2>2, LeastNumber
    <2>4. k \in 0 .. NRedis /\ Node[k] # NULL
      OBVIOUS
    <2>5. k # 0
      BY <2>4, NodeDefined
    <2>6. k - 1 \in 0 .. NRedis /\ k \in 1 .. NRedis /\ ~(k <= k - 1)
      BY <1>1, <2>4, <2>5
    <2>7. k - 1 \notin Bad
      <3>. HIDE DEF Bad
      <3>. QED
        BY <2>3, <2>6
    <2>8. Node[k - 1] = NULL /\ Node[k] = Follow[Node[k - 1]]
      BY <2>6, <2>7, NodeDefined
    <2>. QED
      BY <2>4, <2>8 DEF Follow
  <1>3. Cardinality({}) = 0
    BY FS_EmptySet
  <1>4. Chain = [i \in 1 .. 0 |-> Node[i - 1]]
    BY <1>2, <1>3 DEF Chain
  <1>. QED
    BY <1>4

-----------------------------------------------------------------------------
(* freePool leaves nothing.                                                *)
Emptied == failed = {} /\ closed => alive = {} /\ redises = NULL

(* A step that fails no connection neither crashes nor leaves a struct     *)
(* behind at the end.                                                      *)
LEMMA NextIsSafe ==
  ASSUME failed' = {}, TypeOK, ListInv, NoLoss, ~crashed, Emptied, failed = {}, [Next]_vars
  PROVE  ~crashed' /\ Emptied'
  <1>1. ASSUME NEW o \in Owner, Acquire(o), ~closed PROVE ~crashed' /\ Emptied'
    <2>1. ~PopFault
      BY <1>1, ListHeadUsable DEF HeadIdle, Idle, PopFault
    <2>. QED
      BY <1>1, <2>1 DEF Acquire, GetRedis, PopRedis, NewRedis, Emptied
  <1>2. ASSUME NEW o \in Owner, Return(o), ~closed PROVE ~crashed' /\ Emptied'
    <2>1. held[o] \in alive
      BY <1>2 DEF ListInv, Unshared, Leased, Return
    <2>. QED
      BY <1>2, <2>1 DEF Return, PutRedis, UseFault, Emptied
  <1>3. CASE Close /\ ~closed
    <2>1. Idle = alive
      <3>1. Leased = {}
        BY <1>3 DEF Close, Leased
      <3>. QED
        BY <3>1 DEF Idle
    <2>2. Len(Chain) <= NRedis /\ {Chain[i] : i \in 1 .. Len(Chain)} = alive
      BY <1>3, <2>1 DEF NoLoss
    <2>3. redises' = NULL /\ alive' = alive \ alive /\ UNCHANGED crashed
      BY <1>3, <2>2 DEF Close, FreeIdle
    <2>. QED
      BY <2>3 DEF Emptied
  <1>4. CASE UNCHANGED vars
    BY <1>4 DEF vars, Emptied
  <1>5. /\ \A r \in Redis : ~IdleClose(r)
        /\ \A o \in Owner : ~Discard(o)
    BY DEF IdleClose, Discard
  <1>. QED
    BY <1>1, <1>2, <1>3, <1>4, <1>5 DEF Next

(* The list, and that nothing has crashed or got lost so far.              *)
SafeInv == SoundInv /\ NoCrash /\ Emptied

(* Every reachable state is safe.                                          *)
THEOREM SafeInvariant == Spec => []SafeInv
  <1>1. Init => NoCrash /\ Emptied
    BY DEF Init, PoolInit, NoCrash, Emptied
  <1>2. TypeOK /\ SoundInv /\ NoCrash /\ Emptied /\ [Next]_vars
            => NoCrash' /\ Emptied'
    <2>. SUFFICES ASSUME TypeOK, SoundInv, NoCrash, Emptied, [Next]_vars,
                         failed' = {}
                  PROVE  ~crashed' /\ Emptied'
      BY DEF NoCrash, Emptied
    <2>1. failed = {}
      BY FailedGrows
    <2>2. ListInv /\ ~crashed /\ NoLoss
      BY <2>1, SoundIsComplete DEF SoundInv, NoCrash
    <2>. QED
      BY <2>1, <2>2, NextIsSafe
  <1>. QED
    BY <1>1, <1>2, TypeCorrect, ListInvariant, PTL DEF Spec, SafeInv

(* Without a failed connection the process never follows a NULL or freed   *)
(* pointer in the pool, in getRedis, putRedis or freePool's walk.          *)
THEOREM NoCrashHolds == Spec => []NoCrash
  <1>1. SafeInv => NoCrash
    BY DEF SafeInv
  <1>. QED
    BY <1>1, SafeInvariant, PTL

(* Without a failed connection every one that is open and not in use can   *)
(* be reached from the head, until freePool has freed them all: putRedis   *)
(* and getRedis lose none.                                                 *)
THEOREM NoLeakHolds == Spec => []NoLeak
  <1>1. TypeOK /\ SafeInv => NoLeak
    <2>. SUFFICES ASSUME TypeOK, SafeInv, failed = {}
                  PROVE  Idle = {Chain[i] : i \in 1 .. Len(Chain)}
      BY DEF NoLeak
    <2>1. CASE closed
      <3>1. Idle = {} /\ Chain = <<>>
        BY <2>1, NullIsEmpty DEF SafeInv, Emptied, Idle, EmptyChain
      <3>. QED
        BY <3>1
    <2>2. CASE ~closed
      BY <2>2, SoundIsComplete DEF SafeInv, NoLoss
    <2>. QED
      BY <2>1, <2>2
  <1>. QED
    BY <1>1, TypeCorrect, SafeInvariant, PTL

-----------------------------------------------------------------------------
(* The refinement: each operation of the pool is one of the stack, when no *)
(* connection fails.  A struct is told by its rank, so chains of the same  *)
(* ranks are equal.                                                        *)

(* getRedis from the list takes the top of the stack.                      *)
LEMMA PopIsTake ==
  ASSUME TypeOK, TypeOK', ListInv, ~closed, ChainShape, ChainShape',
         NEW o \in Owner, NEW r \in Redis,
         held[o] = NULL, PopRedis(r), UNCHANGED closed, held' = [held EXCEPT ![o] = r]
  PROVE  Chain # <<>> /\ r = Head(Chain) /\ Chain' = Tail(Chain)
  <1>1. PICK d \in [Redis \cup {NULL} -> Nat] : Depth(d)
    BY DEF ListInv
  <1>2. Depth(d)' /\ r = redises /\ r \in Idle /\ Idle' = Idle \ {r} /\ redises' = next[r]
    BY <1>1, PopLinked
  <1>3. Shape(d) /\ Shape(d)'
    BY <1>1, <1>2 DEF ChainShape
  <1>4. PICK m \in Nat : m = d[redises] /\ m > 0 /\ d[redises'] = m - 1 /\ d[r] = m
    BY <1>1, <1>2 DEF Depth, TypeOK, PoolTypeOK
  <1>5. /\ Chain \in Seq(Idle) /\ Len(Chain) = m
        /\ \A i \in 1 .. m : Chain[i] \in Idle /\ d[Chain[i]] = m - i + 1
    BY <1>3, <1>4 DEF Shape
  <1>6. /\ Chain' \in Seq(Idle') /\ Len(Chain') = m - 1
        /\ \A i \in 1 .. m - 1 : Chain'[i] \in Idle' /\ d[Chain'[i]] = m - i
    BY <1>3, <1>4 DEF Shape
  <1>7. Chain # <<>>
    BY <1>4, <1>5, EmptySeq
  <1>8. /\ Tail(Chain) \in Seq(Idle) /\ Len(Tail(Chain)) = m - 1
        /\ \A i \in 1 .. m - 1 : Tail(Chain)[i] = Chain[i + 1]
    BY <1>5, <1>7, HeadTailProperties
  <1>9. \A s, t \in Idle : d[s] = d[t] => s = t
    BY <1>1 DEF Depth
  <1>10. Head(Chain) = r
    <2>1. Head(Chain) = Chain[1] /\ 1 \in 1 .. m /\ m - 1 + 1 = m
      BY <1>4, <1>5, <1>7
    <2>. QED
      BY <1>2, <1>4, <1>5, <1>9, <2>1
  <1>11. Chain' \in Seq(Idle)
    BY <1>2, <1>6, SeqMonotonic
  <1>12. ASSUME NEW i \in 1 .. m - 1
         PROVE  Chain'[i] = Tail(Chain)[i]
    <2>1. i + 1 \in 1 .. m /\ m - (i + 1) + 1 = m - i
      BY <1>4
    <2>2. Chain'[i] \in Idle /\ d[Chain'[i]] = m - i
      BY <1>2, <1>6
    <2>3. Tail(Chain)[i] = Chain[i + 1] /\ Chain[i + 1] \in Idle /\ d[Chain[i + 1]] = m - i
      BY <1>5, <1>8, <2>1
    <2>. QED
      BY <1>9, <2>2, <2>3
  <1>13. Chain' = Tail(Chain)
    BY <1>6, <1>8, <1>11, <1>12, SeqEqual
  <1>. QED
    BY <1>7, <1>10, <1>13

(* A new connection leaves the stack as it is.                             *)
LEMMA NewIsOpen ==
  ASSUME TypeOK, TypeOK', ListInv, ~closed, ChainShape, ChainShape',
         NEW o \in Owner, NEW r \in Redis,
         held[o] = NULL, NewRedis(r), UNCHANGED closed, held' = [held EXCEPT ![o] = r]
  PROVE  Chain' = Chain
  <1>1. PICK d \in [Redis \cup {NULL} -> Nat] : Depth(d)
    BY DEF ListInv
  <1>2. Depth(d)' /\ Idle' = Idle /\ redises' = redises
    BY <1>1, NewLinked
  <1>3. Shape(d) /\ Shape(d)'
    BY <1>1, <1>2 DEF ChainShape
  <1>4. \A s, t \in Idle : d[s] = d[t] => s = t
    BY <1>1 DEF Depth
  <1>5. PICK m \in Nat : m = d[redises]
    BY SizeAssumption, <1>3 DEF Shape
  <1>6. /\ Chain \in Seq(Idle) /\ Chain' \in Seq(Idle) /\ Len(Chain) = m /\ Len(Chain') = m
        /\ \A i \in 1 .. m : /\ Chain[i] \in Idle /\ d[Chain[i]] = m - i + 1
                            /\ Chain'[i] \in Idle /\ d[Chain'[i]] = m - i + 1
    BY <1>2, <1>3, <1>5 DEF Shape
  <1>7. \A i \in 1 .. m : Chain'[i] = Chain[i]
    BY <1>4, <1>6
  <1>. QED
    BY <1>6, <1>7, SeqEqual

(* putRedis pushes the connection.                                         *)
LEMMA PutIsGiveBack ==
  ASSUME TypeOK, TypeOK', ListInv, ~closed, ChainShape, ChainShape',
         NEW o \in Owner, NEW r \in Redis, r = held[o], Return(o)
  PROVE  Chain' = <<r>> \o Chain
  <1>1. PICK d \in [Redis \cup {NULL} -> Nat] : Depth(d)
    BY DEF ListInv
  <1>2. /\ r \notin Idle /\ Idle' = Idle \cup {r} /\ redises' = r /\ UNCHANGED closed
        /\ \E e \in [Redis \cup {NULL} -> Nat] :
               Depth(e)' /\ e[r] = d[redises] + 1 /\ \A s \in Idle : e[s] = d[s]
    BY <1>1, PutLinked
  <1>3. PICK e \in [Redis \cup {NULL} -> Nat] :
            Depth(e)' /\ e[r] = d[redises] + 1 /\ \A s \in Idle : e[s] = d[s]
    BY <1>2
  <1>4. Shape(d) /\ Shape(e)'
    BY <1>1, <1>2, <1>3 DEF ChainShape
  <1>5. PICK m \in Nat : m = d[redises] /\ e[r] = m + 1 /\ e[redises'] = m + 1
    BY <1>1, <1>2, <1>3 DEF TypeOK, PoolTypeOK
  <1>6. /\ Chain \in Seq(Idle) /\ Len(Chain) = m
        /\ \A i \in 1 .. m : Chain[i] \in Idle /\ e[Chain[i]] = m - i + 1
    BY <1>3, <1>4, <1>5 DEF Shape
  <1>7. /\ Chain' \in Seq(Idle') /\ Len(Chain') = m + 1
        /\ \A i \in 1 .. m + 1 : Chain'[i] \in Idle' /\ e[Chain'[i]] = m + 1 - i + 1
    BY <1>4, <1>5 DEF Shape
  <1>8. Chain \in Seq(Idle') /\ <<r>> \in Seq(Idle') /\ Len(<<r>>) = 1 /\ <<r>>[1] = r
    BY <1>2, <1>6, SeqMonotonic
  <1>. DEFINE c == <<r>> \o Chain
  <1>9. /\ c \in Seq(Idle') /\ Len(c) = m + 1
        /\ \A i \in 1 .. m + 1 : c[i] = IF i <= 1 THEN <<r>>[i] ELSE Chain[i - 1]
    BY <1>5, <1>6, <1>8, ConcatProperties
  <1>10. \A s, t \in Idle' : e[s] = e[t] => s = t
    BY <1>3 DEF Depth
  <1>. HIDE DEF c
  <1>11. ASSUME NEW i \in 1 .. m + 1
         PROVE  Chain'[i] = c[i]
    <2>1. Chain'[i] \in Idle' /\ e[Chain'[i]] = m + 1 - i + 1
      BY <1>7
    <2>2. c[i] \in Idle' /\ e[c[i]] = m + 1 - i + 1
      <3>1. CASE i = 1
        <4>1. 1 \in 1 .. m + 1 /\ m + 1 - 1 + 1 = m + 1
          BY <1>5
        <4>2. c[1] = <<r>>[1]
          BY <1>9, <4>1
        <4>. QED
          BY <1>2, <1>5, <1>8, <3>1, <4>1, <4>2
      <3>2. CASE i # 1
        <4>1. i - 1 \in 1 .. m /\ ~(i <= 1) /\ m - (i - 1) + 1 = m + 1 - i + 1
          BY <1>5, <3>2
        <4>2. c[i] = Chain[i - 1] /\ Chain[i - 1] \in Idle /\ e[c[i]] = m + 1 - i + 1
          BY <1>6, <1>9, <4>1
        <4>. QED
          BY <1>2, <4>2
      <3>. QED
        BY <3>1, <3>2
    <2>. QED
      BY <1>10, <2>1, <2>2
  <1>12. Chain' = c
    BY <1>7, <1>9, <1>11, SeqEqual
  <1>. QED
    BY <1>12 DEF c

(* What a step from one such state to another needs of both.               *)
Listed == failed = {} => ListInv /\ ChainShape /\ EmptyChain

LEMMA SoundIsListed == TypeOK /\ SoundInv => Listed
  BY ListShape, NullIsEmpty DEF SoundInv, Listed

(* initPool makes the stack of the abstract pool.                          *)
LEMMA InitIsStack == Init => Stack!Init
  <1>. SUFFICES ASSUME Init PROVE Stack!Init
    OBVIOUS
  <1>1. TypeOK /\ ListInv
    BY InitCount, InitList DEF CountInv
  <1>2. MinNum \in Nat /\ redises = 1 /\ InitRank[1] = MinNum
    BY SizeAssumption DEF Init, PoolInit, InitRank, Redis, NULL
  <1>3. Idle = 1 .. MinNum /\ Depth(InitRank) /\ InitRank \in [Redis \cup {NULL} -> Nat]
    BY InitRanked
  <1>4. Shape(InitRank)
    BY <1>1, <1>3, ListShape DEF ChainShape, Init
  <1>5. /\ Chain \in Seq(Idle) /\ Len(Chain) = MinNum
        /\ \A i \in 1 .. MinNum : Chain[i] \in Idle /\ InitRank[Chain[i]] = MinNum - i + 1
    BY <1>2, <1>4 DEF Shape
  <1>6. \A i \in 1 .. MinNum : InitRank[i] = MinNum - i + 1
    BY SizeAssumption DEF InitRank, Redis, NULL
  <1>7. ASSUME NEW i \in 1 .. MinNum PROVE Chain[i] = i
    <2>1. PICK r \in 1 .. MinNum : r = Chain[i]
      BY <1>3, <1>5
    <2>2. MinNum - r + 1 = MinNum - i + 1
      BY <1>5, <1>6, <2>1
    <2>. QED
      BY <1>2, <2>1, <2>2
  <1>8. Chain = [i \in 1 .. MinNum |-> i]
    <2>1. Chain \in [1 .. MinNum -> Idle]
      BY <1>5, LenProperties
    <2>. QED
      BY <1>7, <2>1
  <1>. QED
    BY <1>8 DEF Init, PoolInit, Stack!Init

(* Every step is one of the stack, or changes nothing in it, or fails a    *)
(* connection.                                                             *)
LEMMA NextIsStack ==
  ASSUME TypeOK, TypeOK', Accounting, Listed, Listed', SafeInv, [Next]_vars,
         failed' = {}, ~ UNCHANGED (Stack!vars)
  PROVE  Stack!Next
  <1>1. /\ failed = {} /\ ListInv /\ ChainShape /\ ~crashed
        /\ ListInv' /\ ChainShape' /\ EmptyChain'
    BY FailedGrows DEF Listed, SafeInv, NoCrash
  <1>2. ASSUME NEW o \in Owner, Acquire(o), ~closed PROVE Stack!Next
    <2>1. ~PopFault
      BY <1>1, <1>2, ListHeadUsable DEF HeadIdle, Idle, PopFault
    <2>2. PICK r \in Redis : GetRedis(r) /\ held' = [held EXCEPT ![o] = r]
      BY <1>2, <2>1 DEF Acquire
    <2>3. held[o] = NULL /\ UNCHANGED closed
      BY <1>2 DEF Acquire
    <2>4. CASE PopRedis(r)
      <3>1. Chain # <<>> /\ r = Head(Chain) /\ Chain' = Tail(Chain)
        BY <1>1, <1>2, <2>2, <2>3, <2>4, PopIsTake
      <3>2. activeNum < MinNum /\ activeNum' = activeNum + 1
        BY <2>4, SizeAssumption DEF PopRedis, Accounting, TypeOK, PoolTypeOK
      <3>. QED
        BY <2>2, <2>3, <3>1, <3>2 DEF Stack!Next, Stack!Take, Stack!TakeIdle
    <2>5. CASE NewRedis(r)
      <3>1. Chain' = Chain
        BY <1>1, <1>2, <2>2, <2>3, <2>5, NewIsOpen
      <3>2. activeNum >= MinNum /\ activeNum < MaxNum /\ activeNum' = activeNum + 1
        BY <2>5, SizeAssumption DEF NewRedis, Accounting, TypeOK, PoolTypeOK
      <3>3. r \notin Leased /\ r \notin {Chain[i] : i \in DOMAIN Chain}
        <4>1. r \notin alive
          BY <2>5 DEF NewRedis
        <4>2. {Chain[i] : i \in 1 .. Len(Chain)} = Idle /\ DOMAIN Chain = 1 .. Len(Chain)
          <5>1. PICK d \in [Redis \cup {NULL} -> Nat] : Depth(d)
            BY <1>1, <1>2 DEF ListInv
          <5>2. Shape(d)
            BY <1>1, <1>2, <5>1 DEF ChainShape
          <5>3. DOMAIN Chain = 1 .. Len(Chain)
            BY <5>2, LenProperties DEF Shape
          <5>. QED
            BY <5>1, <5>2, <5>3, ChainIsIdle
        <4>. QED
          BY <1>1, <4>1, <4>2 DEF ListInv, Unshared, Idle
      <3>4. Stack!Leased = Leased
        BY DEF Stack!Leased, Leased
      <3>. QED
        BY <2>2, <2>3, <3>1, <3>2, <3>3, <3>4 DEF Stack!Next, Stack!Take, Stack!OpenNew
    <2>. QED
      BY <2>2, <2>4, <2>5 DEF GetRedis
  <1>3. ASSUME NEW o \in Owner, Return(o), ~closed PROVE Stack!Next
    <2>1. held[o] \in Redis /\ held[o] # NULL
      BY <1>3 DEF Return, TypeOK
    <2>2. Chain' = <<held[o]>> \o Chain
      BY <1>1, <1>3, <2>1, PutIsGiveBack
    <2>3. held' = [held EXCEPT ![o] = NULL] /\ UNCHANGED activeNum
      BY <1>1, <1>3, <2>1, PutLinked
    <2>. QED
      BY <2>1, <2>2, <2>3 DEF Stack!Next, Stack!GiveBack
  <1>4. CASE Close /\ ~closed
    <2>1. ~crashed' /\ redises' = NULL /\ UNCHANGED <<held, activeNum>>
      <3>1. closed' = TRUE /\ UNCHANGED held /\ FreeIdle
        BY <1>4 DEF Close
      <3>2. ~crashed' /\ Emptied'
        BY <1>1, NextIsSafe, SoundIsComplete DEF SafeInv
      <3>. QED
        BY <3>1, <3>2 DEF Emptied, FreeIdle, Crash
    <2>2. Chain' = <<>>
      BY <1>1, <2>1 DEF EmptyChain
    <2>. QED
      BY <2>1, <2>2 DEF Stack!Next, Stack!Close
  <1>5. ~ UNCHANGED vars
    <2>1. UNCHANGED vars => UNCHANGED <<Chain, held, activeNum>>
      BY DEF vars, Chain, Node
    <2>. QED
      BY <2>1 DEF Stack!vars
  <1>6. /\ \A r \in Redis : ~IdleClose(r)
        /\ \A o \in Owner : ~Discard(o)
    BY DEF IdleClose, Discard
  <1>. QED
    BY <1>2, <1>3, <1>4, <1>5, <1>6 DEF Next

(* Until a connection fails the pool is a stack of connections with a      *)
(* quota of max grants: PoolUse implements PoolStack, whatever the sizes.  *)
THEOREM StackImplemented == Spec => StackSpec
  <1>1. TypeOK /\ TypeOK' /\ Accounting /\ Listed /\ Listed' /\ SafeInv /\ [Next]_vars
            => [failed' = {} => Stack!Next]_(Stack!vars)
    BY NextIsStack
  <1>2. Spec => []Listed
    BY SoundIsListed, TypeCorrect, ListInvariant, PTL
  <1>. QED
    BY <1>1, <1>2, InitIsStack, TypeCorrect, AccountingHolds, SafeInvariant, PTL
    DEF Spec, StackSpec
=============================================================================
