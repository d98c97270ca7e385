--------------------------- MODULE Worker_proofs ----------------------------
(***************************************************************************)
(* Proofs about Worker, for any number of clients and commands, any pool   *)
(* and everything the environment may do except transactions: the state    *)
(* keeps its types, and readR waits for exactly the replies under way;     *)
(* then that no client receives a reply that is not its own; then that the *)
(* promise of Session is kept.                                             *)
(***************************************************************************)
EXTENDS Worker, Iteration, SequenceTheorems

USE DEF HasListed, UnderLimit, CountListed, CountNew, HeadAfterPop,
        HeadAfterDel, LinkAfterPut

NoTransactions == "multi" \notin Env

(* Every command is in one place until it is answered, and counted; a      *)
(* connection without a client, and an address that is not allocated, has  *)
(* none.                                                                   *)
Counted(r) ==
    /\ UnderWay(r) <= rNum[r]
    /\ rOpen[r] => UnderWay(r) = rNum[r]
    /\ rToC[r] = NoClient => rNum[r] = 0
    /\ r \notin alive => rOpen[r] /\ rToC[r] = NoClient

(* A client that newClient left in block state has no connection.          *)
Idle(c) == conn[c] = "new" \/ isBlock[c] => cToR[c] = NULL

(* The type invariant by parts.                                            *)
ClientType ==
    /\ conn \in [Client -> {"new", "open", "parked", "gone"}]
    /\ sock \in [Client -> Seq(Command)] /\ inbuf \in [Client -> Seq(Command)]
    /\ isQuit \in [Client -> BOOLEAN] /\ isBlock \in [Client -> BOOLEAN]
    /\ middle \in [Client -> Seq(Reply)] /\ got \in [Client -> Seq(Reply)]
    /\ sent \in [Client -> 0 .. MaxCmd]

MapType ==
    /\ cToR \in [Client -> Redis \cup {NULL}]
    /\ rToC \in [Redis -> Client \cup {NoClient}]
    /\ was \in [Client -> SUBSET Client]

RedisType ==
    /\ rmiddle \in [Redis -> Seq(Reply)] /\ rqueue \in [Redis -> Seq(Reply)]
    /\ replies \in [Redis -> Seq(Reply)] /\ rinbuf \in [Redis -> Seq(Reply)]
    /\ rNum \in [Redis -> Nat]
    /\ rOpen \in [Redis -> BOOLEAN] /\ rBlock \in [Redis -> BOOLEAN]

CountInv  == RedisType /\ \A r \in Redis : Counted(r)
ClientInv == ClientType /\ \A c \in Client : Idle(c)

(* No command sent is part of a transaction.                               *)
Plain(cmds) == \A i \in DOMAIN cmds : cmds[i].kind \in {"plain", "bad"}
Sent == \A c \in Client : Plain(sock[c]) /\ Plain(inbuf[c])

-----------------------------------------------------------------------------
(* Sequences and the places of a connection's commands.                    *)
LEMMA Cut ==
  ASSUME NEW S, NEW s \in Seq(S), NEW k \in 1 .. Len(s)
  PROVE  /\ SubSeq(s, 1, k) \in Seq(S) /\ Len(SubSeq(s, 1, k)) = k
         /\ \A i \in 1 .. k : SubSeq(s, 1, k)[i] = s[i]
         /\ SubSeq(s, k + 1, Len(s)) \in Seq(S)
         /\ Len(SubSeq(s, k + 1, Len(s))) = Len(s) - k
         /\ \A i \in 1 .. Len(s) - k : SubSeq(s, k + 1, Len(s))[i] = s[k + i]
  <1>1. Len(s) \in Nat /\ k \in Int /\ k + 1 \in Int /\ 1 \in Int
    BY LenProperties
  <1>2. \A i \in 1 .. Len(s) : s[i] \in S
    BY ElementOfSeq
  <1>3. /\ SubSeq(s, 1, k) \in Seq(S) /\ Len(SubSeq(s, 1, k)) = IF 1 <= k THEN k - 1 + 1 ELSE 0
        /\ \A i \in 1 .. k - 1 + 1 : SubSeq(s, 1, k)[i] = s[1 + i - 1]
    <2>1. \A i \in 1 .. k : s[i] \in S
      BY <1>1, <1>2
    <2>. QED
      BY <1>1, <2>1, SubSeqProperties
  <1>4. /\ SubSeq(s, k + 1, Len(s)) \in Seq(S)
        /\ Len(SubSeq(s, k + 1, Len(s))) =
              IF k + 1 <= Len(s) THEN Len(s) - (k + 1) + 1 ELSE 0
        /\ \A i \in 1 .. Len(s) - (k + 1) + 1 :
              SubSeq(s, k + 1, Len(s))[i] = s[(k + 1) + i - 1]
    <2>1. \A i \in k + 1 .. Len(s) : s[i] \in S
      BY <1>1, <1>2
    <2>2. Len(s) \in Int
      BY <1>1
    <2>. QED
      BY <1>1, <2>1, <2>2, SubSeqProperties
  <1>5. \A i \in 1 .. k : i \in 1 .. k - 1 + 1 /\ 1 + i - 1 = i
    BY <1>1
  <1>6. \A i \in 1 .. Len(s) - k : i \in 1 .. Len(s) - (k + 1) + 1 /\ (k + 1) + i - 1 = k + i
    BY <1>1
  <1>7. /\ (IF 1 <= k THEN k - 1 + 1 ELSE 0) = k
        /\ (IF k + 1 <= Len(s) THEN Len(s) - (k + 1) + 1 ELSE 0) = Len(s) - k
    BY <1>1
  <1>. QED
    BY <1>3, <1>4, <1>5, <1>6, <1>7

(* The commands of a batch as Redis will see them.                         *)
LEMMA Batch ==
  ASSUME NEW c \in Client, NEW cmds \in Seq(Command)
  PROVE  /\ [i \in DOMAIN cmds |-> <<c, cmds[i].n>>] \in Seq(Reply)
         /\ Len([i \in DOMAIN cmds |-> <<c, cmds[i].n>>]) = Len(cmds)
  <1>. DEFINE n == Len(cmds)
              e(i) == <<c, cmds[i].n>>
              b == [i \in 1 .. n |-> e(i)]
  <1>1. n \in Nat /\ DOMAIN cmds = 1 .. n
    BY LenProperties
  <1>2. \A i \in 1 .. n : e(i) \in Reply
    <2>1. ASSUME NEW i \in 1 .. n PROVE cmds[i].n \in 1 .. MaxCmd
      <3>1. cmds[i] \in Command
        BY ElementOfSeq
      <3>2. \A x \in Command : x.n \in 1 .. MaxCmd
        BY DEF Command
      <3>. QED
        BY <3>1, <3>2
    <2>2. \A x \in 1 .. MaxCmd : <<c, x>> \in Reply
      BY DEF Reply
    <2>. QED
      BY <2>1, <2>2
  <1>3. [i \in DOMAIN cmds |-> <<c, cmds[i].n>>] = b
    BY <1>1
  <1>. HIDE DEF n, e
  <1>4. b \in [1 .. n -> Reply]
    BY <1>2
  <1>5. b \in Seq(Reply)
    <2>1. [1 .. n -> Reply] \in {[1 .. m -> Reply] : m \in Nat}
      BY <1>1
    <2>2. b \in UNION {[1 .. m -> Reply] : m \in Nat}
      BY <1>4, <2>1, Zenon
    <2>. QED
      BY <2>2, SeqDef, Zenon
  <1>6. DOMAIN b = 1 .. n
    OBVIOUS
  <1>. HIDE DEF b
  <1>7. Len(b) \in Nat /\ DOMAIN b = 1 .. Len(b)
    BY <1>5, LenProperties
  <1>8. Len(b) = n
    BY <1>1, <1>6, <1>7
  <1>. QED
    BY <1>3, <1>5, <1>8 DEF n

(* The lengths that are added up.                                          *)
LEMMA Lengths ==
  ASSUME RedisType, NEW r \in Redis
  PROVE  /\ Len(rmiddle[r]) \in Nat /\ Len(rqueue[r]) \in Nat
         /\ Len(replies[r]) \in Nat /\ Len(rinbuf[r]) \in Nat
         /\ rmiddle[r] \in Seq(Reply) /\ rqueue[r] \in Seq(Reply)
         /\ replies[r] \in Seq(Reply) /\ rinbuf[r] \in Seq(Reply)
         /\ rNum[r] \in Nat /\ UnderWay(r) \in Nat
  <1>1. /\ rmiddle[r] \in Seq(Reply) /\ rqueue[r] \in Seq(Reply)
        /\ replies[r] \in Seq(Reply) /\ rinbuf[r] \in Seq(Reply) /\ rNum[r] \in Nat
    BY DEF RedisType
  <1>2. /\ Len(rmiddle[r]) \in Nat /\ Len(rqueue[r]) \in Nat
        /\ Len(replies[r]) \in Nat /\ Len(rinbuf[r]) \in Nat
    BY <1>1, LenProperties
  <1>3. \A i, j, k, l \in Nat : i + j + k + l \in Nat
    OBVIOUS
  <1>4. UnderWay(r) \in Nat
    BY <1>2, <1>3 DEF UnderWay
  <1>. QED
    BY <1>1, <1>2, <1>4

(* Without transactions the block state stays what it was, also when the   *)
(* batch is cut off at a malformed command.                                *)
LEMMA NoMarks ==
  ASSUME NEW cmds, Plain(cmds), NEW b
  PROVE  BlockAfter(b, cmds) = b
  BY DEF BlockAfter, Plain

LEMMA GoodIsPlain ==
  ASSUME NEW cmds \in Seq(Command), Plain(cmds)
  PROVE  Plain(Good(cmds))
  <1>. DEFINE bad == {i \in DOMAIN cmds : cmds[i].kind = "bad"}
              m   == CHOOSE i \in bad : \A j \in bad : i <= j
  <1>1. DOMAIN cmds = 1 .. Len(cmds) /\ Len(cmds) \in Nat
    BY LenProperties
  <1>2. CASE bad = {}
    BY <1>2 DEF Good
  <1>3. CASE bad # {}
    <2>1. bad \subseteq Nat /\ bad \subseteq 1 .. Len(cmds)
      BY <1>1
    <2>2. \E i \in bad : \A j \in bad : i <= j
      <3>. HIDE DEF bad
      <3>. QED
        BY <1>3, <2>1, LeastNumber
    <2>3. m \in 1 .. Len(cmds)
      <3>. HIDE DEF bad
      <3>. QED
        BY <2>1, <2>2
    <2>4. Good(cmds) = SubSeq(cmds, 1, m - 1)
      BY <1>3 DEF Good
    <2>. HIDE DEF m, bad
    <2>5. /\ SubSeq(cmds, 1, m - 1) \in Seq(Command)
          /\ Len(SubSeq(cmds, 1, m - 1)) = IF 1 <= m - 1 THEN m - 1 - 1 + 1 ELSE 0
          /\ \A i \in 1 .. m - 1 - 1 + 1 : SubSeq(cmds, 1, m - 1)[i] = cmds[1 + i - 1]
      <3>1. \A i \in 1 .. m - 1 : cmds[i] \in Command
        BY <1>1, <2>3, ElementOfSeq
      <3>2. 1 \in Int /\ m - 1 \in Int
        BY <1>1, <2>3
      <3>. QED
        BY <3>1, <3>2, SubSeqProperties
    <2>6. DOMAIN SubSeq(cmds, 1, m - 1) = 1 .. Len(SubSeq(cmds, 1, m - 1))
      BY <2>5, LenProperties
    <2>7. Len(SubSeq(cmds, 1, m - 1)) = m - 1
      BY <1>1, <2>3, <2>5
    <2>8. ASSUME NEW i \in 1 .. m - 1
          PROVE  SubSeq(cmds, 1, m - 1)[i].kind \in {"plain", "bad"}
      <3>1. i \in 1 .. m - 1 - 1 + 1 /\ 1 + i - 1 = i /\ i \in DOMAIN cmds
        BY <1>1, <2>3
      <3>2. SubSeq(cmds, 1, m - 1)[i] = cmds[i]
        BY <2>5, <3>1
      <3>. QED
        BY <3>1, <3>2 DEF Plain
    <2>9. \A i \in DOMAIN SubSeq(cmds, 1, m - 1) : SubSeq(cmds, 1, m - 1)[i].kind \in {"plain", "bad"}
      BY <2>6, <2>7, <2>8
    <2>. QED
      BY <2>4, <2>9 DEF Plain
  <1>. QED
    BY <1>2, <1>3

(* What a client sends, and any part of it that is read, is plain.         *)
LEMMA PlainParts ==
  ASSUME NEW s \in Seq(Command), NEW t \in Seq(Command), Plain(s), Plain(t),
         NEW k \in 1 .. Len(t)
  PROVE  /\ s \o SubSeq(t, 1, k) \in Seq(Command) /\ Plain(s \o SubSeq(t, 1, k))
         /\ SubSeq(t, k + 1, Len(t)) \in Seq(Command) /\ Plain(SubSeq(t, k + 1, Len(t)))
  <1>. DEFINE p == SubSeq(t, 1, k)
              q == SubSeq(t, k + 1, Len(t))
  <1>1. /\ p \in Seq(Command) /\ Len(p) = k /\ \A i \in 1 .. k : p[i] = t[i]
        /\ q \in Seq(Command) /\ Len(q) = Len(t) - k
        /\ \A i \in 1 .. Len(t) - k : q[i] = t[k + i]
    BY Cut
  <1>2. Len(s) \in Nat /\ Len(t) \in Nat /\ DOMAIN s = 1 .. Len(s) /\ DOMAIN t = 1 .. Len(t)
    BY LenProperties
  <1>. HIDE DEF p, q
  <1>3. /\ s \o p \in Seq(Command) /\ Len(s \o p) = Len(s) + Len(p)
        /\ \A i \in 1 .. Len(s) + Len(p) : (s \o p)[i] = IF i <= Len(s) THEN s[i] ELSE p[i - Len(s)]
    BY <1>1, ConcatProperties
  <1>4. DOMAIN (s \o p) = 1 .. Len(s) + k /\ DOMAIN q = 1 .. Len(t) - k
    BY <1>1, <1>3, LenProperties
  <1>5. ASSUME NEW i \in 1 .. Len(s) + k PROVE (s \o p)[i].kind \in {"plain", "bad"}
    <2>1. CASE i <= Len(s)
      <3>1. i \in DOMAIN s /\ (s \o p)[i] = s[i]
        BY <1>1, <1>2, <1>3, <2>1
      <3>. QED
        BY <3>1 DEF Plain
    <2>2. CASE ~(i <= Len(s))
      <3>1. i - Len(s) \in 1 .. k /\ i - Len(s) \in DOMAIN t
        BY <1>2, <2>2
      <3>2. (s \o p)[i] = t[i - Len(s)]
        BY <1>1, <1>2, <1>3, <2>2, <3>1
      <3>. QED
        BY <3>1, <3>2 DEF Plain
    <2>. QED
      BY <2>1, <2>2
  <1>6. ASSUME NEW i \in 1 .. Len(t) - k PROVE q[i].kind \in {"plain", "bad"}
    <2>1. k + i \in DOMAIN t /\ q[i] = t[k + i]
      BY <1>1, <1>2
    <2>. QED
      BY <2>1 DEF Plain
  <1>7. Plain(s \o p) /\ Plain(q)
    BY <1>4, <1>5, <1>6 DEF Plain
  <1>. QED
    BY <1>1, <1>3, <1>7 DEF p, q

LEMMA PlainAppend ==
  ASSUME NEW s \in Seq(Command), Plain(s), NEW x \in Command, x.kind \in {"plain", "bad"}
  PROVE  Append(s, x) \in Seq(Command) /\ Plain(Append(s, x))
  <1>1. /\ Append(s, x) \in Seq(Command) /\ Len(Append(s, x)) = Len(s) + 1
        /\ \A i \in 1 .. Len(s) : Append(s, x)[i] = s[i]
        /\ Append(s, x)[Len(s) + 1] = x
    BY AppendProperties
  <1>2. Len(s) \in Nat /\ DOMAIN s = 1 .. Len(s)
    BY LenProperties
  <1>3. DOMAIN Append(s, x) = 1 .. Len(s) + 1
    BY <1>1, LenProperties
  <1>4. ASSUME NEW i \in 1 .. Len(s) + 1 PROVE Append(s, x)[i].kind \in {"plain", "bad"}
    <2>1. i = Len(s) + 1 \/ i \in 1 .. Len(s)
      BY <1>2
    <2>. QED
      BY <1>1, <1>2, <2>1 DEF Plain
  <1>5. Plain(Append(s, x))
    BY <1>3, <1>4 DEF Plain
  <1>. QED
    BY <1>1, <1>5

-----------------------------------------------------------------------------
(* The pool's operations.  Idle connections are promised within min.       *)
PoolInv == PoolTypeOK /\ (avalidNum > 0 => avalidNum + activeNum = MinNum)

LEMMA PoolKeeps ==
  ASSUME PoolInv, NEW r \in Redis,
         \/ GetRedis(r) \/ PutRedis(r) \/ DelRedis(r) \/ Crash
         \/ GetThenGiveUp(r, TRUE) \/ GetThenGiveUp(r, FALSE)
  PROVE  PoolInv'
  <1>. USE SizeAssumption DEF PoolInv, PoolTypeOK, Redis, NULL
  <1>1. CASE PopRedis(r)
    BY <1>1 DEF PopRedis
  <1>2. CASE NewRedis(r)
    BY <1>2 DEF NewRedis
  <1>3. CASE PutRedis(r)
    BY <1>3 DEF PutRedis
  <1>4. CASE DelRedis(r)
    BY <1>4 DEF DelRedis
  <1>5. CASE Crash
    BY <1>5 DEF Crash
  <1>6. ASSUME NEW del \in BOOLEAN, GetThenGiveUp(r, del) PROVE PoolInv'
    <2>1. /\ avalidNum' \in 0 .. MinNum /\ activeNum' \in 0 .. MaxNum
          /\ avalidNum' > 0 => avalidNum' + activeNum' = MinNum
      BY <1>6 DEF GetThenGiveUp
    <2>2. crashed' \in BOOLEAN
      BY <1>6 DEF GetThenGiveUp
    <2>3. alive' \subseteq Redis /\ redises' \in Redis \cup {NULL}
      BY <1>6 DEF GetThenGiveUp
    <2>4. next' \in [Redis -> Redis \cup {NULL}]
      <3>1. \E v \in Redis \cup {NULL} : next' = [next EXCEPT ![r] = v]
        BY <1>6 DEF GetThenGiveUp
      <3>. QED
        BY <3>1
    <2>. QED
      BY <2>1, <2>2, <2>3, <2>4
  <1>. QED
    BY <1>1, <1>2, <1>3, <1>4, <1>5, <1>6 DEF GetRedis

-----------------------------------------------------------------------------
(* A connection to which nothing happens.                                  *)
Same(s) ==
    /\ rmiddle'[s] = rmiddle[s] /\ rqueue'[s] = rqueue[s]
    /\ replies'[s] = replies[s] /\ rinbuf'[s] = rinbuf[s]
    /\ rNum'[s] = rNum[s] /\ rOpen'[s] = rOpen[s]
    /\ rToC'[s] = rToC[s]
    /\ s \in alive' <=> s \in alive

LEMMA SameCounted == ASSUME NEW s, Counted(s), Same(s) PROVE Counted(s)'
  BY DEF Counted, Same, UnderWay

(* Nothing happens to any connection's commands; r may be taken from the   *)
(* pool or given back.                                                     *)
LEMMA NoneMoved ==
  ASSUME CountInv, UNCHANGED <<redisVars, rToC>>, alive \subseteq alive'
  PROVE  CountInv'
  <1>1. RedisType'
    BY DEF CountInv, RedisType, redisVars
  <1>2. ASSUME NEW s \in Redis PROVE Counted(s)'
    BY DEF CountInv, Counted, UnderWay, redisVars
  <1>. QED
    BY <1>1, <1>2 DEF CountInv

(* A connection is deleted: nothing is left of it.                         *)
LEMMA DropKeeps ==
  ASSUME CountInv, MapType, NEW r \in Redis, Drop(r),
         rToC' = [rToC EXCEPT ![r] = NoClient]
  PROVE  CountInv'
  <1>. USE DEF Drop, ForgetRedis, DelRedis
  <1>1. RedisType'
    <2>1. <<>> \in Seq(Reply)
      BY EmptySeq
    <2>. QED
      BY <2>1 DEF CountInv, RedisType
  <1>2. ASSUME NEW s \in Redis, s # r PROVE Counted(s)'
    <2>1. Same(s)
      BY <1>2 DEF Same, CountInv, RedisType, MapType
    <2>. QED
      BY <2>1, SameCounted DEF CountInv
  <1>3. Counted(r)'
    <2>1. /\ rmiddle'[r] = <<>> /\ rqueue'[r] = <<>> /\ replies'[r] = <<>> /\ rinbuf'[r] = <<>>
          /\ rNum'[r] = 0 /\ rOpen'[r] /\ rToC'[r] = NoClient
      BY DEF CountInv, RedisType, MapType
    <2>2. /\ Len(rmiddle'[r]) = 0 /\ Len(rqueue'[r]) = 0
          /\ Len(replies'[r]) = 0 /\ Len(rinbuf'[r]) = 0
      BY <2>1, EmptySeq, Zenon
    <2>3. UnderWay(r)' = 0
      <3>1. UnderWay(r)' = Len(rmiddle'[r]) + Len(rqueue'[r]) + Len(replies'[r]) + Len(rinbuf'[r])
        BY DEF UnderWay
      <3>. QED
        BY <2>2, <3>1
    <2>. QED
      BY <2>1, <2>3 DEF Counted
  <1>. QED
    BY <1>1, <1>2, <1>3 DEF CountInv

(* A batch is handed to a connection that was taken from the pool.         *)
LEMMA ForwardKeeps ==
  ASSUME CountInv, MapType, NEW c \in Client, NEW r \in Redis,
         NEW cmds \in Seq(Command),
         GetRedis(r), Forward(c, r, cmds), BlockAfter(isBlock[c], cmds) = FALSE
  PROVE  CountInv'
  <1>. DEFINE batch == [i \in DOMAIN cmds |-> <<c, cmds[i].n>>]
  <1>1. /\ rmiddle' = [rmiddle EXCEPT ![r] = @ \o batch]
        /\ rNum' = [rNum EXCEPT ![r] = @ + Len(cmds)]
        /\ rToC' = [rToC EXCEPT ![r] = c]
        /\ rBlock' = [rBlock EXCEPT ![r] = FALSE]
        /\ rqueue' = rqueue /\ replies' = replies /\ rinbuf' = rinbuf /\ rOpen' = rOpen
    BY DEF Forward, Await
  <1>2. batch \in Seq(Reply) /\ Len(batch) = Len(cmds)
    BY Batch
  <1>. HIDE DEF batch
  <1>3. r \in alive' /\ \A s \in Redis : s # r => (s \in alive' <=> s \in alive)
    BY DEF GetRedis, PopRedis, NewRedis
  <1>4. /\ rmiddle[r] \in Seq(Reply) /\ rNum[r] \in Nat /\ UnderWay(r) \in Nat
        /\ Len(cmds) \in Nat /\ Len(rmiddle[r]) \in Nat /\ Len(rqueue[r]) \in Nat
        /\ Len(replies[r]) \in Nat /\ Len(rinbuf[r]) \in Nat
    BY Lengths, LenProperties DEF CountInv
  <1>5. rmiddle[r] \o batch \in Seq(Reply) /\ Len(rmiddle[r] \o batch) = Len(rmiddle[r]) + Len(cmds)
    <2>1. /\ rmiddle[r] \o batch \in Seq(Reply)
          /\ Len(rmiddle[r] \o batch) = Len(rmiddle[r]) + Len(batch)
      BY <1>2, <1>4, ConcatProperties, Zenon
    <2>. QED
      BY <1>2, <2>1
  <1>6. RedisType'
    <2>1. rmiddle' \in [Redis -> Seq(Reply)]
      BY <1>1, <1>5 DEF CountInv, RedisType
    <2>2. rNum' \in [Redis -> Nat]
      BY <1>1, <1>4 DEF CountInv, RedisType
    <2>3. rBlock' \in [Redis -> BOOLEAN]
      BY <1>1 DEF CountInv, RedisType
    <2>. QED
      BY <1>1, <2>1, <2>2, <2>3 DEF CountInv, RedisType
  <1>7. ASSUME NEW s \in Redis, s # r PROVE Counted(s)'
    <2>1. Same(s)
      BY <1>1, <1>3, <1>7 DEF Same, CountInv, RedisType, MapType
    <2>. QED
      BY <2>1, SameCounted DEF CountInv
  <1>8. Counted(r)'
    <2>1. /\ rmiddle'[r] = rmiddle[r] \o batch /\ rNum'[r] = rNum[r] + Len(cmds) /\ rToC'[r] = c
      BY <1>1 DEF CountInv, RedisType, MapType
    <2>2. UnderWay(r)' = UnderWay(r) + Len(cmds)
      <3>1. /\ UnderWay(r)' = Len(rmiddle'[r]) + Len(rqueue'[r]) + Len(replies'[r]) + Len(rinbuf'[r])
            /\ UnderWay(r) = Len(rmiddle[r]) + Len(rqueue[r]) + Len(replies[r]) + Len(rinbuf[r])
        BY DEF UnderWay
      <3>2. Len(rmiddle'[r]) = Len(rmiddle[r]) + Len(cmds)
        BY <1>5, <2>1
      <3>3. UnderWay(r)' = (Len(rmiddle[r]) + Len(cmds)) + Len(rqueue[r])
                              + Len(replies[r]) + Len(rinbuf[r])
        BY <1>1, <3>1, <3>2
      <3>. DEFINE i == Len(rmiddle[r])
                  j == Len(rqueue[r])
                  k == Len(replies[r])
                  l == Len(rinbuf[r])
                  m == Len(cmds)
      <3>4. i \in Nat /\ j \in Nat /\ k \in Nat /\ l \in Nat /\ m \in Nat
        BY <1>4
      <3>5. UnderWay(r)' = (i + m) + j + k + l /\ UnderWay(r) = i + j + k + l
        BY <3>1, <3>3
      <3>. HIDE DEF i, j, k, l, m
      <3>6. (i + m) + j + k + l = (i + j + k + l) + m
        BY <3>4
      <3>7. UnderWay(r)' = UnderWay(r) + m
        BY <3>5, <3>6
      <3>. QED
        BY <3>7 DEF m
    <2>3. Counted(r) /\ c # NoClient
      BY WorkerAssumption DEF CountInv
    <2>. QED
      BY <1>1, <1>3, <1>4, <2>1, <2>2, <2>3 DEF Counted
  <1>. QED
    BY <1>6, <1>7, <1>8 DEF CountInv

(* Redis answers, or closes its end.                                       *)
LEMMA AnswerKeeps ==
  ASSUME CountInv, NEW r \in Redis, RedisAnswer(r)
  PROVE  CountInv'
  <1>1. /\ rqueue[r] # <<>>
        /\ replies' = [replies EXCEPT ![r] = Append(@, Head(rqueue[r]))]
        /\ rqueue' = [rqueue EXCEPT ![r] = Tail(@)]
        /\ rmiddle' = rmiddle /\ rinbuf' = rinbuf /\ rNum' = rNum /\ rBlock' = rBlock
        /\ rOpen' = rOpen /\ rToC' = rToC /\ alive' = alive
    BY DEF RedisAnswer, poolVars, mapVars
  <1>2. /\ rqueue[r] \in Seq(Reply) /\ replies[r] \in Seq(Reply)
        /\ Len(rmiddle[r]) \in Nat /\ Len(rqueue[r]) \in Nat
        /\ Len(replies[r]) \in Nat /\ Len(rinbuf[r]) \in Nat
    BY Lengths DEF CountInv
  <1>3. /\ Head(rqueue[r]) \in Reply /\ Tail(rqueue[r]) \in Seq(Reply)
        /\ Len(Tail(rqueue[r])) = Len(rqueue[r]) - 1
    BY <1>1, <1>2, HeadTailProperties
  <1>4. /\ Append(replies[r], Head(rqueue[r])) \in Seq(Reply)
        /\ Len(Append(replies[r], Head(rqueue[r]))) = Len(replies[r]) + 1
    BY <1>2, <1>3, AppendProperties
  <1>5. RedisType'
    BY <1>1, <1>3, <1>4 DEF CountInv, RedisType
  <1>6. ASSUME NEW s \in Redis, s # r PROVE Counted(s)'
    <2>1. Same(s)
      BY <1>1, <1>6 DEF Same, CountInv, RedisType
    <2>. QED
      BY <2>1, SameCounted DEF CountInv
  <1>7. Counted(r)'
    <2>1. /\ Len(replies'[r]) = Len(replies[r]) + 1 /\ Len(rqueue'[r]) = Len(rqueue[r]) - 1
      BY <1>1, <1>3, <1>4 DEF CountInv, RedisType
    <2>2. UnderWay(r)' = Len(rmiddle[r]) + (Len(rqueue[r]) - 1) + (Len(replies[r]) + 1) + Len(rinbuf[r])
      BY <1>1, <2>1 DEF UnderWay
    <2>3. UnderWay(r)' = UnderWay(r)
      <3>. DEFINE i == Len(rmiddle[r])
                  j == Len(rqueue[r])
                  k == Len(replies[r])
                  l == Len(rinbuf[r])
      <3>1. i \in Nat /\ j \in Nat /\ k \in Nat /\ l \in Nat
        BY <1>2
      <3>2. UnderWay(r)' = i + (j - 1) + (k + 1) + l /\ UnderWay(r) = i + j + k + l
        BY <2>2 DEF UnderWay
      <3>. HIDE DEF i, j, k, l
      <3>. QED
        BY <3>1, <3>2
    <2>4. Counted(r)
      BY DEF CountInv
    <2>. QED
      BY <1>1, <2>3, <2>4 DEF Counted
  <1>. QED
    BY <1>5, <1>6, <1>7 DEF CountInv

LEMMA CloseKeeps ==
  ASSUME CountInv, NEW r \in Redis, RedisClose(r)
  PROVE  CountInv'
  <1>1. /\ r \in alive /\ rOpen' = [rOpen EXCEPT ![r] = FALSE]
        /\ rqueue' = rqueue /\ replies' = replies /\ rmiddle' = rmiddle /\ rinbuf' = rinbuf
        /\ rNum' = rNum /\ rBlock' = rBlock /\ rToC' = rToC /\ alive' = alive
    BY DEF RedisClose, poolVars, mapVars
  <1>2. RedisType'
    BY <1>1 DEF CountInv, RedisType
  <1>3. ASSUME NEW s \in Redis PROVE Counted(s)'
    <2>1. Counted(s) /\ UnderWay(s)' = UnderWay(s)
      BY <1>1 DEF CountInv, UnderWay
    <2>2. rOpen'[s] => rOpen[s]
      BY <1>1 DEF CountInv, RedisType
    <2>3. s \notin alive => rOpen'[s] = rOpen[s]
      BY <1>1 DEF CountInv, RedisType
    <2>. QED
      BY <1>1, <2>1, <2>2, <2>3 DEF Counted
  <1>. QED
    BY <1>2, <1>3 DEF CountInv

(* What waits is sent, or lost behind a connection that Redis has closed.  *)
LEMMA SendKeeps ==
  ASSUME CountInv, NEW r \in Redis, WriteRSend(r)
  PROVE  CountInv'
  <1>1. /\ rqueue' = IF rOpen[r] THEN [rqueue EXCEPT ![r] = @ \o rmiddle[r]] ELSE rqueue
        /\ rmiddle' = [rmiddle EXCEPT ![r] = <<>>]
        /\ replies' = replies /\ rinbuf' = rinbuf /\ rNum' = rNum /\ rBlock' = rBlock
        /\ rOpen' = rOpen /\ rToC' = rToC /\ alive' = alive
    BY DEF WriteRSend, poolVars, mapVars
  <1>2. /\ rqueue[r] \in Seq(Reply) /\ rmiddle[r] \in Seq(Reply)
        /\ Len(rmiddle[r]) \in Nat /\ Len(rqueue[r]) \in Nat
        /\ Len(replies[r]) \in Nat /\ Len(rinbuf[r]) \in Nat
        /\ rNum[r] \in Nat
    BY Lengths DEF CountInv
  <1>3. /\ rqueue[r] \o rmiddle[r] \in Seq(Reply)
        /\ Len(rqueue[r] \o rmiddle[r]) = Len(rqueue[r]) + Len(rmiddle[r])
    BY <1>2, ConcatProperties
  <1>4. <<>> \in Seq(Reply) /\ Len(<<>>) = 0
    BY EmptySeq
  <1>5. RedisType'
    <2>1. rmiddle' \in [Redis -> Seq(Reply)]
      BY <1>1, <1>4 DEF CountInv, RedisType
    <2>2. rqueue' \in [Redis -> Seq(Reply)]
      BY <1>1, <1>3 DEF CountInv, RedisType
    <2>. QED
      BY <1>1, <2>1, <2>2 DEF CountInv, RedisType
  <1>6. ASSUME NEW s \in Redis, s # r PROVE Counted(s)'
    <2>1. rqueue'[s] = rqueue[s] /\ rmiddle'[s] = rmiddle[s]
      BY <1>1, <1>6 DEF CountInv, RedisType
    <2>2. Same(s)
      BY <1>1, <2>1 DEF Same
    <2>. QED
      BY <2>2, SameCounted DEF CountInv
  <1>7. Counted(r)'
    <2>1. rmiddle'[r] = <<>> /\ rqueue'[r] = IF rOpen[r] THEN rqueue[r] \o rmiddle[r] ELSE rqueue[r]
      BY <1>1 DEF CountInv, RedisType
    <2>2. Len(rmiddle'[r]) = 0
      BY <1>4, <2>1
    <2>3. Counted(r)
      BY DEF CountInv
    <2>4. CASE rOpen[r]
      <3>1. Len(rqueue'[r]) = Len(rqueue[r]) + Len(rmiddle[r])
        BY <1>3, <2>1, <2>4
      <3>2. UnderWay(r)' = 0 + (Len(rqueue[r]) + Len(rmiddle[r])) + Len(replies[r]) + Len(rinbuf[r])
        BY <1>1, <2>2, <3>1 DEF UnderWay
      <3>. DEFINE i == Len(rmiddle[r])
                  j == Len(rqueue[r])
                  k == Len(replies[r])
                  l == Len(rinbuf[r])
      <3>3. i \in Nat /\ j \in Nat /\ k \in Nat /\ l \in Nat
        BY <1>2
      <3>4. UnderWay(r)' = 0 + (j + i) + k + l /\ UnderWay(r) = i + j + k + l
        BY <3>2 DEF UnderWay
      <3>. HIDE DEF i, j, k, l
      <3>5. UnderWay(r)' = UnderWay(r)
        BY <3>3, <3>4
      <3>. QED
        BY <1>1, <2>3, <3>5 DEF Counted
    <2>5. CASE ~rOpen[r]
      <3>1. UnderWay(r)' = 0 + Len(rqueue[r]) + Len(replies[r]) + Len(rinbuf[r])
        BY <1>1, <2>1, <2>2, <2>5 DEF UnderWay
      <3>2. UnderWay(r) <= rNum[r]
        BY <2>3 DEF Counted
      <3>. DEFINE i == Len(rmiddle[r])
                  j == Len(rqueue[r])
                  k == Len(replies[r])
                  l == Len(rinbuf[r])
      <3>3. i \in Nat /\ j \in Nat /\ k \in Nat /\ l \in Nat /\ rNum[r] \in Nat
        BY <1>2
      <3>4. UnderWay(r)' = 0 + j + k + l /\ UnderWay(r) = i + j + k + l
        BY <3>1 DEF UnderWay
      <3>. HIDE DEF i, j, k, l
      <3>5. UnderWay(r)' <= rNum[r]
        BY <3>2, <3>3, <3>4
      <3>. QED
        BY <1>1, <2>3, <2>5, <3>5 DEF Counted
    <2>. QED
      BY <2>4, <2>5
  <1>. QED
    BY <1>5, <1>6, <1>7 DEF CountInv

(* Replies are read: as many as come off the count come off what is under  *)
(* way, and a connection is only given back with nothing left.             *)
LEMMA DataKeeps ==
  ASSUME CountInv, MapType, NEW r \in Redis, NEW c \in Client, rToC[r] = c,
         ReadRData(r, c)
  PROVE  /\ CountInv'
         /\ \E new \in Seq(Reply) : middle' = middle \/ middle' = [middle EXCEPT ![c] = @ \o new]
  <1>1. PICK k \in 1 .. Len(replies[r]) :
           LET new == rinbuf[r] \o SubSeq(replies[r], 1, k)
           IN  /\ replies' = [replies EXCEPT ![r] = SubSeq(@, k + 1, Len(@))]
               /\ rmiddle' = rmiddle /\ rqueue' = rqueue /\ rBlock' = rBlock /\ rOpen' = rOpen
               /\ IF again
                  THEN /\ rinbuf' = [rinbuf EXCEPT ![r] = new]
                       /\ UNCHANGED <<poolVars, middle, rNum, mapVars>>
                  ELSE /\ rinbuf' = [rinbuf EXCEPT ![r] = <<>>]
                       /\ middle' = [middle EXCEPT ![c] = @ \o new]
                       /\ CountReplies(r, Len(new))
                       /\ IF rBlock[r] \/ rNum[r] # Len(new)
                          THEN UNCHANGED <<poolVars, mapVars>>
                          ELSE Unmap(r, c) /\ PutRedis(r)
    BY DEF ReadRData
  <1>. DEFINE new  == rinbuf[r] \o SubSeq(replies[r], 1, k)
              rest == SubSeq(replies[r], k + 1, Len(replies[r]))
  <1>2. /\ rmiddle[r] \in Seq(Reply) /\ rqueue[r] \in Seq(Reply)
        /\ replies[r] \in Seq(Reply) /\ rinbuf[r] \in Seq(Reply)
        /\ Len(rmiddle[r]) \in Nat /\ Len(rqueue[r]) \in Nat
        /\ Len(replies[r]) \in Nat /\ Len(rinbuf[r]) \in Nat
        /\ rNum[r] \in Nat
    BY Lengths DEF CountInv
  <1>3. /\ SubSeq(replies[r], 1, k) \in Seq(Reply) /\ Len(SubSeq(replies[r], 1, k)) = k
        /\ rest \in Seq(Reply) /\ Len(rest) = Len(replies[r]) - k
    BY <1>2, Cut
  <1>4. /\ new \in Seq(Reply)
        /\ Len(new) = Len(rinbuf[r]) + Len(SubSeq(replies[r], 1, k))
    BY <1>2, <1>3, ConcatProperties
  <1>5. Len(new) = Len(rinbuf[r]) + k
    BY <1>3, <1>4
  <1>6. <<>> \in Seq(Reply) /\ Len(<<>>) = 0
    BY EmptySeq
  <1>7. /\ replies' = [replies EXCEPT ![r] = rest]
        /\ rmiddle' = rmiddle /\ rqueue' = rqueue /\ rBlock' = rBlock /\ rOpen' = rOpen
        /\ alive' = alive
    BY <1>1 DEF PutRedis, poolVars
  <1>8. \/ again /\ rinbuf' = [rinbuf EXCEPT ![r] = new] /\ rNum' = rNum /\ rToC' = rToC
        \/ /\ ~again /\ rinbuf' = [rinbuf EXCEPT ![r] = <<>>]
           /\ rNum' = [rNum EXCEPT ![r] = @ - Len(new)]
           /\ \/ rToC' = rToC
              \/ rNum[r] = Len(new) /\ rToC' = [rToC EXCEPT ![r] = NoClient]
    BY <1>1 DEF mapVars, CountReplies, Unmap
  <1>9. middle' = middle \/ middle' = [middle EXCEPT ![c] = @ \o new]
    BY <1>1
  <1>. HIDE DEF new, rest
  <1>. DEFINE i == Len(rmiddle[r])
              j == Len(rqueue[r])
              m == Len(replies[r])
              l == Len(rinbuf[r])
              n == Len(new)
  <1>10. /\ i \in Nat /\ j \in Nat /\ m \in Nat /\ l \in Nat /\ k \in 1 .. m
         /\ rNum[r] \in Nat /\ n = l + k
    BY <1>2, <1>5
  <1>11. i + j + m + l <= rNum[r] /\ (rOpen[r] => i + j + m + l = rNum[r])
    BY DEF CountInv, Counted, UnderWay
  <1>12. UnderWay(r)' = Len(rmiddle'[r]) + Len(rqueue'[r]) + Len(replies'[r]) + Len(rinbuf'[r])
    BY DEF UnderWay
  <1>13. /\ replies' \in [Redis -> Seq(Reply)] /\ Len(replies'[r]) = m - k
         /\ \A s \in Redis : s # r => replies'[s] = replies[s]
    BY <1>3, <1>7 DEF CountInv, RedisType
  <1>14. /\ rinbuf' \in [Redis -> Seq(Reply)]
         /\ \A s \in Redis : s # r => rinbuf'[s] = rinbuf[s]
         /\ Len(rinbuf'[r]) = IF again THEN n ELSE 0
    <2>1. CASE again
      BY <1>4, <1>8, <2>1 DEF CountInv, RedisType
    <2>2. CASE ~again
      BY <1>6, <1>8, <2>2 DEF CountInv, RedisType
    <2>. QED
      BY <2>1, <2>2
  <1>15. /\ rNum' \in [Redis -> Nat]
         /\ \A s \in Redis : s # r => rNum'[s] = rNum[s]
         /\ rNum'[r] = IF again THEN rNum[r] ELSE rNum[r] - n
    <2>1. CASE again
      BY <1>8, <2>1 DEF CountInv, RedisType
    <2>2. CASE ~again
      <3>1. rNum' = [rNum EXCEPT ![r] = @ - n]
        BY <1>8, <2>2
      <3>. HIDE DEF i, j, m, l, n
      <3>2. rNum[r] - n \in Nat
        BY <1>10, <1>11
      <3>. QED
        BY <2>2, <3>1, <3>2 DEF CountInv, RedisType
    <2>. QED
      BY <2>1, <2>2
  <1>16. RedisType'
    BY <1>7, <1>13, <1>14, <1>15 DEF CountInv, RedisType
  <1>17. ASSUME NEW s \in Redis, s # r PROVE Counted(s)'
    <2>1. rToC'[s] = rToC[s]
      BY <1>8, <1>17 DEF MapType
    <2>2. Same(s)
      BY <1>7, <1>13, <1>14, <1>15, <1>17, <2>1 DEF Same
    <2>. QED
      BY <2>2, SameCounted DEF CountInv
  <1>18. Counted(r)'
    <2>1. UnderWay(r)' = i + j + Len(replies'[r]) + Len(rinbuf'[r])
      BY <1>7, <1>12
    <2>2. CASE again
      <3>1. UnderWay(r)' = i + j + (m - k) + n /\ rNum'[r] = rNum[r]
        BY <1>13, <1>14, <1>15, <2>1, <2>2
      <3>2. rOpen' = rOpen /\ alive' = alive /\ rToC' = rToC
        BY <1>7, <1>8, <2>2
      <3>3. Counted(r)
        BY DEF CountInv
      <3>. HIDE DEF i, j, m, l, n
      <3>4. UnderWay(r)' <= rNum'[r] /\ (rOpen[r] => UnderWay(r)' = rNum'[r])
        BY <1>10, <1>11, <3>1
      <3>. QED
        BY <3>1, <3>2, <3>3, <3>4 DEF Counted
    <2>3. CASE ~again
      <3>1. UnderWay(r)' = i + j + (m - k) + 0 /\ rNum'[r] = rNum[r] - n
        BY <1>13, <1>14, <1>15, <2>1, <2>3
      <3>2. rOpen' = rOpen /\ alive' = alive
        BY <1>7
      <3>3. rToC'[r] = c \/ (rToC'[r] = NoClient /\ rNum[r] = n)
        BY <1>8, <2>3 DEF MapType
      <3>4. c # NoClient /\ (r \notin alive => rOpen[r] /\ rToC[r] = NoClient)
        BY WorkerAssumption DEF CountInv, Counted
      <3>. HIDE DEF i, j, m, l, n
      <3>5. UnderWay(r)' <= rNum'[r] /\ (rOpen[r] => UnderWay(r)' = rNum'[r])
        BY <1>10, <1>11, <3>1
      <3>6. rToC'[r] = NoClient => rNum'[r] = 0
        BY <1>10, <3>1, <3>3, <3>4
      <3>7. r \in alive
        BY <3>4
      <3>. QED
        BY <3>2, <3>5, <3>6, <3>7 DEF Counted
    <2>. QED
      BY <2>2, <2>3
  <1>. QED
    BY <1>4, <1>9, <1>16, <1>17, <1>18 DEF CountInv

-----------------------------------------------------------------------------
(* The invariant, by parts that steps leave alone together.                *)
Inv == PoolInv /\ MapType /\ ClientInv /\ CountInv /\ Sent

(* What a step does to the clients, when it reads and cuts off nothing.    *)
LEMMA ClientsKept ==
  ASSUME ClientInv, Sent, NEW new \in Seq(Reply), NEW c \in Client,
         middle' = middle \/ middle' = [middle EXCEPT ![c] = @ \o new],
         isQuit' = isQuit \/ isQuit' = [isQuit EXCEPT ![c] = TRUE],
         UNCHANGED <<conn, sock, inbuf, isBlock, sent, got>>,
         \A d \in Client : cToR'[d] \in {cToR[d], NULL}
  PROVE  ClientInv' /\ Sent'
  <1>1. middle' \in [Client -> Seq(Reply)]
    <2>1. middle[c] \o new \in Seq(Reply)
      BY ConcatProperties DEF ClientInv, ClientType
    <2>. QED
      BY <2>1 DEF ClientInv, ClientType
  <1>2. isQuit' \in [Client -> BOOLEAN]
    BY DEF ClientInv, ClientType
  <1>3. ClientType'
    BY <1>1, <1>2 DEF ClientInv, ClientType
  <1>4. ASSUME NEW d \in Client PROVE Idle(d)'
    BY DEF ClientInv, Idle
  <1>5. Sent'
    BY DEF Sent, Plain
  <1>. QED
    BY <1>3, <1>4, <1>5 DEF ClientInv

(* Nothing but a counter, a flag of the process or the environment.        *)
LEMMA QuietKeeps ==
  ASSUME Inv, UNCHANGED <<conn, sock, inbuf, isQuit, isBlock, middle, sent, got>>,
         UNCHANGED mapVars, CountInv', PoolInv'
  PROVE  Inv'
  <1>1. <<>> \in Seq(Reply)
    BY EmptySeq
  <1>2. CASE Client = {}
    BY <1>2 DEF Inv, ClientInv, ClientType, MapType, Sent, mapVars
  <1>3. CASE Client # {}
    <2>1. PICK c \in Client : TRUE
      BY <1>3
    <2>2. ClientInv' /\ Sent'
      BY <1>1, <2>1, ClientsKept DEF Inv, mapVars
    <2>. QED
      BY <2>2 DEF Inv, MapType, mapVars
  <1>. QED
    BY <1>2, <1>3

LEMMA FaultKeeps == ASSUME Inv, Fault PROVE Inv'
  <1>1. Crash /\ UNCHANGED <<clientVars, redisVars, mapVars>>
    BY DEF Fault
  <1>2. PoolInv'
    <2>1. 1 \in Redis
      BY SizeAssumption DEF Redis
    <2>. QED
      BY <1>1, <2>1, PoolKeeps DEF Inv
  <1>3. CountInv'
    BY <1>1, NoneMoved DEF Inv, Crash, mapVars
  <1>. QED
    BY <1>1, <1>2, <1>3, QuietKeeps DEF clientVars

(* A client is removed, its connection with it.                            *)
LEMMA RemoveKeeps ==
  ASSUME Inv, NEW c \in Client, RemoveClient(c), UNCHANGED <<isQuit, isBlock, sent>>,
         got' \in [Client -> Seq(Reply)]
  PROVE  Inv'
  <1>1. CountInv' /\ PoolInv' /\ MapType' /\ \A d \in Client : cToR'[d] \in {cToR[d], NULL}
    <2>1. CASE cToR[c] = NULL
      <3>1. UNCHANGED <<poolVars, redisVars, mapVars>>
        BY <2>1 DEF RemoveClient
      <3>2. CountInv'
        BY <3>1, NoneMoved DEF Inv, poolVars, mapVars
      <3>. QED
        BY <3>1, <3>2 DEF Inv, PoolInv, PoolTypeOK, MapType, poolVars, mapVars
    <2>2. CASE cToR[c] # NULL
      <3>1. Drop(cToR[c]) /\ Unmap(cToR[c], c) /\ cToR[c] \in Redis
        BY <2>2 DEF RemoveClient, Inv, MapType
      <3>2. CountInv'
        BY <3>1, DropKeeps DEF Inv, Unmap
      <3>3. PoolInv'
        BY <3>1, PoolKeeps DEF Inv, Drop
      <3>. QED
        BY <3>1, <3>2, <3>3 DEF Unmap, Inv, MapType
    <2>. QED
      BY <2>1, <2>2
  <1>2. /\ conn' = [conn EXCEPT ![c] = "gone"]
        /\ sock' = [sock EXCEPT ![c] = <<>>]
        /\ inbuf' = [inbuf EXCEPT ![c] = <<>>]
        /\ middle' = [middle EXCEPT ![c] = <<>>]
    BY DEF RemoveClient
  <1>3. ClientType'
    <2>1. <<>> \in Seq(Reply) /\ <<>> \in Seq(Command)
      BY EmptySeq
    <2>. QED
      BY <1>2, <2>1 DEF Inv, ClientInv, ClientType
  <1>4. ASSUME NEW d \in Client PROVE Idle(d)'
    <2>1. conn'[d] = "new" => conn[d] = "new"
      BY <1>2 DEF Inv, ClientInv, ClientType
    <2>. QED
      BY <1>1, <2>1 DEF Inv, ClientInv, Idle
  <1>5. ASSUME NEW d \in Client PROVE Plain(sock[d])' /\ Plain(inbuf[d])'
    <2>1. Plain(<<>>)
      BY DEF Plain
    <2>2. /\ sock'[d] \in {sock[d], <<>>} /\ inbuf'[d] \in {inbuf[d], <<>>}
      BY <1>2 DEF Inv, ClientInv, ClientType
    <2>3. Plain(sock[d]) /\ Plain(inbuf[d])
      BY DEF Inv, Sent
    <2>. QED
      BY <2>1, <2>2, <2>3 DEF Plain
  <1>. QED
    BY <1>1, <1>3, <1>4, <1>5 DEF Inv, ClientInv, Sent

(* What readC does with a batch, outside block state and in it.            *)
LEMMA ProcessKeeps ==
  ASSUME Inv, NEW c \in Client, NEW cmds \in Seq(Command), Plain(cmds),
         IF isBlock[c] THEN ProcessBlocked(c, cmds) ELSE ProcessNormal(c, cmds),
         conn[c] = "open", UNCHANGED conn
  PROVE  /\ PoolInv' /\ MapType' /\ CountInv'
         /\ isQuit' \in [Client -> BOOLEAN] /\ isBlock' \in [Client -> BOOLEAN]
         /\ \A d \in Client : Idle(d)'
  <1>. DEFINE Goal == /\ PoolInv' /\ MapType' /\ CountInv'
                      /\ isQuit' \in [Client -> BOOLEAN] /\ isBlock' \in [Client -> BOOLEAN]
                      /\ \A d \in Client : Idle(d)'
  <1>0. BlockAfter(FALSE, cmds) = FALSE /\ BlockAfter(FALSE, Good(cmds)) = FALSE
    BY NoMarks, GoodIsPlain
  <1>1. /\ isQuit \in [Client -> BOOLEAN] /\ isBlock \in [Client -> BOOLEAN]
        /\ conn \in [Client -> {"new", "open", "parked", "gone"}]
        /\ \A d \in Client : Idle(d)
    BY DEF Inv, ClientInv, ClientType
  <1>2. Quit(c) => isQuit' \in [Client -> BOOLEAN]
    BY <1>1 DEF Quit
  <1>3. ASSUME Quit(c), UNCHANGED <<poolVars, isBlock, redisVars, mapVars>> PROVE Goal
    <2>1. CountInv'
      BY <1>3, NoneMoved DEF Inv, poolVars, mapVars
    <2>2. PoolInv' /\ MapType'
      BY <1>3 DEF Inv, PoolInv, PoolTypeOK, MapType, poolVars, mapVars
    <2>3. \A d \in Client : Idle(d)'
      BY <1>1, <1>3 DEF Idle, mapVars
    <2>. QED
      BY <1>1, <1>2, <1>3, <2>1, <2>2, <2>3
  <1>4. CASE isBlock[c]
    <2>1. cToR[c] = NULL /\ cToR[c] \notin alive
      BY <1>1, <1>4, SizeAssumption DEF Idle, Inv, PoolInv, PoolTypeOK, NULL, Redis
    <2>2. Quit(c) /\ UNCHANGED <<poolVars, isBlock, redisVars, mapVars>>
      BY <1>4, <2>1 DEF ProcessBlocked
    <2>. QED
      BY <1>3, <2>2
  <1>5. CASE ~isBlock[c]
    <2>1. isBlock[c] = FALSE
      BY <1>1, <1>5
    <2>2. CASE Quit(c) /\ UNCHANGED <<poolVars, isBlock, redisVars, mapVars>>
      BY <1>3, <2>2
    <2>3. ASSUME NEW r \in Redis, GetRedis(r), Forward(c, r, cmds) PROVE Goal
      <3>1. BlockAfter(isBlock[c], cmds) = FALSE
        BY <1>0, <2>1
      <3>2. CountInv'
        BY <2>3, <3>1, ForwardKeeps DEF Inv
      <3>3. PoolInv'
        BY <2>3, PoolKeeps DEF Inv
      <3>4. /\ isBlock' = [isBlock EXCEPT ![c] = FALSE] /\ isQuit' = isQuit
            /\ cToR' = [cToR EXCEPT ![c] = r] /\ rToC' = [rToC EXCEPT ![r] = c]
            /\ was' = was
        BY <2>3, <3>1 DEF Forward
      <3>5. MapType'
        BY <3>4 DEF Inv, MapType
      <3>6. ASSUME NEW d \in Client PROVE Idle(d)'
        <4>1. CASE d = c
          BY <1>1, <3>4, <4>1 DEF Idle
        <4>2. CASE d # c
          BY <1>1, <3>4, <4>2 DEF Idle, Inv, MapType
        <4>. QED
          BY <4>1, <4>2
      <3>. QED
        BY <1>1, <3>2, <3>3, <3>4, <3>5, <3>6
    <2>4. ASSUME NEW r \in Redis, GetThenGiveUp(r, FALSE), UNCHANGED redisVars, Quit(c),
                 isBlock' = [isBlock EXCEPT ![c] = FALSE], UNCHANGED mapVars
          PROVE  Goal
      <3>1. PoolInv'
        BY <2>4, PoolKeeps DEF Inv
      <3>2. alive \subseteq alive'
        BY <2>4 DEF GetThenGiveUp
      <3>3. CountInv'
        BY <2>4, <3>2, NoneMoved DEF Inv, mapVars
      <3>4. MapType'
        BY <2>4 DEF Inv, MapType, mapVars
      <3>5. \A d \in Client : Idle(d)'
        BY <1>1, <2>4 DEF Idle, mapVars
      <3>6. isBlock' \in [Client -> BOOLEAN]
        BY <1>1, <2>4
      <3>. QED
        BY <1>2, <2>4, <3>1, <3>3, <3>4, <3>5, <3>6
    <2>5. \/ Quit(c) /\ UNCHANGED <<poolVars, isBlock, redisVars, mapVars>>
          \/ \E r \in Redis :
                \/ GetRedis(r) /\ Forward(c, r, cmds)
                \/ /\ GetThenGiveUp(r, FALSE) /\ UNCHANGED redisVars /\ Quit(c)
                   /\ isBlock' = [isBlock EXCEPT ![c] = FALSE] /\ UNCHANGED mapVars
      <3>1. ProcessNormal(c, cmds)
        BY <1>5
      <3>. QED
        BY <1>0, <3>1 DEF ProcessNormal
    <2>. HIDE DEF Goal
    <2>6. ASSUME ~(Quit(c) /\ UNCHANGED <<poolVars, isBlock, redisVars, mapVars>>) PROVE Goal
      <3>1. PICK r \in Redis :
                \/ GetRedis(r) /\ Forward(c, r, cmds)
                \/ /\ GetThenGiveUp(r, FALSE) /\ UNCHANGED redisVars /\ Quit(c)
                   /\ isBlock' = [isBlock EXCEPT ![c] = FALSE] /\ UNCHANGED mapVars
        BY <2>5, <2>6
      <3>2. ASSUME GetRedis(r) /\ Forward(c, r, cmds) PROVE Goal
        BY <2>3, <3>2
      <3>3. ASSUME /\ GetThenGiveUp(r, FALSE) /\ UNCHANGED redisVars /\ Quit(c)
                   /\ isBlock' = [isBlock EXCEPT ![c] = FALSE] /\ UNCHANGED mapVars
            PROVE  Goal
        BY <2>4, <3>3
      <3>. QED
        BY <3>1, <3>2, <3>3
    <2>. QED
      BY <2>2, <2>6 DEF Goal
  <1>. QED
    BY <1>4, <1>5

LEMMA ReadCKeeps == ASSUME Inv, NEW c \in Client, ReadC(c) PROVE Inv'
  <1>1. conn[c] = "open"
    BY DEF ReadC
  <1>2. CASE ReadCEof(c)
    <2>1. CASE RemoveFault(c)
      BY <2>1, FaultKeeps DEF RemoveFault
    <2>2. CASE ~RemoveFault(c)
      <3>1. RemoveClient(c) /\ UNCHANGED <<isQuit, isBlock, sent, got>>
        BY <1>2, <2>2 DEF ReadCEof
      <3>2. got' \in [Client -> Seq(Reply)]
        BY <3>1 DEF Inv, ClientInv, ClientType
      <3>. QED
        BY <3>1, <3>2, RemoveKeeps
    <2>. QED
      BY <2>1, <2>2
  <1>3. CASE Fault
    BY <1>3, FaultKeeps
  <1>4. CASE ReadCData(c) /\ ~Fault
    <2>1. PICK k \in 1 .. Len(sock[c]) :
             LET cmds == inbuf[c] \o SubSeq(sock[c], 1, k)
             IN  /\ sock' = [sock EXCEPT ![c] = SubSeq(@, k + 1, Len(@))]
                 /\ UNCHANGED <<conn, middle, sent, got>>
                 /\ \/ /\ inbuf' = [inbuf EXCEPT ![c] = cmds]
                       /\ UNCHANGED <<poolVars, isQuit, isBlock, redisVars, mapVars>>
                    \/ /\ inbuf' = [inbuf EXCEPT ![c] = <<>>]
                       /\ IF isBlock[c] THEN ProcessBlocked(c, cmds)
                                        ELSE ProcessNormal(c, cmds)
      BY <1>4 DEF ReadCData
    <2>. DEFINE cmds == inbuf[c] \o SubSeq(sock[c], 1, k)
                left == SubSeq(sock[c], k + 1, Len(sock[c]))
    <2>2. /\ cmds \in Seq(Command) /\ Plain(cmds)
          /\ left \in Seq(Command) /\ Plain(left)
      BY PlainParts DEF Inv, ClientInv, ClientType, Sent
    <2>3. <<>> \in Seq(Command) /\ Plain(<<>>)
      BY EmptySeq DEF Plain
    <2>. HIDE DEF cmds, left
    <2>4. /\ sock' = [sock EXCEPT ![c] = left] /\ UNCHANGED <<conn, middle, sent, got>>
          /\ inbuf' = [inbuf EXCEPT ![c] = cmds] \/ inbuf' = [inbuf EXCEPT ![c] = <<>>]
          /\ \/ UNCHANGED <<poolVars, isQuit, isBlock, redisVars, mapVars>>
             \/ IF isBlock[c] THEN ProcessBlocked(c, cmds) ELSE ProcessNormal(c, cmds)
      BY <2>1 DEF cmds, left
    <2>5. /\ PoolInv' /\ MapType' /\ CountInv'
          /\ isQuit' \in [Client -> BOOLEAN] /\ isBlock' \in [Client -> BOOLEAN]
          /\ \A d \in Client : Idle(d)'
      <3>1. CASE UNCHANGED <<poolVars, isQuit, isBlock, redisVars, mapVars>>
        <4>1. CountInv'
          BY <3>1, NoneMoved DEF Inv, poolVars, mapVars
        <4>2. PoolInv' /\ MapType'
          BY <3>1 DEF Inv, PoolInv, PoolTypeOK, MapType, poolVars, mapVars
        <4>3. \A d \in Client : Idle(d)'
          BY <2>4, <3>1 DEF Inv, ClientInv, Idle, mapVars
        <4>. QED
          BY <3>1, <4>1, <4>2, <4>3 DEF Inv, ClientInv, ClientType
      <3>2. CASE IF isBlock[c] THEN ProcessBlocked(c, cmds) ELSE ProcessNormal(c, cmds)
        BY <1>1, <2>2, <2>4, <3>2, ProcessKeeps
      <3>. QED
        BY <2>4, <3>1, <3>2
    <2>6. ClientType'
      BY <2>2, <2>3, <2>4, <2>5 DEF Inv, ClientInv, ClientType
    <2>7. ASSUME NEW d \in Client PROVE Plain(sock[d])' /\ Plain(inbuf[d])'
      <3>1. sock'[d] \in {sock[d], left} /\ inbuf'[d] \in {inbuf[d], cmds, <<>>}
        BY <2>4 DEF Inv, ClientInv, ClientType
      <3>2. Plain(sock[d]) /\ Plain(inbuf[d])
        BY DEF Inv, Sent
      <3>. QED
        BY <2>2, <2>3, <3>1, <3>2 DEF Plain
    <2>. QED
      BY <2>5, <2>6, <2>7 DEF Inv, ClientInv, Sent
  <1>. QED
    BY <1>2, <1>3, <1>4 DEF ReadC

LEMMA WriteCKeeps == ASSUME Inv, NEW c \in Client, WriteC(c) PROVE Inv'
  <1>1. CASE Fault
    BY <1>1, FaultKeeps
  <1>2. CASE RemoveClient(c) /\ UNCHANGED <<isQuit, isBlock, sent>>
             /\ got' \in [Client -> Seq(Reply)]
    BY <1>2, RemoveKeeps
  <1>3. CASE UNCHANGED <<poolVars, clientVars, redisVars, mapVars>>
    <2>1. CountInv'
      BY <1>3, NoneMoved DEF Inv, poolVars, mapVars
    <2>2. PoolInv'
      BY <1>3 DEF Inv, PoolInv, PoolTypeOK, poolVars
    <2>. QED
      BY <1>3, <2>1, <2>2, QuietKeeps DEF clientVars
  <1>4. got \in [Client -> Seq(Reply)] /\ middle \in [Client -> Seq(Reply)]
    BY DEF Inv, ClientInv, ClientType
  <1>5. CASE WriteCQuit(c)
    BY <1>1, <1>2, <1>4, <1>5 DEF WriteCQuit, RemoveFault
  <1>6. CASE WriteCFail(c)
    BY <1>1, <1>2, <1>3, <1>4, <1>6 DEF WriteCFail, RemoveFault, BrokenPipe
  <1>7. CASE WriteCFull(c)
    BY <1>3, <1>7 DEF WriteCFull
  <1>8. CASE WriteCSend(c) /\ ~Fault
    <2>1. /\ \/ RemoveClient(c)
             \/ /\ middle' = [middle EXCEPT ![c] = <<>>]
                /\ UNCHANGED <<poolVars, conn, sock, inbuf, redisVars, mapVars>>
          /\ got' = [got EXCEPT ![c] = IF peerOpen[c] THEN @ \o middle[c] ELSE @]
          /\ UNCHANGED <<isQuit, isBlock, sent>>
      BY <1>8 DEF WriteCSend, RemoveFault, Written
    <2>2. got' \in [Client -> Seq(Reply)]
      <3>1. got[c] \o middle[c] \in Seq(Reply)
        BY <1>4, ConcatProperties
      <3>2. got' = got \/ got' = [got EXCEPT ![c] = got[c] \o middle[c]]
        BY <1>4, <2>1
      <3>. QED
        BY <1>4, <3>1, <3>2
    <2>3. CASE RemoveClient(c)
      BY <1>2, <2>1, <2>2, <2>3
    <2>4. CASE /\ middle' = [middle EXCEPT ![c] = <<>>]
               /\ UNCHANGED <<poolVars, conn, sock, inbuf, redisVars, mapVars>>
      <3>1. CountInv'
        BY <2>4, NoneMoved DEF Inv, poolVars, mapVars
      <3>2. PoolInv' /\ MapType'
        BY <2>4 DEF Inv, PoolInv, PoolTypeOK, MapType, poolVars, mapVars
      <3>3. <<>> \in Seq(Reply)
        BY EmptySeq
      <3>4. ClientType'
        BY <2>1, <2>2, <2>4, <3>3 DEF Inv, ClientInv, ClientType
      <3>5. \A d \in Client : Idle(d)'
        BY <2>1, <2>4 DEF Inv, ClientInv, Idle, mapVars
      <3>6. Sent'
        BY <2>4 DEF Inv, Sent, Plain
      <3>. QED
        BY <3>1, <3>2, <3>4, <3>5, <3>6 DEF Inv, ClientInv
    <2>. QED
      BY <2>1, <2>3, <2>4
  <1>. QED
    BY <1>1, <1>5, <1>6, <1>7, <1>8 DEF WriteC

(* A connection is deleted, and taken out of rToC only.                    *)
LEMMA OrphanKeeps ==
  ASSUME Inv, NEW r \in Redis, Drop(r), rToC' = [rToC EXCEPT ![r] = NoClient],
         UNCHANGED <<clientVars, cToR, was>>
  PROVE  Inv'
  <1>1. CountInv'
    BY DropKeeps DEF Inv
  <1>2. PoolInv'
    BY PoolKeeps DEF Inv, Drop
  <1>3. MapType'
    BY DEF Inv, MapType
  <1>4. ClientType'
    BY DEF Inv, ClientInv, ClientType, clientVars
  <1>5. \A d \in Client : Idle(d)'
    BY DEF Inv, ClientInv, Idle, clientVars
  <1>6. Sent'
    BY DEF Inv, Sent, Plain, clientVars
  <1>. QED
    BY <1>1, <1>2, <1>3, <1>4, <1>5, <1>6 DEF Inv, ClientInv

LEMMA WriteRKeeps == ASSUME Inv, NEW r \in Redis, WriteR(r) PROVE Inv'
  <1>1. CASE WriteRSend(r)
    <2>1. CountInv'
      BY <1>1, SendKeeps DEF Inv
    <2>2. PoolInv' /\ UNCHANGED <<clientVars, mapVars>>
      BY <1>1 DEF WriteRSend, Inv, PoolInv, PoolTypeOK, poolVars
    <2>. QED
      BY <2>1, <2>2, QuietKeeps DEF clientVars
  <1>2. CASE UNCHANGED <<poolVars, clientVars, redisVars, mapVars>>
    <2>1. CountInv'
      BY <1>2, NoneMoved DEF Inv, poolVars, mapVars
    <2>2. PoolInv'
      BY <1>2 DEF Inv, PoolInv, PoolTypeOK, poolVars
    <2>. QED
      BY <1>2, <2>1, <2>2, QuietKeeps DEF clientVars
  <1>3. CASE Drop(r) /\ rToC' = [rToC EXCEPT ![r] = NoClient] /\ UNCHANGED <<clientVars, cToR, was>>
    BY <1>3, OrphanKeeps
  <1>. QED
    BY <1>1, <1>2, <1>3 DEF WriteR, WriteRFull, WriteRFail, BrokenPipe

LEMMA ReadRKeeps == ASSUME Inv, NEW r \in Redis, ReadR(r) PROVE Inv'
  <1>. DEFINE c == rToC[r]
  <1>1. CASE Fault
    BY <1>1, FaultKeeps
  <1>2. CASE ReadROrphan(r)
    BY <1>2, OrphanKeeps DEF ReadROrphan
  <1>3. CASE c \in Client /\ ReadREof(r, c)
    <2>1. CountInv'
      BY <1>3, DropKeeps DEF Inv, ReadREof, Unmap
    <2>2. PoolInv'
      BY <1>3, PoolKeeps DEF Inv, ReadREof, Drop
    <2>3. MapType' /\ \A d \in Client : cToR'[d] \in {cToR[d], NULL}
      BY <1>3 DEF Inv, MapType, ReadREof, Unmap
    <2>4. <<>> \in Seq(Reply)
      BY EmptySeq
    <2>5. ClientInv' /\ Sent'
      BY <1>3, <2>3, <2>4, ClientsKept DEF Inv, ReadREof, Quit
    <2>. QED
      BY <2>1, <2>2, <2>3, <2>5 DEF Inv
  <1>4. CASE c \in Client /\ ReadRData(r, c)
    <2>1. /\ CountInv'
          /\ \E new \in Seq(Reply) : middle' = middle \/ middle' = [middle EXCEPT ![c] = @ \o new]
      BY <1>4, DataKeeps DEF Inv
    <2>2. \/ UNCHANGED <<poolVars, mapVars>>
          \/ Unmap(r, c) /\ PutRedis(r)
      BY <1>4 DEF ReadRData
    <2>3. MapType' /\ \A d \in Client : cToR'[d] \in {cToR[d], NULL}
      BY <1>4, <2>2 DEF Inv, MapType, Unmap, mapVars
    <2>4. PoolInv'
      <3>1. CASE UNCHANGED poolVars
        BY <3>1 DEF Inv, PoolInv, PoolTypeOK, poolVars
      <3>2. CASE PutRedis(r)
        BY <3>2, PoolKeeps DEF Inv
      <3>. QED
        BY <2>2, <3>1, <3>2
    <2>5. UNCHANGED <<conn, sock, inbuf, isQuit, isBlock, sent, got>>
      BY <1>4 DEF ReadRData
    <2>6. ClientInv' /\ Sent'
      BY <1>4, <2>1, <2>3, <2>5, ClientsKept DEF Inv
    <2>. QED
      BY <2>1, <2>3, <2>4, <2>6 DEF Inv
  <1>5. c = NoClient \/ c \in Client
    BY DEF Inv, MapType
  <1>. QED
    BY <1>1, <1>2, <1>3, <1>4, <1>5 DEF ReadR

LEMMA AcceptCKeeps == ASSUME Inv, NEW c \in Client, AcceptC(c) PROVE Inv'
  <1>1. /\ conn[c] = "new" /\ \E v \in {"open", "parked"} : conn' = [conn EXCEPT ![c] = v]
        /\ isBlock' = isBlock \/ \E b \in BOOLEAN : isBlock' = [isBlock EXCEPT ![c] = b]
        /\ UNCHANGED <<poolVars, sock, inbuf, isQuit, middle, sent, got, redisVars, cToR>>
        /\ UNCHANGED mapVars \/ \E d \in Client : TakesStructOf(c, d)
    BY DEF AcceptC, Mapped, mapVars, TakesStructOf, Inv, MapType
  <1>2. CountInv'
    <2>1. CASE UNCHANGED mapVars
      BY <1>1, <2>1, NoneMoved DEF Inv, poolVars, mapVars
    <2>2. ASSUME NEW d \in Client, TakesStructOf(c, d) PROVE CountInv'
      <3>1. RedisType'
        BY <1>1 DEF Inv, CountInv, RedisType, redisVars
      <3>2. ASSUME NEW s \in Redis PROVE Counted(s)'
        <4>1. rToC'[s] = NoClient <=> rToC[s] = NoClient
          BY <2>2, WorkerAssumption DEF TakesStructOf
        <4>2. Counted(s) /\ UnderWay(s)' = UnderWay(s) /\ rNum' = rNum /\ rOpen' = rOpen /\ alive' = alive
          BY <1>1 DEF Inv, CountInv, UnderWay, redisVars, poolVars
        <4>. QED
          BY <4>1, <4>2 DEF Counted
      <3>. QED
        BY <3>1, <3>2 DEF CountInv
    <2>. QED
      BY <1>1, <2>1, <2>2
  <1>3. PoolInv' /\ MapType'
    <2>1. PoolInv'
      BY <1>1 DEF Inv, PoolInv, PoolTypeOK, poolVars
    <2>2. MapType'
      BY <1>1 DEF Inv, MapType, mapVars, TakesStructOf
    <2>. QED
      BY <2>1, <2>2
  <1>4. ClientType'
    BY <1>1 DEF Inv, ClientInv, ClientType
  <1>5. ASSUME NEW d \in Client PROVE Idle(d)'
    <2>1. Idle(d) /\ cToR'[d] = cToR[d]
      BY <1>1 DEF Inv, ClientInv, mapVars
    <2>2. CASE d = c
      BY <1>1, <2>1, <2>2 DEF Idle
    <2>3. CASE d # c
      <3>1. conn'[d] = conn[d] /\ isBlock'[d] = isBlock[d]
        BY <1>1, <2>3 DEF Inv, ClientInv, ClientType
      <3>. QED
        BY <2>1, <3>1 DEF Idle
    <2>. QED
      BY <2>2, <2>3
  <1>6. Sent'
    BY <1>1 DEF Inv, Sent, Plain
  <1>. QED
    BY <1>2, <1>3, <1>4, <1>5, <1>6 DEF Inv, ClientInv

LEMMA SendCKeeps == ASSUME Inv, NoTransactions, NEW c \in Client, Send(c) PROVE Inv'
  <1>1. PICK k \in Kinds : sock' = [sock EXCEPT ![c] = Append(@, [n |-> sent[c] + 1, kind |-> k])]
    BY DEF Send
  <1>. DEFINE x == [n |-> sent[c] + 1, kind |-> k]
  <1>2. /\ sent[c] < MaxCmd /\ sent' = [sent EXCEPT ![c] = @ + 1]
        /\ UNCHANGED <<poolVars, conn, inbuf, isQuit, isBlock, middle, got, redisVars, mapVars>>
    BY DEF Send
  <1>3. k \in {"plain", "bad"}
    BY DEF Kinds, NoTransactions
  <1>4. sent[c] \in 0 .. MaxCmd /\ MaxCmd \in Nat
    BY WorkerAssumption DEF Inv, ClientInv, ClientType
  <1>5. sent[c] + 1 \in 1 .. MaxCmd /\ sent[c] + 1 \in 0 .. MaxCmd
    BY <1>2, <1>4
  <1>6. x \in Command /\ x.kind \in {"plain", "bad"}
    BY <1>3, <1>5 DEF Command
  <1>. HIDE DEF x
  <1>7. Append(sock[c], x) \in Seq(Command) /\ Plain(Append(sock[c], x))
    BY <1>6, PlainAppend DEF Inv, ClientInv, ClientType, Sent
  <1>8. sock' = [sock EXCEPT ![c] = Append(sock[c], x)]
    BY <1>1 DEF x
  <1>9. CountInv'
    BY <1>2, NoneMoved DEF Inv, poolVars, mapVars
  <1>10. PoolInv' /\ MapType'
    BY <1>2 DEF Inv, PoolInv, PoolTypeOK, MapType, poolVars, mapVars
  <1>11. ClientType'
    BY <1>2, <1>5, <1>7, <1>8 DEF Inv, ClientInv, ClientType
  <1>12. \A d \in Client : Idle(d)'
    BY <1>2 DEF Inv, ClientInv, Idle, mapVars
  <1>13. ASSUME NEW d \in Client PROVE Plain(sock[d])' /\ Plain(inbuf[d])'
    <2>1. sock'[d] \in {sock[d], Append(sock[c], x)} /\ inbuf' = inbuf
      BY <1>2, <1>8 DEF Inv, ClientInv, ClientType
    <2>. QED
      BY <1>7, <2>1 DEF Inv, Sent, Plain
  <1>. QED
    BY <1>9, <1>10, <1>11, <1>12, <1>13 DEF Inv, ClientInv, Sent

-----------------------------------------------------------------------------
LEMMA InitPool == PoolInit => PoolInv
  <1>. SUFFICES ASSUME PoolInit PROVE PoolInv
    OBVIOUS
  <1>0. crashed \in BOOLEAN
    BY DEF PoolInit
  <1>. USE SizeAssumption DEF PoolInit, Redis, NULL
  <1>1. redises \in Redis /\ alive \subseteq Redis
    OBVIOUS
  <1>2. next \in [Redis -> Redis \cup {NULL}]
    OBVIOUS
  <1>3. /\ avalidNum = MinNum /\ activeNum = 0 /\ avalidNum \in 0 .. MinNum
        /\ activeNum \in 0 .. MaxNum /\ avalidNum + activeNum = MinNum
    OBVIOUS
  <1>. HIDE DEF PoolInit, Redis, NULL
  <1>. QED
    BY <1>0, <1>1, <1>2, <1>3 DEF PoolInv, PoolTypeOK

LEMMA InitInv == Init => Inv
  <1>. SUFFICES ASSUME Init PROVE Inv
    OBVIOUS
  <1>. USE DEF Init
  <1>1. /\ <<>> \in Seq(Reply) /\ <<>> \in Seq(Command) /\ Len(<<>>) = 0 /\ Plain(<<>>)
    BY EmptySeq DEF Plain
  <1>2. PoolInv
    BY InitPool
  <1>3. MapType
    BY DEF MapType
  <1>4. ClientType
    BY <1>1, WorkerAssumption DEF ClientType
  <1>5. \A c \in Client : Idle(c)
    BY DEF Idle
  <1>6. RedisType
    BY <1>1 DEF RedisType
  <1>7. ASSUME NEW r \in Redis PROVE Counted(r)
    <2>1. /\ Len(rmiddle[r]) = 0 /\ Len(rqueue[r]) = 0 /\ Len(replies[r]) = 0
          /\ Len(rinbuf[r]) = 0 /\ rNum[r] = 0 /\ rOpen[r] = TRUE /\ rToC[r] = NoClient
      BY <1>1
    <2>2. UnderWay(r) = 0
      BY <2>1 DEF UnderWay
    <2>. QED
      BY <2>1, <2>2 DEF Counted
  <1>8. Sent
    BY <1>1 DEF Sent
  <1>. QED
    BY <1>2, <1>3, <1>4, <1>5, <1>6, <1>7, <1>8 DEF Inv, ClientInv, CountInv

LEMMA NextKeeps == NoTransactions /\ Inv /\ [Next]_vars => Inv'
  <1>. SUFFICES ASSUME NoTransactions, Inv, [Next]_vars PROVE Inv'
    OBVIOUS
  <1>1. CASE UNCHANGED vars
    <2>1. CountInv'
      BY <1>1, NoneMoved DEF Inv, vars, poolVars, mapVars
    <2>2. PoolInv'
      BY <1>1 DEF Inv, PoolInv, PoolTypeOK, vars, poolVars
    <2>. QED
      BY <1>1, <2>1, <2>2, QuietKeeps DEF vars, clientVars
  <1>2. ASSUME NEW c \in Client, PeerClose(c) PROVE Inv'
    <2>1. CountInv'
      BY <1>2, NoneMoved DEF PeerClose, Inv, poolVars, mapVars
    <2>2. PoolInv'
      BY <1>2 DEF PeerClose, Inv, PoolInv, PoolTypeOK, poolVars
    <2>. QED
      BY <1>2, <2>1, <2>2, QuietKeeps DEF PeerClose
  <1>3. ASSUME NEW r \in Redis, RedisAnswer(r) PROVE Inv'
    <2>1. PoolInv' /\ UNCHANGED <<clientVars, mapVars>>
      BY <1>3 DEF RedisAnswer, Inv, PoolInv, PoolTypeOK, poolVars
    <2>. QED
      BY <1>3, <2>1, AnswerKeeps, QuietKeeps DEF Inv, clientVars
  <1>4. ASSUME NEW r \in Redis, RedisClose(r) PROVE Inv'
    <2>1. PoolInv' /\ UNCHANGED <<clientVars, mapVars>>
      BY <1>4 DEF RedisClose, Inv, PoolInv, PoolTypeOK, poolVars
    <2>. QED
      BY <1>4, <2>1, CloseKeeps, QuietKeeps DEF Inv, clientVars
  <1>. QED
    BY <1>1, <1>2, <1>3, <1>4, SendCKeeps, AcceptCKeeps, ReadCKeeps, WriteCKeeps,
       WriteRKeeps, ReadRKeeps DEF Next

(* Without transactions a worker's state keeps its types: rNum, which      *)
(* readR counts down, is never negative, and no handler mistakes a         *)
(* connection for a client.                                                *)
THEOREM TypeCorrect ==
  ASSUME NoTransactions PROVE Spec => []TypeOK
  <1>1. Inv => TypeOK
    BY DEF Inv, PoolInv, MapType, ClientInv, ClientType, CountInv, RedisType, TypeOK
  <1>2. Inv /\ [Next]_vars => Inv'
    BY NextKeeps
  <1>. QED
    BY <1>1, <1>2, InitInv, PTL DEF Spec

(* Without transactions the replies that readR still waits for are         *)
(* exactly those under way, with any number of commands in flight and      *)
(* whatever fails, and a connection without a client has none: the next    *)
(* client that takes it receives no reply of the last.                     *)
THEOREM RepliesHold ==
  ASSUME NoTransactions PROVE Spec => []RepliesAwaited
  <1>1. Inv => RepliesAwaited
    <2>1. ASSUME Inv, NEW r \in alive
          PROVE  /\ rOpen[r] => rNum[r] = UnderWay(r)
                 /\ rToC[r] = NoClient => rNum[r] = 0
      BY <2>1 DEF Inv, CountInv, Counted, PoolInv, PoolTypeOK
    <2>. QED
      BY <2>1 DEF RepliesAwaited
  <1>2. Inv /\ [Next]_vars => Inv'
    BY NextKeeps
  <1>. QED
    BY <1>1, <1>2, InitInv, PTL DEF Spec

-----------------------------------------------------------------------------
(* Proof that no client of a Worker receives another client's reply, or a  *)
(* reply twice, for any number of clients and commands in flight and       *)
(* everything the environment may do except transactions, as long as the   *)
(* pool is of one or two connections.                                      *)

(* With min = 3 delRedis may put a lent connection back on the list.       *)
SmallPool == MinNum <= 2

-----------------------------------------------------------------------------
(* Sequences without repetition, by what they contain.                     *)
LEMMA EmptyOnce == Range(<<>>) = {} /\ IsInjective(<<>>)
  <1>1. DOMAIN <<>> = {}
    BY EmptySeq
  <1>. QED
    BY <1>1 DEF Range, IsInjective

LEMMA ConcatOnce ==
  ASSUME NEW S, NEW s \in Seq(S), NEW t \in Seq(S), IsInjective(s), IsInjective(t),
         Range(s) \cap Range(t) = {}
  PROVE  IsInjective(s \o t) /\ Range(s \o t) = Range(s) \cup Range(t)
  <1>. DEFINE u == s \o t
              m == Len(s)
              n == Len(t)
  <1>1. /\ Len(u) = m + n
        /\ \A i \in 1 .. m + n : u[i] = IF i <= m THEN s[i] ELSE t[i - m]
    BY ConcatProperties
  <1>2. m \in Nat /\ n \in Nat /\ DOMAIN s = 1 .. m /\ DOMAIN t = 1 .. n
    BY LenProperties
  <1>3. DOMAIN u = 1 .. m + n
    <2>1. u \in Seq(S)
      BY ConcatProperties
    <2>. QED
      BY <1>1, <2>1, LenProperties
  <1>4. Range(u) = Range(s) \cup Range(t)
    BY RangeConcatenation
  <1>5. ASSUME NEW i \in 1 .. m + n
        PROVE  \/ i \in 1 .. m /\ u[i] = s[i] /\ u[i] \in Range(s)
               \/ i - m \in 1 .. n /\ u[i] = t[i - m] /\ u[i] \in Range(t)
    <2>. HIDE DEF u, m, n
    <2>1. CASE i <= m
      <3>1. i \in 1 .. m
        BY <1>2, <2>1
      <3>. QED
        BY <1>1, <1>2, <2>1, <3>1 DEF Range
    <2>2. CASE ~(i <= m)
      <3>1. i - m \in 1 .. n
        BY <1>2, <2>2
      <3>. QED
        BY <1>1, <1>2, <2>2, <3>1 DEF Range
    <2>. QED
      BY <2>1, <2>2
  <1>6. ASSUME NEW i \in 1 .. m + n, NEW j \in 1 .. m + n, u[i] = u[j] PROVE i = j
    <2>. HIDE DEF u, m, n
    <2>1. CASE i \in 1 .. m /\ j \in 1 .. m /\ s[i] = s[j]
      BY <1>2, <2>1 DEF IsInjective
    <2>2. CASE i - m \in 1 .. n /\ j - m \in 1 .. n /\ t[i - m] = t[j - m]
      <3>1. i - m = j - m
        BY <1>2, <2>2 DEF IsInjective
      <3>. QED
        BY <1>2, <3>1
    <2>3. \/ i \in 1 .. m /\ j \in 1 .. m /\ s[i] = s[j]
          \/ i - m \in 1 .. n /\ j - m \in 1 .. n /\ t[i - m] = t[j - m]
      BY <1>5, <1>6
    <2>. QED
      BY <2>1, <2>2, <2>3
  <1>7. IsInjective(u)
    <2>. HIDE DEF u, m, n
    <2>. QED
      BY <1>3, <1>6 DEF IsInjective
  <1>. QED
    BY <1>4, <1>7

LEMMA CutOnce ==
  ASSUME NEW S, NEW s \in Seq(S), IsInjective(s), NEW k \in 1 .. Len(s)
  PROVE  LET a == SubSeq(s, 1, k)
             b == SubSeq(s, k + 1, Len(s))
         IN  /\ IsInjective(a) /\ IsInjective(b)
             /\ Range(a) \cap Range(b) = {} /\ Range(a) \cup Range(b) \subseteq Range(s)
  <1>. DEFINE a == SubSeq(s, 1, k)
              b == SubSeq(s, k + 1, Len(s))
              n == Len(s)
  <1>1. /\ a \in Seq(S) /\ Len(a) = k /\ \A i \in 1 .. k : a[i] = s[i]
        /\ b \in Seq(S) /\ Len(b) = n - k /\ \A i \in 1 .. n - k : b[i] = s[k + i]
    BY Cut
  <1>2. n \in Nat /\ k \in 1 .. n /\ DOMAIN s = 1 .. n
    BY LenProperties
  <1>3. DOMAIN a = 1 .. k /\ DOMAIN b = 1 .. n - k
    BY <1>1, LenProperties
  <1>4. /\ \A i \in 1 .. k : i \in 1 .. n
        /\ \A i \in 1 .. n - k : k + i \in 1 .. n /\ k + i \notin 1 .. k
    BY <1>2
  <1>. HIDE DEF a, b, n
  <1>5. \A i, j \in 1 .. n : s[i] = s[j] => i = j
    BY <1>2 DEF IsInjective
  <1>6. IsInjective(a)
    BY <1>1, <1>3, <1>4, <1>5 DEF IsInjective
  <1>7. IsInjective(b)
    <2>1. ASSUME NEW i \in 1 .. n - k, NEW j \in 1 .. n - k, b[i] = b[j] PROVE i = j
      <3>1. s[k + i] = s[k + j] /\ k + i \in 1 .. n /\ k + j \in 1 .. n
        BY <1>1, <1>4, <2>1
      <3>2. k + i = k + j
        BY <1>5, <3>1
      <3>. QED
        BY <1>2, <3>2
    <2>. QED
      BY <1>3, <2>1 DEF IsInjective
  <1>8. Range(a) \cap Range(b) = {}
    <2>1. ASSUME NEW i \in 1 .. k, NEW j \in 1 .. n - k PROVE a[i] # b[j]
      <3>1. s[i] # s[k + j]
        BY <1>4, <1>5
      <3>. QED
        BY <1>1, <3>1
    <2>. QED
      BY <1>3, <2>1 DEF Range
  <1>9. Range(a) \cup Range(b) \subseteq Range(s)
    BY <1>1, <1>2, <1>3, <1>4 DEF Range
  <1>. QED
    BY <1>6, <1>7, <1>8, <1>9 DEF a, b

LEMMA HeadOnce ==
  ASSUME NEW S, NEW s \in Seq(S), IsInjective(s), s # <<>>
  PROVE  /\ IsInjective(Tail(s)) /\ Head(s) \notin Range(Tail(s))
         /\ Range(s) = {Head(s)} \cup Range(Tail(s))
  <1>. DEFINE t == Tail(s)
              n == Len(s)
  <1>1. /\ n \in Nat \ {0} /\ Head(s) = s[1] /\ t \in Seq(S) /\ Len(t) = n - 1
        /\ \A i \in 1 .. n - 1 : t[i] = s[i + 1]
    <2>1. n \in Nat /\ n # 0
      BY EmptySeq, LenProperties
    <2>. QED
      BY <2>1, HeadTailProperties
  <1>2. DOMAIN s = 1 .. n /\ DOMAIN t = 1 .. n - 1
    BY <1>1, LenProperties
  <1>. HIDE DEF t, n
  <1>3. /\ \A i \in 1 .. n - 1 : i + 1 \in 1 .. n /\ i + 1 # 1
        /\ \A i \in 1 .. n : i = 1 \/ (i - 1 \in 1 .. n - 1 /\ i = (i - 1) + 1)
        /\ 1 \in 1 .. n
    BY <1>1
  <1>4. \A i, j \in 1 .. n : s[i] = s[j] => i = j
    BY <1>2 DEF IsInjective
  <1>5. IsInjective(t)
    <2>1. ASSUME NEW i \in 1 .. n - 1, NEW j \in 1 .. n - 1, t[i] = t[j] PROVE i = j
      <3>1. i + 1 = j + 1
        BY <1>1, <1>3, <1>4, <2>1
      <3>. QED
        BY <1>1, <3>1
    <2>. QED
      BY <1>2, <2>1 DEF IsInjective
  <1>6. Head(s) \notin Range(t)
    <2>1. ASSUME NEW i \in 1 .. n - 1 PROVE t[i] # s[1]
      BY <1>1, <1>3, <1>4
    <2>. QED
      BY <1>1, <1>2, <2>1 DEF Range
  <1>7. Range(s) = {Head(s)} \cup Range(t)
    <2>1. Range(s) \subseteq {Head(s)} \cup Range(t)
      <3>1. ASSUME NEW i \in 1 .. n PROVE s[i] \in {Head(s)} \cup Range(t)
        <4>1. CASE i = 1
          BY <1>1, <4>1
        <4>2. CASE i # 1
          <5>1. i - 1 \in DOMAIN t /\ t[i - 1] = s[(i - 1) + 1] /\ i = (i - 1) + 1
            BY <1>1, <1>2, <1>3, <4>2
          <5>. QED
            BY <5>1 DEF Range
        <4>. QED
          BY <4>1, <4>2
      <3>. QED
        BY <1>2, <3>1 DEF Range
    <2>2. ASSUME NEW i \in 1 .. n - 1 PROVE t[i] \in Range(s)
      BY <1>1, <1>2, <1>3 DEF Range
    <2>3. Head(s) \in Range(s)
      BY <1>1, <1>2, <1>3 DEF Range
    <2>4. Range(t) \subseteq Range(s)
      BY <1>2, <2>2 DEF Range
    <2>. QED
      BY <2>1, <2>3, <2>4
  <1>. QED
    BY <1>5, <1>6, <1>7 DEF t

LEMMA AppendOnce ==
  ASSUME NEW S, NEW s \in Seq(S), NEW x \in S, IsInjective(s), x \notin Range(s)
  PROVE  IsInjective(Append(s, x)) /\ Range(Append(s, x)) = Range(s) \cup {x}
  <1>. DEFINE t == <<x>>
  <1>1. t \in Seq(S) /\ Append(s, x) = s \o t
    BY AppendIsConcat
  <1>2. Range(t) = {x} /\ IsInjective(t)
    BY DEF Range, IsInjective
  <1>. HIDE DEF t
  <1>3. Range(s) \cap Range(t) = {}
    BY <1>2
  <1>4. IsInjective(s \o t) /\ Range(s \o t) = Range(s) \cup Range(t)
    BY <1>1, <1>2, <1>3, ConcatOnce
  <1>. QED
    BY <1>1, <1>2, <1>4

-----------------------------------------------------------------------------
(* What is listed while avalidNum promises listed connections: the head,   *)
(* and whatever a struct that is open leads to, has no client.  delRedis   *)
(* makes the `next' of any struct the head, so the links of lent ones      *)
(* count too.                                                              *)
NotLent ==
    avalidNum > 0 =>
        /\ redises \in alive => rToC[redises] = NoClient
        /\ \A r \in alive : next[r] \in alive => rToC[next[r]] = NoClient

(* Before the first connection is granted the list is as initPool made it, *)
(* but for those that were deleted.                                        *)
Untouched ==
    avalidNum = MinNum =>
        /\ \A r \in Redis : rToC[r] = NoClient
        /\ \A r \in alive : /\ redises <= r /\ r <= MinNum
                            /\ next[r] \in r + 1 .. MinNum \cup {NULL}

Lending == NotLent /\ Untouched

(* A connection that getRedis returns has no client.                       *)
LEMMA GetsUnused ==
  ASSUME Inv, Lending, NEW r \in Redis, GetRedis(r)
  PROVE  rToC[r] = NoClient
  <1>1. CASE PopRedis(r)
    BY <1>1 DEF PopRedis, Lending, NotLent
  <1>2. CASE NewRedis(r)
    BY <1>2 DEF NewRedis, Inv, CountInv, Counted
  <1>. QED
    BY <1>1, <1>2 DEF GetRedis

LEMMA LendingInit == SmallPool /\ Init => Lending
  <1>. SUFFICES ASSUME Init PROVE Lending
    OBVIOUS
  <1>1. /\ redises = 1 /\ alive = 1 .. MinNum /\ MinNum \in Nat /\ NULL = 0 /\ MinNum <= NRedis
        /\ next = [r \in 1 .. NRedis |-> IF r < MinNum THEN r + 1 ELSE 0] /\ NRedis \in Nat
        /\ \A r \in Redis : rToC[r] = NoClient
    BY SizeAssumption DEF Init, PoolInit, NULL, Redis
  <1>2. \A r \in alive : r \in Redis /\ next[r] \in r + 1 .. MinNum \cup {NULL}
    BY <1>1 DEF Redis
  <1>3. NotLent
    <2>1. redises \in alive => redises \in Redis
      BY <1>2
    <2>2. \A r \in alive : next[r] \in alive => next[r] \in Redis
      BY <1>2
    <2>. QED
      BY <1>1, <2>1, <2>2 DEF NotLent
  <1>4. Untouched
    BY <1>1, <1>2 DEF Untouched
  <1>. QED
    BY <1>3, <1>4 DEF Lending

LEMMA LendingQuiet ==
  ASSUME Lending, UNCHANGED <<redises, next, alive, avalidNum, rToC>>
  PROVE  Lending'
  BY DEF Lending, NotLent, Untouched

LEMMA LendingGet ==
  ASSUME SmallPool, PoolInv, MapType, Lending, NEW r \in Redis, NEW c \in Client,
         GetRedis(r), rToC' = [rToC EXCEPT ![r] = c]
  PROVE  Lending'
  <1>. USE SizeAssumption DEF PoolInv, PoolTypeOK, MapType
  <1>1. avalidNum' < MinNum /\ (avalidNum' > 0 => avalidNum = MinNum /\ PopRedis(r))
    BY DEF GetRedis, PopRedis, NewRedis, SmallPool
  <1>2. Untouched'
    BY <1>1 DEF Untouched
  <1>3. ASSUME avalidNum' > 0
        PROVE  /\ redises' \in alive' => rToC'[redises'] = NoClient
               /\ \A s \in alive' : next'[s] \in alive' => rToC'[next'[s]] = NoClient
    <2>1. /\ r = redises /\ redises' = next[r] /\ next' = next /\ alive' = alive /\ r \in alive
          /\ avalidNum = MinNum
      BY <1>1, <1>3 DEF PopRedis
    <2>2. /\ \A s \in Redis : rToC[s] = NoClient
          /\ \A s \in alive : redises <= s /\ next[s] \in s + 1 .. MinNum \cup {NULL}
      BY <2>1 DEF Lending, Untouched
    <2>3. \A s \in alive : s \in Redis /\ s \in Nat
      BY DEF Redis
    <2>4. ASSUME NEW s \in alive, next[s] \in alive
          PROVE  rToC'[next[s]] = NoClient
      <3>1. redises <= s /\ next[s] \in s + 1 .. MinNum /\ s \in Nat /\ redises \in Nat
        BY <2>1, <2>2, <2>3, <2>4 DEF NULL, Redis
      <3>2. next[s] # r
        BY <2>1, <3>1
      <3>. QED
        BY <2>2, <2>3, <2>4, <3>2
    <2>. QED
      BY <2>1, <2>4
  <1>. QED
    BY <1>2, <1>3 DEF Lending, NotLent

(* A client that breaks the protocol has had one taken and given back.     *)
LEMMA LendingGiveUp ==
  ASSUME PoolInv, Lending, NEW r \in Redis, GetThenGiveUp(r, FALSE), rToC' = rToC
  PROVE  Lending'
  <1>. USE SizeAssumption DEF PoolInv, PoolTypeOK
  <1>1. /\ avalidNum' < MinNum
        /\ avalidNum' > 0 => avalidNum > 0
    BY DEF GetThenGiveUp
  <1>2. Untouched'
    BY <1>1 DEF Untouched
  <1>3. ASSUME avalidNum' > 0
        PROVE  r = redises /\ redises' = r /\ alive' = alive /\ next' = next
    BY <1>1, <1>3 DEF GetThenGiveUp
  <1>4. NotLent'
    BY <1>1, <1>3 DEF Lending, NotLent
  <1>. QED
    BY <1>2, <1>4 DEF Lending

LEMMA LendingPut ==
  ASSUME PoolInv, MapType, Lending, NEW r \in Redis, rToC[r] # NoClient, PutRedis(r),
         rToC' = [rToC EXCEPT ![r] = NoClient]
  PROVE  Lending'
  <1>. USE DEF PoolInv, PoolTypeOK, MapType
  <1>1. /\ next' = [next EXCEPT ![r] = redises] /\ redises' = r /\ alive' = alive
        /\ avalidNum' = avalidNum
    BY DEF PutRedis
  <1>2. Untouched'
    BY <1>1 DEF Lending, Untouched
  <1>3. NotLent'
    BY <1>1 DEF Lending, NotLent
  <1>. QED
    BY <1>2, <1>3 DEF Lending

LEMMA LendingDel ==
  ASSUME SmallPool, PoolInv, MapType, Lending, NEW r \in Redis, DelRedis(r),
         rToC' = [rToC EXCEPT ![r] = NoClient]
  PROVE  Lending'
  <1>. USE DEF PoolInv, PoolTypeOK, MapType
  <1>1. /\ next' = [next EXCEPT ![r] = NULL] /\ redises' = next[r] /\ alive' = alive \ {r}
        /\ avalidNum' = avalidNum /\ r \in alive
    BY DEF DelRedis
  <1>2. Untouched'
    <2>1. ASSUME avalidNum = MinNum, NEW s \in alive, s # r
          PROVE  next[r] <= s
      <3>1. /\ s \in Nat \ {0} /\ r \in Nat \ {0} /\ s <= MinNum /\ r <= MinNum /\ MinNum <= 2
            /\ next[r] = 0 \/ next[r] \in r + 1 .. MinNum
        BY <1>1, <2>1 DEF Lending, Untouched, Redis, SmallPool, NULL
      <3>2. MinNum \in Nat
        BY SizeAssumption
      <3>. QED
        BY <2>1, <3>1, <3>2
    <2>. QED
      BY <1>1, <2>1 DEF Lending, Untouched
  <1>3. NotLent'
    BY <1>1 DEF Lending, NotLent
  <1>. QED
    BY <1>2, <1>3 DEF Lending

-----------------------------------------------------------------------------
(* The commands under way on a connection, and what a client has got or    *)
(* will be written next.                                                   *)
Under(r) == Range(rmiddle[r]) \cup Range(rqueue[r]) \cup Range(replies[r]) \cup Range(rinbuf[r])
Has(c)   == Range(middle[c]) \cup Range(got[c])

(* The commands of c that readC has taken or thrown away: their numbers    *)
(* are up to Passed(c), and those not processed yet are numbered from there.*)
Passed(c) == sent[c] - Len(inbuf[c]) - Len(sock[c])

Numbered(c) ==
    /\ Passed(c) \in Nat
    /\ \A i \in DOMAIN inbuf[c] : inbuf[c][i].n = Passed(c) + i
    /\ \A i \in DOMAIN sock[c] : sock[c][i].n = Passed(c) + Len(inbuf[c]) + i

(* No command is twice on a connection, no reply twice with a client.      *)
LineOnce(r) ==
    /\ IsInjective(rmiddle[r]) /\ IsInjective(rqueue[r])
    /\ IsInjective(replies[r]) /\ IsInjective(rinbuf[r])
    /\ Range(rmiddle[r]) \cap Range(rqueue[r]) = {}
    /\ Range(rmiddle[r]) \cap Range(replies[r]) = {}
    /\ Range(rmiddle[r]) \cap Range(rinbuf[r]) = {}
    /\ Range(rqueue[r]) \cap Range(replies[r]) = {}
    /\ Range(rqueue[r]) \cap Range(rinbuf[r]) = {}
    /\ Range(replies[r]) \cap Range(rinbuf[r]) = {}

HasOnce(c) ==
    /\ IsInjective(middle[c]) /\ IsInjective(got[c])
    /\ Range(middle[c]) \cap Range(got[c]) = {}

(* Every command is in one place, at its owner's: the connection that      *)
(* carries it is mapped to the client that sent it, or to one that was     *)
(* given the struct of the client that sent it.                            *)
Owners(c) == {c} \cup was[c]

Placed ==
    /\ \A r \in Redis : LineOnce(r)
    /\ \A c \in Client : HasOnce(c)
    /\ \A r, s \in Redis : r # s => Under(r) \cap Under(s) = {}
    /\ \A r \in Redis, c \in Client : Under(r) \cap Has(c) = {}
    /\ \A r \in Redis : \A x \in Under(r) :
          rToC[r] \in Client /\ x[1] \in Owners(rToC[r]) /\ x[2] <= Passed(x[1])
    /\ \A c \in Client : \A x \in Has(c) : x[1] \in Owners(c) /\ x[2] <= Passed(x[1])

OwnInv == Inv /\ Lending /\ Placed /\ \A c \in Client : Numbered(c)

LEMMA PlacedOwn == Placed => OnlyOwn
  BY DEF Placed, Owners, HasOnce, Has, OnlyOwn, Range, IsInjective

(* A step never takes from a client what it may be sent the replies of.    *)
Kept == \A d \in Client : was[d] \subseteq was'[d]

LEMMA Contents ==
  ASSUME CountInv, ClientInv
  PROVE  /\ \A r \in Redis : Under(r) \subseteq Reply
         /\ \A c \in Client : Has(c) \subseteq Reply /\ Passed(c) \in Int
  <1>1. ASSUME NEW r \in Redis PROVE Under(r) \subseteq Reply
    <2>1. /\ Range(rmiddle[r]) \in SUBSET Reply /\ Range(rqueue[r]) \in SUBSET Reply
          /\ Range(replies[r]) \in SUBSET Reply /\ Range(rinbuf[r]) \in SUBSET Reply
      BY RangeOfSeq DEF CountInv, RedisType
    <2>. QED
      BY <2>1 DEF Under
  <1>2. ASSUME NEW c \in Client PROVE Has(c) \subseteq Reply /\ Passed(c) \in Int
    <2>1. Range(middle[c]) \in SUBSET Reply /\ Range(got[c]) \in SUBSET Reply
      BY RangeOfSeq DEF ClientInv, ClientType
    <2>2. sent[c] \in Nat /\ Len(inbuf[c]) \in Nat /\ Len(sock[c]) \in Nat
      BY LenProperties, WorkerAssumption DEF ClientInv, ClientType
    <2>3. \A i, j, k \in Nat : i - j - k \in Int
      OBVIOUS
    <2>. QED
      BY <2>1, <2>2, <2>3 DEF Has, Passed
  <1>. QED
    BY <1>1, <1>2

(* A step that moves the set M of commands from connection r to client c,  *)
(* and others nowhere or out of the world.                                 *)
LEMMA MovedOn ==
  ASSUME Kept, CountInv, ClientInv, Placed, NEW r \in Redis, NEW c, NEW M \in SUBSET Under(r),
         M = {} \/ rToC[r] = c,
         Under(r)' \cap M = {},
         \A s \in Redis : /\ Under(s)' \subseteq Under(s)
                          /\ Under(s)' = {} \/ rToC'[s] = rToC[s]
                          /\ LineOnce(s)',
         \A d \in Client : /\ Has(d)' \subseteq Has(d) \cup M
                           /\ d # c => Has(d)' \subseteq Has(d)
                           /\ HasOnce(d)'
                           /\ Passed(d)' \in Int /\ Passed(d) <= Passed(d)'
  PROVE  Placed'
  <1>1. /\ \A s \in Redis : Under(s) \subseteq Reply
        /\ \A d \in Client : Has(d) \subseteq Reply /\ Passed(d) \in Int
    BY Contents
  <1>2. \A x \in Reply : x[1] \in Client /\ x[2] \in Int
    BY WorkerAssumption DEF Reply
  <1>3. \A s, t \in Redis : s # t => Under(s)' \cap Under(t)' = {}
    BY DEF Placed
  <1>4. ASSUME NEW s \in Redis, NEW d \in Client PROVE Under(s)' \cap Has(d)' = {}
    <2>1. Under(s)' \cap Has(d) = {}
      BY DEF Placed
    <2>2. Under(s)' \cap M = {}
      <3>1. CASE s = r
        BY <3>1
      <3>2. CASE s # r
        BY <3>2 DEF Placed
      <3>. QED
        BY <3>1, <3>2
    <2>. QED
      BY <2>1, <2>2
  <1>5. ASSUME NEW s \in Redis, NEW x \in Under(s)'
        PROVE  /\ rToC'[s] \in Client /\ x[1] \in Owners(rToC[s])'
               /\ x[2] <= Passed(x[1])'
    <2>1. x \in Under(s) /\ rToC'[s] = rToC[s]
      BY <1>5
    <2>2. rToC[s] \in Client /\ x[1] \in Owners(rToC[s]) /\ x[2] <= Passed(x[1])
      BY <2>1 DEF Placed
    <2>3. x[1] \in Client /\ x[2] \in Int
      BY <1>1, <1>2, <2>1
    <2>4. Passed(x[1]) \in Int /\ Passed(x[1])' \in Int /\ Passed(x[1]) <= Passed(x[1])'
      BY <1>1, <2>3
    <2>5. x[1] \in Owners(rToC[s])'
      BY <2>1, <2>2 DEF Owners, Kept
    <2>. QED
      BY <2>1, <2>2, <2>3, <2>4, <2>5
  <1>6. ASSUME NEW d \in Client, NEW x \in Has(d)'
        PROVE  x[1] \in Owners(d)' /\ x[2] <= Passed(x[1])'
    <2>1. x[1] \in Owners(d) /\ x[2] <= Passed(x[1]) /\ x \in Reply
      <3>1. CASE x \in Has(d)
        BY <1>1, <3>1 DEF Placed
      <3>2. CASE x \notin Has(d)
        <4>1. d = c /\ x \in M /\ rToC[r] = d /\ x \in Under(r)
          BY <1>6, <3>2
        <4>. QED
          BY <1>1, <4>1 DEF Placed
      <3>. QED
        BY <3>1, <3>2
    <2>2. x[1] \in Client /\ x[2] \in Int
      BY <1>2, <2>1
    <2>3. Passed(x[1]) \in Int /\ Passed(x[1])' \in Int /\ Passed(x[1]) <= Passed(x[1])'
      BY <1>1, <2>2
    <2>4. x[1] \in Owners(d)'
      BY <2>1 DEF Owners, Kept
    <2>. QED
      BY <2>1, <2>2, <2>3, <2>4
  <1>. QED
    BY <1>3, <1>4, <1>5, <1>6 DEF Placed

-----------------------------------------------------------------------------
(* Connections and clients that a step leaves alone, or clears.            *)
SameLine(s) == /\ rmiddle'[s] = rmiddle[s] /\ rqueue'[s] = rqueue[s]
               /\ replies'[s] = replies[s] /\ rinbuf'[s] = rinbuf[s]
               /\ rToC'[s] = rToC[s]
SameClient(d) == /\ sock'[d] = sock[d] /\ inbuf'[d] = inbuf[d] /\ sent'[d] = sent[d]
                 /\ middle'[d] = middle[d] /\ got'[d] = got[d]

(* What the lines and the clients of a step must satisfy, see MovedOn.     *)
LineFits(s) == /\ Under(s)' \subseteq Under(s)
               /\ Under(s)' = {} \/ rToC'[s] = rToC[s]
               /\ LineOnce(s)'
ClientFits(d) == /\ Has(d)' \subseteq Has(d) /\ HasOnce(d)'
                 /\ Passed(d)' \in Int /\ Passed(d) <= Passed(d)'
                 /\ Numbered(d)'

LEMMA SameLineFits ==
  ASSUME NEW s \in Redis, Placed, SameLine(s)
  PROVE  LineFits(s)
  <1>1. Under(s)' = Under(s)
    BY DEF SameLine, Under
  <1>2. LineOnce(s)'
    BY DEF SameLine, LineOnce, Placed
  <1>. QED
    BY <1>1, <1>2 DEF LineFits, SameLine

LEMMA ClearLineFits ==
  ASSUME NEW s \in Redis, rmiddle'[s] = <<>>, rqueue'[s] = <<>>, replies'[s] = <<>>, rinbuf'[s] = <<>>
  PROVE  LineFits(s)
  <1>1. Range(<<>>) = {} /\ IsInjective(<<>>)
    BY EmptyOnce
  <1>2. Under(s)' = {}
    BY <1>1 DEF Under
  <1>3. LineOnce(s)'
    BY <1>1 DEF LineOnce
  <1>. QED
    BY <1>2, <1>3 DEF LineFits

LEMMA SameClientFits ==
  ASSUME ClientInv, CountInv, NEW d \in Client, Placed, Numbered(d), SameClient(d)
  PROVE  ClientFits(d)
  <1>1. Has(d)' = Has(d) /\ Passed(d)' = Passed(d)
    BY DEF SameClient, Has, Passed
  <1>2. HasOnce(d)'
    BY DEF SameClient, HasOnce, Placed
  <1>3. Numbered(d)'
    BY <1>1 DEF Numbered, SameClient
  <1>4. Passed(d) \in Int
    BY Contents
  <1>. QED
    BY <1>1, <1>2, <1>3, <1>4 DEF ClientFits

(* A client is written to, or not any more; it may be removed with what it *)
(* has not been sent, and what was not read.                               *)
LEMMA WrittenFits ==
  ASSUME ClientInv, CountInv, NEW d \in Client, Placed, Numbered(d), sent'[d] = sent[d],
         \/ sock'[d] = sock[d] /\ inbuf'[d] = inbuf[d]
         \/ sock'[d] = <<>> /\ inbuf'[d] = <<>>,
         middle'[d] = <<>>, got'[d] = got[d] \/ got'[d] = got[d] \o middle[d]
  PROVE  ClientFits(d)
  <1>1. Range(<<>>) = {} /\ IsInjective(<<>>) /\ Len(<<>>) = 0 /\ DOMAIN <<>> = {}
    BY EmptyOnce, EmptySeq
  <1>2. Has(d)' \subseteq Has(d) /\ HasOnce(d)'
    <2>1. /\ IsInjective(got[d] \o middle[d])
          /\ Range(got[d] \o middle[d]) = Range(got[d]) \cup Range(middle[d])
      <3>1. /\ IsInjective(got[d]) /\ IsInjective(middle[d])
            /\ Range(got[d]) \cap Range(middle[d]) = {}
        BY DEF Placed, HasOnce
      <3>2. got[d] \in Seq(Reply) /\ middle[d] \in Seq(Reply)
        BY DEF ClientInv, ClientType
      <3>. QED
        BY <3>1, <3>2, ConcatOnce
    <2>2. IsInjective(got'[d]) /\ Range(got'[d]) \subseteq Has(d)
      <3>1. IsInjective(got[d]) /\ Range(got[d]) \subseteq Has(d)
        BY DEF Placed, HasOnce, Has
      <3>2. Has(d) = Range(middle[d]) \cup Range(got[d])
        BY DEF Has
      <3>. QED
        BY <2>1, <3>1, <3>2
    <2>. QED
      BY <1>1, <2>2 DEF HasOnce, Has
  <1>3. sent[d] \in Nat /\ Len(inbuf[d]) \in Nat /\ Len(sock[d]) \in Nat
    BY LenProperties, WorkerAssumption DEF ClientInv, ClientType
  <1>4. CASE sock'[d] = sock[d] /\ inbuf'[d] = inbuf[d]
    <2>1. Passed(d)' = Passed(d)
      BY <1>4 DEF Passed
    <2>2. Numbered(d)'
      BY <1>4, <2>1 DEF Numbered
    <2>. QED
      BY <1>2, <2>1, <2>2, Contents DEF ClientFits
  <1>5. CASE sock'[d] = <<>> /\ inbuf'[d] = <<>>
    <2>1. Passed(d)' = sent[d] - 0 - 0
      BY <1>1, <1>5 DEF Passed
    <2>2. Passed(d)' \in Nat /\ Passed(d) <= Passed(d)'
      BY <1>3, <2>1 DEF Passed
    <2>3. Numbered(d)'
      BY <1>1, <1>5, <2>2 DEF Numbered
    <2>. QED
      BY <1>2, <2>2, <2>3 DEF ClientFits
  <1>. QED
    BY <1>4, <1>5

(* When nothing is delivered, that is all there is to show.                *)
LEMMA FitsPlaced ==
  ASSUME Kept, CountInv, ClientInv, Placed,
         \A s \in Redis : LineFits(s), \A d \in Client : ClientFits(d)
  PROVE  Placed' /\ \A d \in Client : Numbered(d)'
  <1>1. 1 \in Redis
    BY SizeAssumption DEF Redis
  <1>. DEFINE M == {}
              c == NoClient
  <1>2. \A s \in Redis : /\ Under(s)' \subseteq Under(s)
                         /\ Under(s)' = {} \/ rToC'[s] = rToC[s]
                         /\ LineOnce(s)'
    BY DEF LineFits
  <1>3. \A d \in Client : /\ Has(d)' \subseteq Has(d) \cup M
                          /\ d # c => Has(d)' \subseteq Has(d)
                          /\ HasOnce(d)'
                          /\ Passed(d)' \in Int /\ Passed(d) <= Passed(d)'
    BY DEF ClientFits
  <1>4. M \in SUBSET Under(1) /\ M = {} /\ Under(1)' \cap M = {}
    OBVIOUS
  <1>. HIDE DEF M, c
  <1>5. Placed'
    BY <1>1, <1>2, <1>3, <1>4, MovedOn
  <1>. QED
    BY <1>5 DEF ClientFits

(* A connection is deleted.                                                *)
LEMMA DropFits ==
  ASSUME CountInv, MapType, Placed, NEW r \in Redis, Drop(r), rToC' = [rToC EXCEPT ![r] = NoClient],
         NEW s \in Redis
  PROVE  LineFits(s)
  <1>. USE DEF Drop, ForgetRedis, CountInv, RedisType, MapType
  <1>1. CASE s = r
    BY <1>1, ClearLineFits
  <1>2. CASE s # r
    BY <1>2, SameLineFits DEF SameLine
  <1>. QED
    BY <1>1, <1>2

(* Redis answers: the oldest command becomes a reply.                      *)
LEMMA AnswerFits ==
  ASSUME CountInv, Placed, NEW r \in Redis, RedisAnswer(r), NEW s \in Redis
  PROVE  LineFits(s)
  <1>1. /\ rqueue[r] # <<>>
        /\ replies' = [replies EXCEPT ![r] = Append(@, Head(rqueue[r]))]
        /\ rqueue' = [rqueue EXCEPT ![r] = Tail(@)]
        /\ rmiddle' = rmiddle /\ rinbuf' = rinbuf /\ rToC' = rToC
    BY DEF RedisAnswer, mapVars
  <1>2. CASE s # r
    BY <1>1, <1>2, SameLineFits DEF SameLine, CountInv, RedisType
  <1>3. CASE s = r
    <2>. DEFINE q == rqueue[r]
                p == replies[r]
                x == Head(rqueue[r])
                q1 == Tail(rqueue[r])
                p1 == Append(replies[r], Head(rqueue[r]))
    <2>1. q \in Seq(Reply) /\ p \in Seq(Reply) /\ q # <<>> /\ x \in Reply
      <3>1. q \in Seq(Reply) /\ p \in Seq(Reply)
        BY Lengths DEF CountInv
      <3>. QED
        BY <1>1, <3>1, HeadTailProperties
    <2>2. replies'[r] = p1 /\ rqueue'[r] = q1 /\ rmiddle'[r] = rmiddle[r] /\ rinbuf'[r] = rinbuf[r]
      BY <1>1 DEF CountInv, RedisType
    <2>3. /\ IsInjective(rmiddle[r]) /\ IsInjective(q) /\ IsInjective(p) /\ IsInjective(rinbuf[r])
          /\ Range(rmiddle[r]) \cap Range(q) = {} /\ Range(rmiddle[r]) \cap Range(p) = {}
          /\ Range(rmiddle[r]) \cap Range(rinbuf[r]) = {} /\ Range(q) \cap Range(p) = {}
          /\ Range(q) \cap Range(rinbuf[r]) = {} /\ Range(p) \cap Range(rinbuf[r]) = {}
      BY DEF Placed, LineOnce
    <2>4. IsInjective(q1) /\ x \notin Range(q1) /\ Range(q) = {x} \cup Range(q1)
      BY <2>1, <2>3, HeadOnce
    <2>5. IsInjective(p1) /\ Range(p1) = Range(p) \cup {x}
      <3>1. x \notin Range(p)
        BY <2>3, <2>4
      <3>. QED
        BY <2>1, <2>3, <3>1, AppendOnce
    <2>6. Under(r) = Range(rmiddle[r]) \cup Range(q) \cup Range(p) \cup Range(rinbuf[r])
      BY DEF Under
    <2>7. Under(r)' = Range(rmiddle[r]) \cup Range(q1) \cup Range(p1) \cup Range(rinbuf[r])
      BY <2>2 DEF Under
    <2>. HIDE DEF q, p, x, q1, p1
    <2>8. Under(r)' \subseteq Under(r)
      BY <2>4, <2>5, <2>6, <2>7
    <2>9. LineOnce(r)'
      BY <2>2, <2>3, <2>4, <2>5 DEF LineOnce
    <2>. QED
      BY <1>1, <1>3, <2>8, <2>9 DEF LineFits
  <1>. QED
    BY <1>2, <1>3

(* What waits is sent to Redis, or lost.                                   *)
LEMMA SendFits ==
  ASSUME CountInv, Placed, NEW r \in Redis, WriteRSend(r), NEW s \in Redis
  PROVE  LineFits(s)
  <1>1. /\ rqueue' = IF rOpen[r] THEN [rqueue EXCEPT ![r] = @ \o rmiddle[r]] ELSE rqueue
        /\ rmiddle' = [rmiddle EXCEPT ![r] = <<>>]
        /\ replies' = replies /\ rinbuf' = rinbuf /\ rToC' = rToC
    BY DEF WriteRSend, mapVars
  <1>2. CASE s # r
    <2>1. rqueue'[s] = rqueue[s] /\ rmiddle'[s] = rmiddle[s]
      BY <1>1, <1>2 DEF CountInv, RedisType
    <2>. QED
      BY <1>1, <2>1, SameLineFits DEF SameLine
  <1>3. CASE s = r
    <2>. DEFINE q == rqueue[r]
                m == rmiddle[r]
                q1 == rqueue'[r]
    <2>1. q \in Seq(Reply) /\ m \in Seq(Reply)
      BY Lengths DEF CountInv
    <2>2. /\ IsInjective(m) /\ IsInjective(q) /\ IsInjective(replies[r]) /\ IsInjective(rinbuf[r])
          /\ Range(m) \cap Range(q) = {} /\ Range(m) \cap Range(replies[r]) = {}
          /\ Range(m) \cap Range(rinbuf[r]) = {} /\ Range(q) \cap Range(replies[r]) = {}
          /\ Range(q) \cap Range(rinbuf[r]) = {} /\ Range(replies[r]) \cap Range(rinbuf[r]) = {}
      BY DEF Placed, LineOnce
    <2>3. q1 = q \o m \/ q1 = q
      BY <1>1 DEF CountInv, RedisType
    <2>4. rmiddle'[r] = <<>> /\ Range(<<>>) = {} /\ IsInjective(<<>>)
      BY <1>1, EmptyOnce DEF CountInv, RedisType
    <2>5. IsInjective(q \o m) /\ Range(q \o m) = Range(q) \cup Range(m)
      BY <2>1, <2>2, ConcatOnce
    <2>6. Under(r) = Range(m) \cup Range(q) \cup Range(replies[r]) \cup Range(rinbuf[r])
      BY DEF Under
    <2>7. Under(r)' = Range(rmiddle'[r]) \cup Range(q1) \cup Range(replies[r]) \cup Range(rinbuf[r])
      BY <1>1 DEF Under
    <2>. HIDE DEF q, m, q1
    <2>8. IsInjective(q1) /\ Range(q1) \subseteq Range(q) \cup Range(m)
      BY <2>2, <2>3, <2>5
    <2>9. Under(r)' \subseteq Under(r)
      BY <2>4, <2>6, <2>7, <2>8
    <2>10. LineOnce(r)'
      BY <1>1, <2>2, <2>4, <2>8 DEF LineOnce, q1
    <2>. QED
      BY <1>1, <1>3, <2>9, <2>10 DEF LineFits
  <1>. QED
    BY <1>2, <1>3

(* Replies are read, and with those read before go to the client.          *)
LEMMA DataPlaced ==
  ASSUME Kept, CountInv, ClientInv, MapType, Placed, \A d \in Client : Numbered(d),
         NEW r \in Redis, NEW c \in Client, rToC[r] = c, ReadRData(r, c),
         CountInv'
  PROVE  Placed' /\ \A d \in Client : Numbered(d)'
  <1>1. PICK k \in 1 .. Len(replies[r]) :
           LET new == rinbuf[r] \o SubSeq(replies[r], 1, k)
           IN  /\ replies' = [replies EXCEPT ![r] = SubSeq(@, k + 1, Len(@))]
               /\ UNCHANGED <<sock, inbuf, sent, got, rmiddle, rqueue>>
               /\ \/ /\ rinbuf' = [rinbuf EXCEPT ![r] = new]
                     /\ UNCHANGED <<middle, rToC>>
                  \/ /\ rinbuf' = [rinbuf EXCEPT ![r] = <<>>]
                     /\ middle' = [middle EXCEPT ![c] = @ \o new]
                     /\ \/ rToC' = rToC
                        \/ /\ rToC' = [rToC EXCEPT ![r] = NoClient]
    BY DEF ReadRData, mapVars, Unmap
  <1>. DEFINE p == replies[r]
              b == rinbuf[r]
              p0 == SubSeq(replies[r], 1, k)
              p1 == SubSeq(replies[r], k + 1, Len(replies[r]))
              new == b \o p0
  <1>2. p \in Seq(Reply) /\ b \in Seq(Reply) /\ p0 \in Seq(Reply) /\ p1 \in Seq(Reply)
    <2>1. p \in Seq(Reply) /\ b \in Seq(Reply)
      BY Lengths DEF CountInv
    <2>. QED
      BY <2>1, Cut
  <1>3. /\ IsInjective(rmiddle[r]) /\ IsInjective(rqueue[r]) /\ IsInjective(p) /\ IsInjective(b)
        /\ Range(rmiddle[r]) \cap Range(rqueue[r]) = {} /\ Range(rmiddle[r]) \cap Range(p) = {}
        /\ Range(rmiddle[r]) \cap Range(b) = {} /\ Range(rqueue[r]) \cap Range(p) = {}
        /\ Range(rqueue[r]) \cap Range(b) = {} /\ Range(p) \cap Range(b) = {}
    BY DEF Placed, LineOnce
  <1>4. /\ IsInjective(p0) /\ IsInjective(p1)
        /\ Range(p0) \cap Range(p1) = {} /\ Range(p0) \cup Range(p1) \subseteq Range(p)
    BY <1>2, <1>3, CutOnce
  <1>5. Under(r) = Range(rmiddle[r]) \cup Range(rqueue[r]) \cup Range(p) \cup Range(b)
    BY DEF Under
  <1>6. /\ rmiddle'[r] = rmiddle[r] /\ rqueue'[r] = rqueue[r] /\ replies'[r] = p1
        /\ \A s \in Redis : s # r => SameLine(s)
    <2>1. \A s \in Redis : s # r => rToC'[s] = rToC[s]
      BY <1>1 DEF MapType
    <2>2. /\ replies'[r] = p1
          /\ \A s \in Redis : s # r => replies'[s] = replies[s]
      BY <1>1 DEF CountInv, RedisType
    <2>3. \A s \in Redis : s # r => rinbuf'[s] = rinbuf[s]
      BY <1>1 DEF CountInv, RedisType
    <2>4. rmiddle' = rmiddle /\ rqueue' = rqueue
      BY <1>1
    <2>. QED
      BY <2>1, <2>2, <2>3, <2>4 DEF SameLine
  <1>7. \A s \in Redis : s # r => LineFits(s)
    BY <1>6, SameLineFits
  <1>8. \/ rinbuf'[r] = new /\ UNCHANGED <<middle, rToC>>
        \/ rinbuf'[r] = <<>> /\ middle' = [middle EXCEPT ![c] = @ \o new]
    BY <1>1 DEF CountInv, RedisType
  <1>9. Under(r)' = Range(rmiddle[r]) \cup Range(rqueue[r]) \cup Range(p1) \cup Range(rinbuf'[r])
    BY <1>6 DEF Under
  <1>10. UNCHANGED <<sock, inbuf, sent, got>>
    BY <1>1
  <1>11. rToC'[r] = c \/ Under(r)' = {}
    <2>1. Counted(r)'
      BY DEF CountInv
    <2>2. rToC'[r] = c \/ rToC'[r] = NoClient
      BY <1>1 DEF MapType
    <2>3. CASE rToC'[r] = NoClient
      <3>1. UnderWay(r)' <= 0 /\ rNum'[r] = 0
        BY <2>1, <2>3 DEF Counted
      <3>2. /\ Len(rmiddle'[r]) \in Nat /\ Len(rqueue'[r]) \in Nat /\ Len(replies'[r]) \in Nat
            /\ Len(rinbuf'[r]) \in Nat
            /\ rmiddle'[r] \in Seq(Reply) /\ rqueue'[r] \in Seq(Reply)
            /\ replies'[r] \in Seq(Reply) /\ rinbuf'[r] \in Seq(Reply)
        <4>1. /\ rmiddle'[r] \in Seq(Reply) /\ rqueue'[r] \in Seq(Reply)
              /\ replies'[r] \in Seq(Reply) /\ rinbuf'[r] \in Seq(Reply)
          BY DEF CountInv, RedisType
        <4>. QED
          BY <4>1, LenProperties
      <3>3. Len(rmiddle'[r]) + Len(rqueue'[r]) + Len(replies'[r]) + Len(rinbuf'[r]) <= 0
        BY <3>1 DEF UnderWay
      <3>4. \A i, j, l, m \in Nat : i + j + l + m <= 0 => i = 0 /\ j = 0 /\ l = 0 /\ m = 0
        OBVIOUS
      <3>5. Len(rmiddle'[r]) = 0 /\ Len(rqueue'[r]) = 0 /\ Len(replies'[r]) = 0 /\ Len(rinbuf'[r]) = 0
        BY <3>2, <3>3, <3>4
      <3>6. rmiddle'[r] = <<>> /\ rqueue'[r] = <<>> /\ replies'[r] = <<>> /\ rinbuf'[r] = <<>>
        BY <3>2, <3>5, EmptySeq
      <3>7. Under(r)' = Range(<<>>) \cup Range(<<>>) \cup Range(<<>>) \cup Range(<<>>)
        BY <3>6 DEF Under
      <3>. QED
        BY <3>7, EmptyOnce
    <2>. QED
      BY <2>2, <2>3
  <1>. HIDE DEF p, b, p0, p1, new
  <1>12. IsInjective(new) /\ Range(new) = Range(b) \cup Range(p0)
    <2>1. Range(b) \cap Range(p0) = {}
      BY <1>3, <1>4
    <2>. QED
      BY <1>2, <1>3, <1>4, <2>1, ConcatOnce DEF new
  <1>13. CASE rinbuf'[r] = new /\ UNCHANGED <<middle, rToC>>
    <2>1. Under(r)' \subseteq Under(r)
      BY <1>4, <1>5, <1>9, <1>12, <1>13
    <2>2. LineOnce(r)'
      BY <1>3, <1>4, <1>6, <1>12, <1>13 DEF LineOnce
    <2>3. LineFits(r)
      BY <1>13, <2>1, <2>2 DEF LineFits
    <2>4. \A d \in Client : ClientFits(d)
      BY <1>10, <1>13, SameClientFits DEF SameClient
    <2>5. \A s \in Redis : LineFits(s)
      BY <1>7, <2>3
    <2>. QED
      BY <2>4, <2>5, FitsPlaced
  <1>14. CASE rinbuf'[r] = <<>> /\ middle' = [middle EXCEPT ![c] = @ \o new]
    <2>. DEFINE M == Range(new)
    <2>1. Range(<<>>) = {} /\ IsInjective(<<>>)
      BY EmptyOnce
    <2>2. Under(r)' = Range(rmiddle[r]) \cup Range(rqueue[r]) \cup Range(p1)
      BY <1>9, <1>14, <2>1
    <2>3. M \in SUBSET Under(r) /\ Under(r)' \cap M = {} /\ Under(r)' \subseteq Under(r)
      BY <1>3, <1>4, <1>5, <1>12, <2>2
    <2>4. LineOnce(r)'
      BY <1>3, <1>4, <1>6, <1>14, <2>1 DEF LineOnce
    <2>5. \A s \in Redis : /\ Under(s)' \subseteq Under(s)
                           /\ Under(s)' = {} \/ rToC'[s] = rToC[s]
                           /\ LineOnce(s)'
      BY <1>7, <1>11, <2>3, <2>4 DEF LineFits
    <2>6. \A d \in Client : d # c => SameClient(d)
      BY <1>10, <1>14 DEF SameClient, ClientInv, ClientType
    <2>7. \A d \in Client : d # c => ClientFits(d)
      BY <2>6, SameClientFits
    <2>8. middle'[c] = middle[c] \o new /\ got'[c] = got[c] /\ middle[c] \in Seq(Reply)
      BY <1>10, <1>14 DEF ClientInv, ClientType
    <2>9. /\ IsInjective(middle[c]) /\ IsInjective(got[c])
          /\ Range(middle[c]) \cap Range(got[c]) = {}
          /\ Range(middle[c]) \cap M = {} /\ Range(got[c]) \cap M = {}
      <3>1. Under(r) \cap Has(c) = {} /\ HasOnce(c)
        BY DEF Placed
      <3>. QED
        BY <2>3, <3>1 DEF HasOnce, Has
    <2>10. new \in Seq(Reply)
      BY <1>2, ConcatProperties DEF new
    <2>11. /\ IsInjective(middle[c] \o new)
           /\ Range(middle[c] \o new) = Range(middle[c]) \cup M
      BY <1>12, <2>8, <2>9, <2>10, ConcatOnce
    <2>12. Has(c)' = Has(c) \cup M
      BY <2>8, <2>11 DEF Has
    <2>13. HasOnce(c)'
      BY <2>8, <2>9, <2>11 DEF HasOnce
    <2>14. Passed(c)' = Passed(c) /\ Passed(c) \in Int /\ Numbered(c)'
      <3>1. Passed(c)' = Passed(c)
        BY <1>10 DEF Passed
      <3>. QED
        BY <1>10, <3>1, Contents DEF Numbered
    <2>15. ASSUME NEW d \in Client
           PROVE  /\ Has(d)' \subseteq Has(d) \cup M
                  /\ d # c => Has(d)' \subseteq Has(d)
                  /\ HasOnce(d)'
                  /\ Passed(d)' \in Int /\ Passed(d) <= Passed(d)'
      BY <2>7, <2>12, <2>13, <2>14 DEF ClientFits
    <2>. HIDE DEF M
    <2>16. Placed'
      BY <2>3, <2>5, <2>15, MovedOn
    <2>. QED
      BY <2>7, <2>14, <2>16 DEF ClientFits
  <1>. QED
    BY <1>8, <1>13, <1>14 DEF new, b, p0

-----------------------------------------------------------------------------
(* readC takes commands from the socket: their numbers follow each other.  *)
LEMMA ReadNumbers ==
  ASSUME ClientInv, NEW c \in Client, Numbered(c), NEW k \in 1 .. Len(sock[c])
  PROVE  LET cmds == inbuf[c] \o SubSeq(sock[c], 1, k)
             left == SubSeq(sock[c], k + 1, Len(sock[c]))
         IN  /\ cmds \in Seq(Command) /\ left \in Seq(Command)
             /\ Len(cmds) = Len(inbuf[c]) + k /\ Len(left) = Len(sock[c]) - k
             /\ \A i \in 1 .. Len(cmds) : cmds[i].n = Passed(c) + i
             /\ \A i \in 1 .. Len(left) : left[i].n = Passed(c) + Len(cmds) + i
  <1>. DEFINE b == inbuf[c]
              s == sock[c]
              a == SubSeq(s, 1, k)
              left == SubSeq(s, k + 1, Len(s))
              cmds == b \o a
              l == Passed(c)
              m == Len(b)
              n == Len(s)
  <1>1. b \in Seq(Command) /\ s \in Seq(Command)
    BY DEF ClientInv, ClientType
  <1>2. m \in Nat /\ n \in Nat /\ k \in 1 .. n /\ l \in Nat /\ DOMAIN b = 1 .. m /\ DOMAIN s = 1 .. n
    <2>1. l \in Nat
      BY DEF Numbered
    <2>2. m \in Nat /\ DOMAIN b = 1 .. m /\ n \in Nat /\ DOMAIN s = 1 .. n
      BY <1>1, LenProperties
    <2>. QED
      BY <2>1, <2>2
  <1>3. /\ a \in Seq(Command) /\ Len(a) = k /\ \A i \in 1 .. k : a[i] = s[i]
        /\ left \in Seq(Command) /\ Len(left) = n - k /\ \A i \in 1 .. n - k : left[i] = s[k + i]
    BY <1>1, Cut
  <1>4. /\ \A i \in 1 .. m : b[i].n = l + i
        /\ \A i \in 1 .. n : s[i].n = l + m + i
    <2>1. /\ \A i \in DOMAIN b : b[i].n = l + i
          /\ \A i \in DOMAIN s : s[i].n = l + m + i
      BY DEF Numbered
    <2>. QED
      BY <1>2, <2>1
  <1>. HIDE DEF a, left, b, s, l, n
  <1>5. /\ cmds \in Seq(Command) /\ Len(cmds) = m + Len(a)
        /\ \A i \in 1 .. m + Len(a) : cmds[i] = IF i <= m THEN b[i] ELSE a[i - m]
    BY <1>1, <1>3, ConcatProperties
  <1>. HIDE DEF m, cmds
  <1>6. ASSUME NEW i \in 1 .. m + k PROVE cmds[i].n = l + i
    <2>1. CASE i <= m
      <3>1. i \in 1 .. m
        BY <1>2, <2>1
      <3>. QED
        BY <1>3, <1>4, <1>5, <2>1, <3>1
    <2>2. CASE ~(i <= m)
      <3>1. i - m \in 1 .. k /\ i - m \in 1 .. n /\ l + m + (i - m) = l + i
        BY <1>2, <2>2
      <3>2. cmds[i] = s[i - m]
        BY <1>3, <1>5, <2>2, <3>1
      <3>. QED
        BY <1>4, <3>1, <3>2
    <2>. QED
      BY <2>1, <2>2
  <1>7. ASSUME NEW i \in 1 .. n - k PROVE left[i].n = l + (m + k) + i
    <2>1. k + i \in 1 .. n /\ l + m + (k + i) = l + (m + k) + i
      BY <1>2
    <2>. QED
      BY <1>3, <1>4, <2>1
  <1>8. Len(cmds) = m + k
    BY <1>3, <1>5
  <1>9. /\ \A i \in 1 .. Len(cmds) : cmds[i].n = l + i
        /\ \A i \in 1 .. Len(left) : left[i].n = l + Len(cmds) + i
    BY <1>3, <1>6, <1>7, <1>8
  <1>. QED
    BY <1>3, <1>5, <1>8, <1>9 DEF l, m, n, cmds, b, s, a, left

(* They wait for the rest of the message, or are processed.                *)
LEMMA ReadFits ==
  ASSUME ClientInv, NEW c \in Client, Numbered(c), NEW k \in 1 .. Len(sock[c]),
         sent'[c] = sent[c], sock'[c] = SubSeq(sock[c], k + 1, Len(sock[c])),
         \/ inbuf'[c] = inbuf[c] \o SubSeq(sock[c], 1, k)
         \/ inbuf'[c] = <<>>
  PROVE  /\ Numbered(c)'
         /\ Passed(c)' = IF inbuf'[c] = <<>> THEN Passed(c) + Len(inbuf[c]) + k ELSE Passed(c)
  <1>. DEFINE cmds == inbuf[c] \o SubSeq(sock[c], 1, k)
              left == SubSeq(sock[c], k + 1, Len(sock[c]))
              l == Passed(c)
              m == Len(inbuf[c])
              n == Len(sock[c])
              z == sent[c]
  <1>1. /\ cmds \in Seq(Command) /\ left \in Seq(Command)
        /\ Len(cmds) = m + k /\ Len(left) = n - k
        /\ \A i \in 1 .. Len(cmds) : cmds[i].n = l + i
        /\ \A i \in 1 .. Len(left) : left[i].n = l + Len(cmds) + i
    BY ReadNumbers
  <1>2. DOMAIN cmds = 1 .. Len(cmds) /\ DOMAIN left = 1 .. Len(left)
    BY <1>1, LenProperties
  <1>3. m \in Nat /\ n \in Nat /\ k \in 1 .. n /\ l \in Nat /\ z \in Nat /\ l = z - m - n
    BY LenProperties, WorkerAssumption DEF ClientInv, ClientType, Numbered, Passed
  <1>4. Len(<<>>) = 0 /\ DOMAIN <<>> = {}
    BY EmptySeq
  <1>5. /\ sent'[c] = z /\ sock'[c] = left /\ (inbuf'[c] = cmds \/ inbuf'[c] = <<>>)
        /\ Passed(c)' = sent'[c] - Len(inbuf'[c]) - Len(sock'[c])
    BY DEF Passed
  <1>. HIDE DEF cmds, left, m, n, z, l
  <1>6. CASE inbuf'[c] = cmds
    <2>1. cmds # <<>>
      BY <1>1, <1>3, <1>4
    <2>2. Passed(c)' = z - (m + k) - (n - k)
      BY <1>1, <1>5, <1>6
    <2>3. Passed(c)' = l
      BY <1>3, <2>2
    <2>4. Numbered(c)'
      BY <1>1, <1>2, <1>3, <1>5, <1>6, <2>3 DEF Numbered
    <2>. QED
      BY <1>6, <2>1, <2>3, <2>4 DEF l
  <1>7. CASE inbuf'[c] = <<>>
    <2>1. Passed(c)' = z - 0 - (n - k)
      BY <1>1, <1>4, <1>5, <1>7
    <2>2. Passed(c)' = l + m + k /\ l + m + k = l + (m + k)
      BY <1>3, <2>1
    <2>3. ASSUME NEW i \in DOMAIN left PROVE left[i].n = Passed(c)' + 0 + i
      <3>1. i \in Int
        BY <1>1, <1>2, <1>3, <2>3
      <3>2. left[i].n = l + (m + k) + i
        BY <1>1, <1>2, <2>3
      <3>3. l + (m + k) + i = (l + m + k) + 0 + i
        BY <1>3, <3>1
      <3>. QED
        BY <2>2, <3>2, <3>3
    <2>4. Numbered(c)'
      <3>1. Passed(c)' \in Nat
        BY <1>3, <2>2
      <3>. QED
        BY <1>4, <1>5, <1>7, <2>3, <3>1 DEF Numbered
    <2>. QED
      BY <1>7, <2>2, <2>4 DEF l, m
  <1>. QED
    BY <1>5, <1>6, <1>7

(* A batch with such numbers holds no command twice.                       *)
LEMMA BatchOnce ==
  ASSUME NEW c \in Client, NEW cmds \in Seq(Command), NEW l \in Nat,
         \A i \in 1 .. Len(cmds) : cmds[i].n = l + i
  PROVE  LET batch == [i \in DOMAIN cmds |-> <<c, cmds[i].n>>]
         IN  /\ IsInjective(batch)
             /\ \A x \in Range(batch) : x[1] = c /\ x[2] > l /\ x[2] <= l + Len(cmds)
  <1>. DEFINE batch == [i \in DOMAIN cmds |-> <<c, cmds[i].n>>]
              n == Len(cmds)
  <1>1. n \in Nat /\ DOMAIN cmds = 1 .. n
    BY LenProperties
  <1>2. DOMAIN batch = 1 .. n
    BY <1>1
  <1>3. \A i \in 1 .. n : batch[i][1] = c /\ batch[i][2] = l + i
    BY <1>1
  <1>. HIDE DEF batch, n
  <1>4. IsInjective(batch)
    <2>1. ASSUME NEW i \in 1 .. n, NEW j \in 1 .. n, batch[i] = batch[j] PROVE i = j
      <3>1. l + i = l + j
        BY <1>3, <2>1
      <3>. QED
        BY <1>1, <3>1
    <2>. QED
      BY <1>2, <2>1 DEF IsInjective
  <1>5. ASSUME NEW i \in 1 .. n
        PROVE  batch[i][1] = c /\ batch[i][2] > l /\ batch[i][2] <= l + n
    BY <1>1, <1>3
  <1>6. \A x \in Range(batch) : x[1] = c /\ x[2] > l /\ x[2] <= l + n
    BY <1>2, <1>5 DEF Range
  <1>. QED
    BY <1>4, <1>6 DEF batch, n

(* A connection without a client carries nothing.                          *)
LEMMA UnusedEmpty ==
  ASSUME CountInv, NEW r \in Redis, rToC[r] = NoClient
  PROVE  /\ rmiddle[r] = <<>> /\ rqueue[r] = <<>> /\ replies[r] = <<>> /\ rinbuf[r] = <<>>
         /\ Under(r) = {}
  <1>1. /\ rmiddle[r] \in Seq(Reply) /\ rqueue[r] \in Seq(Reply)
        /\ replies[r] \in Seq(Reply) /\ rinbuf[r] \in Seq(Reply)
        /\ Len(rmiddle[r]) \in Nat /\ Len(rqueue[r]) \in Nat
        /\ Len(replies[r]) \in Nat /\ Len(rinbuf[r]) \in Nat
    BY Lengths DEF CountInv
  <1>2. Len(rmiddle[r]) + Len(rqueue[r]) + Len(replies[r]) + Len(rinbuf[r]) <= 0
    BY DEF CountInv, Counted, UnderWay
  <1>3. \A i, j, k, l \in Nat : i + j + k + l <= 0 => i = 0 /\ j = 0 /\ k = 0 /\ l = 0
    OBVIOUS
  <1>4. Len(rmiddle[r]) = 0 /\ Len(rqueue[r]) = 0 /\ Len(replies[r]) = 0 /\ Len(rinbuf[r]) = 0
    BY <1>1, <1>2, <1>3
  <1>5. rmiddle[r] = <<>> /\ rqueue[r] = <<>> /\ replies[r] = <<>> /\ rinbuf[r] = <<>>
    BY <1>1, <1>4, EmptySeq
  <1>6. Range(<<>>) = {}
    BY EmptyOnce
  <1>. QED
    BY <1>5, <1>6 DEF Under

(* Commands that nobody has are put on a connection that carries nothing.  *)
LEMMA AddedTo ==
  ASSUME Kept, CountInv, ClientInv, Placed, NEW r \in Redis, NEW c \in Client,
         Under(r) = {}, rToC'[r] = c, LineOnce(r)',
         \A x \in Under(r)' : x[1] = c /\ Passed(c) < x[2] /\ x[2] <= Passed(c)',
         \A s \in Redis : s # r => LineFits(s) /\ rToC'[s] = rToC[s],
         \A d \in Client : /\ Has(d)' = Has(d) /\ HasOnce(d)'
                           /\ Passed(d)' \in Int /\ Passed(d) <= Passed(d)'
  PROVE  Placed'
  <1>1. /\ \A s \in Redis : Under(s) \subseteq Reply
        /\ \A d \in Client : Has(d) \subseteq Reply /\ Passed(d) \in Int
    BY Contents
  <1>2. \A x \in Reply : x[1] \in Client /\ x[2] \in Int
    BY WorkerAssumption DEF Reply
  <1>3. ASSUME NEW s \in Redis, s # r, NEW x \in Under(s)'
        PROVE  /\ x \in Under(s) /\ rToC'[s] \in Client
               /\ x[1] \in Owners(rToC[s])' /\ x[2] <= Passed(x[1])'
    <2>1. /\ x \in Under(s) /\ rToC'[s] = rToC[s] /\ rToC[s] \in Client
          /\ x[1] \in Owners(rToC[s]) /\ x[2] <= Passed(x[1])
      BY <1>3 DEF LineFits, Placed
    <2>2. x[1] \in Client /\ x[2] \in Int
      BY <1>1, <1>2, <2>1
    <2>3. Passed(x[1]) \in Int /\ Passed(x[1])' \in Int /\ Passed(x[1]) <= Passed(x[1])'
      BY <1>1, <2>2
    <2>4. x[1] \in Owners(rToC[s])'
      BY <2>1 DEF Owners, Kept
    <2>. QED
      BY <2>1, <2>2, <2>3, <2>4
  <1>4. ASSUME NEW d \in Client, NEW x \in Has(d)'
        PROVE  x \in Has(d) /\ x[1] \in Owners(d)' /\ x[2] <= Passed(x[1])'
    <2>1. x \in Has(d) /\ x[1] \in Owners(d) /\ x[2] <= Passed(x[1])
      BY <1>4 DEF Placed
    <2>2. x[1] \in Client /\ x[2] \in Int
      BY <1>1, <1>2, <2>1
    <2>3. Passed(x[1]) \in Int /\ Passed(x[1])' \in Int /\ Passed(x[1]) <= Passed(x[1])'
      BY <1>1, <2>2
    <2>4. x[1] \in Owners(d)'
      BY <2>1 DEF Owners, Kept
    <2>. QED
      BY <2>1, <2>2, <2>3, <2>4
  <1>5. ASSUME NEW x \in Under(r)'
        PROVE  (\A s \in Redis : x \notin Under(s)) /\ (\A d \in Client : x \notin Has(d))
    <2>1. x[1] = c /\ Passed(c) < x[2] /\ Passed(c) \in Int
      BY <1>1
    <2>2. ASSUME x \in Reply, x[2] <= Passed(x[1]) PROVE FALSE
      <3>1. x[2] \in Int
        BY <1>2, <2>2
      <3>. QED
        BY <2>1, <2>2, <3>1
    <2>3. \A s \in Redis : x \notin Under(s)
      BY <1>1, <2>2 DEF Placed
    <2>4. \A d \in Client : x \notin Has(d)
      BY <1>1, <2>2 DEF Placed
    <2>. QED
      BY <2>3, <2>4
  <1>6. \A s, t \in Redis : s # t => Under(s)' \cap Under(t)' = {}
    <2>1. ASSUME NEW s \in Redis, NEW t \in Redis, s # t, NEW x, x \in Under(s)', x \in Under(t)'
          PROVE  FALSE
      <3>1. CASE s = r
        BY <1>3, <1>5, <2>1, <3>1
      <3>2. CASE t = r
        BY <1>3, <1>5, <2>1, <3>2
      <3>3. CASE s # r /\ t # r
        BY <1>3, <2>1, <3>3 DEF Placed
      <3>. QED
        BY <3>1, <3>2, <3>3
    <2>. QED
      BY <2>1
  <1>7. \A s \in Redis, d \in Client : Under(s)' \cap Has(d)' = {}
    <2>1. ASSUME NEW s \in Redis, NEW d \in Client, NEW x, x \in Under(s)', x \in Has(d)'
          PROVE  FALSE
      <3>1. x \in Has(d)
        BY <1>4, <2>1
      <3>2. CASE s = r
        BY <1>5, <2>1, <3>1, <3>2
      <3>3. CASE s # r
        BY <1>3, <2>1, <3>1, <3>3 DEF Placed
      <3>. QED
        BY <3>2, <3>3
    <2>. QED
      BY <2>1
  <1>8. \A s \in Redis :
           /\ LineOnce(s)'
           /\ \A x \in Under(s)' : /\ rToC'[s] \in Client /\ x[1] \in Owners(rToC[s])'
                                  /\ x[2] <= Passed(x[1])'
    <2>1. ASSUME NEW x \in Under(r)'
          PROVE  /\ rToC'[r] \in Client /\ x[1] \in Owners(rToC[r])'
                 /\ x[2] <= Passed(x[1])'
      BY DEF Owners
    <2>. QED
      BY <1>3, <2>1 DEF LineFits
  <1>. QED
    BY <1>4, <1>6, <1>7, <1>8 DEF Placed

(* readC hands its commands to a connection it has just got.               *)
LEMMA ForwardPlaced ==
  ASSUME Kept, CountInv, ClientInv, MapType, Placed, \A d \in Client : Numbered(d),
         NEW c \in Client, NEW r \in Redis, NEW k \in 1 .. Len(sock[c]),
         Forward(c, r, inbuf[c] \o SubSeq(sock[c], 1, k)), rToC[r] = NoClient,
         BlockAfter(isBlock[c], inbuf[c] \o SubSeq(sock[c], 1, k)) = FALSE,
         sock' = [sock EXCEPT ![c] = SubSeq(@, k + 1, Len(@))],
         inbuf' = [inbuf EXCEPT ![c] = <<>>],
         UNCHANGED <<middle, sent, got>>
  PROVE  Placed' /\ \A d \in Client : Numbered(d)'
  <1>. DEFINE cmds == inbuf[c] \o SubSeq(sock[c], 1, k)
              batch == [i \in DOMAIN cmds |-> <<c, cmds[i].n>>]
  <1>1. /\ rmiddle' = [rmiddle EXCEPT ![r] = @ \o batch]
        /\ rToC' = [rToC EXCEPT ![r] = c]
        /\ UNCHANGED <<rqueue, replies, rinbuf>>
    BY DEF Forward
  <1>2. /\ sock'[c] = SubSeq(sock[c], k + 1, Len(sock[c])) /\ inbuf'[c] = <<>>
        /\ sent'[c] = sent[c]
        /\ \A d \in Client : d # c => SameClient(d)
    BY DEF ClientInv, ClientType, SameClient
  <1>3. Numbered(c)' /\ Passed(c)' = Passed(c) + Len(inbuf[c]) + k
    BY <1>2, ReadFits
  <1>4. /\ cmds \in Seq(Command) /\ Len(cmds) = Len(inbuf[c]) + k
        /\ \A i \in 1 .. Len(cmds) : cmds[i].n = Passed(c) + i
    BY ReadNumbers
  <1>5. Passed(c) \in Nat /\ Len(inbuf[c]) \in Nat /\ Len(sock[c]) \in Nat
    BY LenProperties DEF Numbered, ClientInv, ClientType
  <1>6. batch \in Seq(Reply)
    BY <1>4, Batch
  <1>7. /\ IsInjective(batch)
        /\ \A x \in Range(batch) : x[1] = c /\ x[2] > Passed(c) /\ x[2] <= Passed(c) + Len(cmds)
    BY <1>4, <1>5, BatchOnce
  <1>. HIDE DEF cmds, batch
  <1>8. Passed(c)' = Passed(c) + Len(cmds) /\ Passed(c) <= Passed(c)' /\ Passed(c)' \in Int
    <2>1. k \in Nat
      BY <1>5
    <2>. QED
      BY <1>3, <1>4, <1>5, <2>1
  <1>9. /\ rmiddle[r] = <<>> /\ rqueue[r] = <<>> /\ replies[r] = <<>> /\ rinbuf[r] = <<>>
        /\ Under(r) = {}
    BY UnusedEmpty
  <1>10. rmiddle'[r] = batch /\ rqueue'[r] = <<>> /\ replies'[r] = <<>> /\ rinbuf'[r] = <<>>
    <2>1. <<>> \o batch = batch
      BY <1>6, ConcatEmptySeq
    <2>2. rmiddle'[r] = rmiddle[r] \o batch
      BY <1>1 DEF CountInv, RedisType
    <2>. QED
      BY <1>1, <1>9, <2>1, <2>2
  <1>11. Range(<<>>) = {} /\ IsInjective(<<>>)
    BY EmptyOnce
  <1>12. Under(r)' = Range(batch)
    BY <1>10, <1>11 DEF Under
  <1>13. LineOnce(r)'
    BY <1>7, <1>10, <1>11 DEF LineOnce
  <1>14. ASSUME NEW s \in Redis, s # r PROVE LineFits(s) /\ rToC'[s] = rToC[s]
    <2>1. SameLine(s)
      BY <1>1, <1>14 DEF SameLine, CountInv, RedisType, MapType
    <2>. QED
      BY <2>1, SameLineFits DEF SameLine
  <1>15. ASSUME NEW d \in Client
         PROVE  /\ Has(d)' = Has(d) /\ HasOnce(d)'
                /\ Passed(d)' \in Int /\ Passed(d) <= Passed(d)'
                /\ Numbered(d)'
    <2>1. Has(d)' = Has(d) /\ HasOnce(d)'
      BY DEF Has, HasOnce, Placed
    <2>2. CASE d = c
      BY <1>3, <1>8, <2>1, <2>2
    <2>3. CASE d # c
      <3>1. ClientFits(d)
        BY <1>2, <2>3, SameClientFits
      <3>. QED
        BY <2>1, <3>1 DEF ClientFits
    <2>. QED
      BY <2>2, <2>3
  <1>16. rToC'[r] = c
    BY <1>1 DEF MapType
  <1>17. \A x \in Under(r)' : x[1] = c /\ Passed(c) < x[2] /\ x[2] <= Passed(c)'
    BY <1>7, <1>8, <1>12
  <1>18. Placed'
    BY <1>9, <1>13, <1>14, <1>15, <1>16, <1>17, AddedTo
  <1>. QED
    BY <1>15, <1>18

-----------------------------------------------------------------------------
(* The steps, one by one.  What Inv says of the next state is proved in    *)
(* Worker_proofs; Own is what is left to show.                             *)
Own == Lending /\ Placed /\ \A d \in Client : Numbered(d)

LEMMA QuietOwn ==
  ASSUME Kept, OwnInv, UNCHANGED <<redises, next, alive, avalidNum, rToC>>,
         UNCHANGED <<sock, inbuf, sent, middle, got, rmiddle, rqueue, replies, rinbuf>>
  PROVE  Own'
  <1>1. Lending'
    BY LendingQuiet DEF OwnInv
  <1>2. \A s \in Redis : LineFits(s)
    BY SameLineFits DEF OwnInv, SameLine
  <1>3. \A d \in Client : ClientFits(d)
    BY SameClientFits DEF OwnInv, Inv, SameClient
  <1>4. Placed' /\ \A d \in Client : Numbered(d)'
    BY <1>2, <1>3, FitsPlaced DEF OwnInv, Inv
  <1>. QED
    BY <1>1, <1>4 DEF Own

(* Something happens on the connections only, and the pool knows nothing.  *)
LEMMA LineOwn ==
  ASSUME Kept, OwnInv, UNCHANGED <<sock, inbuf, sent, middle, got>>,
         \A s \in Redis : LineFits(s), Lending'
  PROVE  Own'
  <1>1. \A d \in Client : ClientFits(d)
    BY SameClientFits DEF OwnInv, Inv, SameClient
  <1>2. Placed' /\ \A d \in Client : Numbered(d)'
    BY <1>1, FitsPlaced DEF OwnInv, Inv
  <1>. QED
    BY <1>2 DEF Own

LEMMA DropOwn ==
  ASSUME Kept, SmallPool, OwnInv, UNCHANGED <<sock, inbuf, sent, middle, got>>,
         NEW r \in Redis, Drop(r), rToC' = [rToC EXCEPT ![r] = NoClient]
  PROVE  Own'
  <1>1. \A s \in Redis : LineFits(s)
    BY DropFits DEF OwnInv, Inv
  <1>2. Lending'
    BY LendingDel DEF OwnInv, Inv, Drop
  <1>. QED
    BY <1>1, <1>2, LineOwn

LEMMA RemoveOwn ==
  ASSUME Kept, SmallPool, OwnInv, NEW c \in Client, RemoveClient(c), UNCHANGED sent,
         \/ got' = got
         \/ got' = [got EXCEPT ![c] = @ \o middle[c]]
  PROVE  Own'
  <1>1. Lending' /\ \A s \in Redis : LineFits(s)
    <2>1. CASE cToR[c] = NULL
      <3>1. UNCHANGED <<poolVars, redisVars, mapVars>>
        BY <2>1 DEF RemoveClient
      <3>2. Lending'
        BY <3>1, LendingQuiet DEF OwnInv, poolVars, mapVars
      <3>. QED
        BY <3>1, <3>2, SameLineFits DEF OwnInv, SameLine, redisVars, mapVars
    <2>2. CASE cToR[c] # NULL
      <3>1. Drop(cToR[c]) /\ rToC' = [rToC EXCEPT ![cToR[c]] = NoClient] /\ cToR[c] \in Redis
        BY <2>2 DEF RemoveClient, Unmap, OwnInv, Inv, MapType
      <3>2. Lending'
        BY <3>1, LendingDel DEF OwnInv, Inv, Drop
      <3>. QED
        BY <3>1, <3>2, DropFits DEF OwnInv, Inv
    <2>. QED
      BY <2>1, <2>2
  <1>2. /\ sock' = [sock EXCEPT ![c] = <<>>]
        /\ inbuf' = [inbuf EXCEPT ![c] = <<>>]
        /\ middle' = [middle EXCEPT ![c] = <<>>]
    BY DEF RemoveClient
  <1>3. ASSUME NEW d \in Client PROVE ClientFits(d)
    <2>1. CASE d = c
      <3>1. /\ sock'[d] = <<>> /\ inbuf'[d] = <<>> /\ middle'[d] = <<>> /\ sent'[d] = sent[d]
            /\ got'[d] = got[d] \/ got'[d] = got[d] \o middle[d]
        BY <1>2, <2>1 DEF OwnInv, Inv, ClientInv, ClientType
      <3>. QED
        BY <3>1, WrittenFits DEF OwnInv, Inv
    <2>2. CASE d # c
      <3>1. SameClient(d)
        BY <1>2, <2>2 DEF SameClient, OwnInv, Inv, ClientInv, ClientType
      <3>. QED
        BY <3>1, SameClientFits DEF OwnInv, Inv
    <2>. QED
      BY <2>1, <2>2
  <1>4. Placed' /\ \A d \in Client : Numbered(d)'
    BY <1>1, <1>3, FitsPlaced DEF OwnInv, Inv
  <1>. QED
    BY <1>1, <1>4 DEF Own

LEMMA FaultOwn == ASSUME Kept, OwnInv, Fault PROVE Own'
  BY QuietOwn DEF Fault, Crash, clientVars, redisVars, mapVars

LEMMA WriteCOwn == ASSUME Kept, SmallPool, OwnInv, NEW c \in Client, WriteC(c) PROVE Own'
  <1>1. CASE Fault
    BY <1>1, FaultOwn
  <1>2. CASE RemoveClient(c) /\ UNCHANGED <<sent, got>>
    BY <1>2, RemoveOwn
  <1>3. CASE UNCHANGED <<poolVars, clientVars, redisVars, mapVars>>
    BY <1>3, QuietOwn DEF poolVars, clientVars, redisVars, mapVars
  <1>4. CASE WriteCQuit(c)
    BY <1>1, <1>2, <1>4 DEF WriteCQuit, RemoveFault
  <1>5. CASE WriteCFail(c)
    BY <1>1, <1>2, <1>3, <1>5 DEF WriteCFail, RemoveFault, BrokenPipe
  <1>6. CASE WriteCFull(c)
    BY <1>3, <1>6 DEF WriteCFull
  <1>7. CASE WriteCSend(c) /\ ~Fault
    <2>1. /\ \/ RemoveClient(c)
             \/ /\ middle' = [middle EXCEPT ![c] = <<>>]
                /\ UNCHANGED <<poolVars, conn, sock, inbuf, redisVars, mapVars>>
          /\ got' = [got EXCEPT ![c] = IF peerOpen[c] THEN @ \o middle[c] ELSE @]
          /\ UNCHANGED <<isQuit, isBlock, sent>>
      BY <1>7 DEF WriteCSend, RemoveFault, Written
    <2>2. got' = got \/ got' = [got EXCEPT ![c] = @ \o middle[c]]
      BY <2>1 DEF OwnInv, Inv, ClientInv, ClientType
    <2>3. CASE RemoveClient(c)
      BY <2>1, <2>2, <2>3, RemoveOwn
    <2>4. CASE /\ middle' = [middle EXCEPT ![c] = <<>>]
               /\ UNCHANGED <<poolVars, conn, sock, inbuf, redisVars, mapVars>>
      <3>1. Lending'
        BY <2>4, LendingQuiet DEF OwnInv, poolVars, mapVars
      <3>2. \A s \in Redis : LineFits(s)
        BY <2>4, SameLineFits DEF OwnInv, SameLine, redisVars, mapVars
      <3>3. ASSUME NEW d \in Client PROVE ClientFits(d)
        <4>1. CASE d = c
          <5>1. /\ sock'[d] = sock[d] /\ inbuf'[d] = inbuf[d] /\ middle'[d] = <<>>
                /\ sent'[d] = sent[d]
                /\ got'[d] = got[d] \/ got'[d] = got[d] \o middle[d]
            BY <2>1, <2>2, <2>4, <4>1 DEF OwnInv, Inv, ClientInv, ClientType
          <5>. QED
            BY <5>1, WrittenFits DEF OwnInv, Inv
        <4>2. CASE d # c
          <5>1. SameClient(d)
            BY <2>1, <2>2, <2>4, <4>2 DEF SameClient, OwnInv, Inv, ClientInv, ClientType
          <5>. QED
            BY <5>1, SameClientFits DEF OwnInv, Inv
        <4>. QED
          BY <4>1, <4>2
      <3>4. Placed' /\ \A d \in Client : Numbered(d)'
        BY <3>2, <3>3, FitsPlaced DEF OwnInv, Inv
      <3>. QED
        BY <3>1, <3>4 DEF Own
    <2>. QED
      BY <2>1, <2>3, <2>4
  <1>. QED
    BY <1>1, <1>4, <1>5, <1>6, <1>7 DEF WriteC

LEMMA WriteROwn == ASSUME Kept, SmallPool, OwnInv, NEW r \in Redis, WriteR(r) PROVE Own'
  <1>1. CASE WriteRSend(r)
    <2>1. \A s \in Redis : LineFits(s)
      BY <1>1, SendFits DEF OwnInv, Inv
    <2>2. UNCHANGED <<poolVars, clientVars, mapVars>>
      BY <1>1 DEF WriteRSend
    <2>3. Lending'
      BY <2>2, LendingQuiet DEF OwnInv, poolVars, mapVars
    <2>. QED
      BY <2>1, <2>2, <2>3, LineOwn DEF clientVars
  <1>2. CASE UNCHANGED <<poolVars, clientVars, redisVars, mapVars>>
    BY <1>2, QuietOwn DEF poolVars, clientVars, redisVars, mapVars
  <1>3. CASE Drop(r) /\ rToC' = [rToC EXCEPT ![r] = NoClient] /\ UNCHANGED clientVars
    BY <1>3, DropOwn DEF clientVars
  <1>. QED
    BY <1>1, <1>2, <1>3 DEF WriteR, WriteRFull, WriteRFail, BrokenPipe

LEMMA ReadROwn == ASSUME Kept, SmallPool, OwnInv, NEW r \in Redis, ReadR(r), Inv' PROVE Own'
  <1>. DEFINE c == rToC[r]
  <1>1. CASE Fault
    BY <1>1, FaultOwn
  <1>2. CASE ReadROrphan(r)
    BY <1>2, DropOwn DEF ReadROrphan, clientVars
  <1>3. CASE c \in Client /\ ReadREof(r, c)
    BY <1>3, DropOwn DEF ReadREof, Unmap
  <1>4. CASE c \in Client /\ ReadRData(r, c)
    <2>1. Placed' /\ \A d \in Client : Numbered(d)'
      BY <1>4, DataPlaced DEF OwnInv, Inv
    <2>2. \/ UNCHANGED <<poolVars, mapVars>>
          \/ rToC' = [rToC EXCEPT ![r] = NoClient] /\ PutRedis(r)
      BY <1>4 DEF ReadRData, Unmap
    <2>3. rToC[r] # NoClient
      BY <1>4, WorkerAssumption
    <2>4. Lending'
      <3>1. CASE UNCHANGED <<poolVars, mapVars>>
        BY <3>1, LendingQuiet DEF OwnInv, poolVars, mapVars
      <3>2. CASE rToC' = [rToC EXCEPT ![r] = NoClient] /\ PutRedis(r)
        BY <2>3, <3>2, LendingPut DEF OwnInv, Inv
      <3>. QED
        BY <2>2, <3>1, <3>2
    <2>. QED
      BY <2>1, <2>4 DEF Own
  <1>5. c = NoClient \/ c \in Client
    BY DEF OwnInv, Inv, MapType
  <1>. QED
    BY <1>1, <1>2, <1>3, <1>4, <1>5 DEF ReadR

(* readC, up to the connection that is asked for.                          *)
LEMMA ProcessOwn ==
  ASSUME Kept, SmallPool, OwnInv, NEW c \in Client, NEW k \in 1 .. Len(sock[c]),
         LET cmds == inbuf[c] \o SubSeq(sock[c], 1, k)
         IN  IF isBlock[c] THEN ProcessBlocked(c, cmds) ELSE ProcessNormal(c, cmds),
         conn[c] = "open",
         sock' = [sock EXCEPT ![c] = SubSeq(@, k + 1, Len(@))],
         inbuf' = [inbuf EXCEPT ![c] = <<>>],
         UNCHANGED <<middle, sent, got>>
  PROVE  Own'
  <1>. DEFINE cmds == inbuf[c] \o SubSeq(sock[c], 1, k)
  <1>1. cmds \in Seq(Command) /\ Plain(cmds)
    BY PlainParts DEF OwnInv, Inv, ClientInv, ClientType, Sent
  <1>2. BlockAfter(FALSE, cmds) = FALSE /\ BlockAfter(FALSE, Good(cmds)) = FALSE
    BY <1>1, NoMarks, GoodIsPlain
  <1>3. IF isBlock[c] THEN ProcessBlocked(c, cmds) ELSE ProcessNormal(c, cmds)
    OBVIOUS
  <1>4. ASSUME NEW d \in Client
        PROVE  /\ Has(d)' = Has(d) /\ HasOnce(d)' /\ Numbered(d)'
               /\ Passed(d)' \in Int /\ Passed(d) <= Passed(d)'
    <2>1. Has(d)' = Has(d) /\ HasOnce(d)'
      BY DEF Has, HasOnce, OwnInv, Placed
    <2>2. CASE d = c
      <3>1. sock'[c] = SubSeq(sock[c], k + 1, Len(sock[c])) /\ inbuf'[c] = <<>> /\ sent'[c] = sent[c]
        BY DEF OwnInv, Inv, ClientInv, ClientType
      <3>2. Numbered(c)' /\ Passed(c)' = Passed(c) + Len(inbuf[c]) + k
        BY <3>1, ReadFits DEF OwnInv, Inv
      <3>3. Passed(c) \in Nat /\ Len(inbuf[c]) \in Nat /\ Len(sock[c]) \in Nat
        BY LenProperties DEF OwnInv, Inv, Numbered, ClientInv, ClientType
      <3>4. k \in Nat
        BY <3>3
      <3>5. Passed(c)' \in Int /\ Passed(c) <= Passed(c)'
        BY <3>2, <3>3, <3>4
      <3>. QED
        BY <2>1, <2>2, <3>2, <3>5
    <2>3. CASE d # c
      <3>1. SameClient(d)
        BY <2>3 DEF SameClient, OwnInv, Inv, ClientInv, ClientType
      <3>2. ClientFits(d)
        BY <3>1, SameClientFits DEF OwnInv, Inv
      <3>. QED
        BY <2>1, <3>2 DEF ClientFits
    <2>. QED
      BY <2>2, <2>3
  <1>. HIDE DEF cmds
  <1>5. ASSUME Lending', UNCHANGED <<rmiddle, rqueue, replies, rinbuf, rToC>> PROVE Own'
    <2>1. \A s \in Redis : LineFits(s)
      BY <1>5, SameLineFits DEF OwnInv, SameLine
    <2>2. \A d \in Client : ClientFits(d)
      BY <1>4 DEF ClientFits
    <2>3. Placed' /\ \A d \in Client : Numbered(d)'
      BY <2>1, <2>2, FitsPlaced DEF OwnInv, Inv
    <2>. QED
      BY <1>5, <2>3 DEF Own
  <1>6. CASE UNCHANGED <<poolVars, redisVars, mapVars>>
    <2>1. Lending'
      BY <1>6, LendingQuiet DEF OwnInv, poolVars, mapVars
    <2>. QED
      BY <1>5, <1>6, <2>1 DEF redisVars, mapVars
  <1>7. CASE isBlock[c]
    <2>1. cToR[c] = NULL /\ cToR[c] \notin alive
      BY <1>7, SizeAssumption DEF Idle, OwnInv, Inv, ClientInv, PoolInv, PoolTypeOK, NULL, Redis
    <2>2. UNCHANGED <<poolVars, redisVars, mapVars>>
      BY <1>3, <1>7, <2>1 DEF ProcessBlocked
    <2>. QED
      BY <1>6, <2>2
  <1>8. CASE ~isBlock[c]
    <2>1. isBlock[c] = FALSE
      BY <1>8 DEF OwnInv, Inv, ClientInv, ClientType
    <2>2. ASSUME NEW r \in Redis, GetRedis(r), Forward(c, r, cmds) PROVE Own'
      <3>1. rToC[r] = NoClient
        BY <2>2, GetsUnused DEF OwnInv
      <3>2. BlockAfter(isBlock[c], cmds) = FALSE
        BY <1>2, <2>1
      <3>3. rToC' = [rToC EXCEPT ![r] = c]
        BY <2>2, <3>2 DEF Forward
      <3>4. Lending'
        BY <2>2, <3>3, LendingGet DEF OwnInv, Inv
      <3>5. Placed'
        BY <2>2, <3>1, <3>2, ForwardPlaced DEF OwnInv, Inv, cmds
      <3>. QED
        BY <1>4, <3>4, <3>5 DEF Own
    <2>3. ASSUME NEW r \in Redis, GetThenGiveUp(r, FALSE), UNCHANGED redisVars, UNCHANGED mapVars
          PROVE  Own'
      <3>1. Lending'
        BY <2>3, LendingGiveUp DEF OwnInv, Inv, mapVars
      <3>. QED
        BY <1>5, <2>3, <3>1 DEF redisVars, mapVars
    <2>4. \/ UNCHANGED <<poolVars, redisVars, mapVars>>
          \/ \E r \in Redis :
                \/ GetRedis(r) /\ Forward(c, r, cmds)
                \/ GetThenGiveUp(r, FALSE) /\ UNCHANGED redisVars /\ UNCHANGED mapVars
      <3>1. ProcessNormal(c, cmds)
        BY <1>3, <1>8
      <3>. QED
        BY <1>2, <3>1 DEF ProcessNormal
    <2>. QED
      BY <1>6, <2>2, <2>3, <2>4
  <1>. QED
    BY <1>7, <1>8

LEMMA ReadCOwn == ASSUME Kept, SmallPool, OwnInv, NEW c \in Client, ReadC(c) PROVE Own'
  <1>1. conn[c] = "open"
    BY DEF ReadC
  <1>2. CASE Fault
    BY <1>2, FaultOwn
  <1>3. CASE ReadCEof(c) /\ ~Fault
    <2>1. RemoveClient(c) /\ UNCHANGED <<sent, got>>
      BY <1>3 DEF ReadCEof, RemoveFault
    <2>. QED
      BY <2>1, RemoveOwn
  <1>4. CASE ReadCData(c) /\ ~Fault
    <2>1. PICK k \in 1 .. Len(sock[c]) :
             LET cmds == inbuf[c] \o SubSeq(sock[c], 1, k)
             IN  /\ sock' = [sock EXCEPT ![c] = SubSeq(@, k + 1, Len(@))]
                 /\ UNCHANGED <<middle, sent, got>>
                 /\ \/ /\ inbuf' = [inbuf EXCEPT ![c] = cmds]
                       /\ UNCHANGED <<poolVars, redisVars, mapVars>>
                    \/ /\ inbuf' = [inbuf EXCEPT ![c] = <<>>]
                       /\ IF isBlock[c] THEN ProcessBlocked(c, cmds)
                                        ELSE ProcessNormal(c, cmds)
      BY <1>4 DEF ReadCData
    <2>2. CASE /\ inbuf' = [inbuf EXCEPT ![c] = inbuf[c] \o SubSeq(sock[c], 1, k)]
               /\ UNCHANGED <<poolVars, redisVars, mapVars>>
      <3>1. Lending'
        BY <2>2, LendingQuiet DEF OwnInv, poolVars, mapVars
      <3>2. \A s \in Redis : LineFits(s)
        BY <2>2, SameLineFits DEF OwnInv, SameLine, redisVars, mapVars
      <3>3. ASSUME NEW d \in Client PROVE ClientFits(d)
        <4>1. CASE d = c
          <5>1. /\ sock'[c] = SubSeq(sock[c], k + 1, Len(sock[c])) /\ sent'[c] = sent[c]
                /\ inbuf'[c] = inbuf[c] \o SubSeq(sock[c], 1, k)
            BY <2>1, <2>2 DEF OwnInv, Inv, ClientInv, ClientType
          <5>2. /\ Numbered(c)'
                /\ Passed(c)' = IF inbuf'[c] = <<>> THEN Passed(c) + Len(inbuf[c]) + k ELSE Passed(c)
            BY <5>1, ReadFits DEF OwnInv, Inv
          <5>3. Passed(c) \in Nat /\ Len(inbuf[c]) \in Nat /\ Len(sock[c]) \in Nat
            BY LenProperties DEF OwnInv, Inv, Numbered, ClientInv, ClientType
          <5>4. k \in Nat
            BY <5>3
          <5>5. Passed(c)' \in Int /\ Passed(c) <= Passed(c)'
            BY <5>2, <5>3, <5>4
          <5>6. Has(c)' = Has(c) /\ HasOnce(c)'
            BY <2>1 DEF Has, HasOnce, OwnInv, Placed
          <5>. QED
            BY <4>1, <5>2, <5>5, <5>6 DEF ClientFits
        <4>2. CASE d # c
          <5>1. SameClient(d)
            BY <2>1, <2>2, <4>2 DEF SameClient, OwnInv, Inv, ClientInv, ClientType
          <5>. QED
            BY <5>1, SameClientFits DEF OwnInv, Inv
        <4>. QED
          BY <4>1, <4>2
      <3>4. Placed' /\ \A d \in Client : Numbered(d)'
        BY <3>2, <3>3, FitsPlaced DEF OwnInv, Inv
      <3>. QED
        BY <3>1, <3>4 DEF Own
    <2>3. CASE /\ inbuf' = [inbuf EXCEPT ![c] = <<>>]
               /\ LET cmds == inbuf[c] \o SubSeq(sock[c], 1, k)
                  IN  IF isBlock[c] THEN ProcessBlocked(c, cmds) ELSE ProcessNormal(c, cmds)
      BY <1>1, <2>1, <2>3, ProcessOwn
    <2>. QED
      BY <2>1, <2>2, <2>3
  <1>. QED
    BY <1>2, <1>3, <1>4 DEF ReadC

(* A client sends: its number is the next one.                             *)
LEMMA SendOwn == ASSUME Kept, OwnInv, NEW c \in Client, Send(c) PROVE Own'
  <1>1. PICK x : /\ x.n = sent[c] + 1
                 /\ sock' = [sock EXCEPT ![c] = Append(@, x)]
    <2>1. PICK kd \in Kinds : sock' = [sock EXCEPT ![c] = Append(@, [n |-> sent[c] + 1, kind |-> kd])]
      BY DEF Send
    <2>. QED
      BY <2>1
  <1>2. /\ sent' = [sent EXCEPT ![c] = @ + 1]
        /\ UNCHANGED <<poolVars, inbuf, middle, got, redisVars, mapVars>>
    BY DEF Send
  <1>3. Lending'
    BY <1>2, LendingQuiet DEF OwnInv, poolVars, mapVars
  <1>4. \A s \in Redis : LineFits(s)
    BY <1>2, SameLineFits DEF OwnInv, SameLine, redisVars, mapVars
  <1>5. ASSUME NEW d \in Client, d # c PROVE ClientFits(d)
    <2>1. SameClient(d)
      BY <1>1, <1>2, <1>5 DEF SameClient, OwnInv, Inv, ClientInv, ClientType
    <2>. QED
      BY <2>1, SameClientFits DEF OwnInv, Inv
  <1>6. ClientFits(c)
    <2>. DEFINE s == sock[c]
                m == Len(inbuf[c])
                n == Len(sock[c])
                z == sent[c]
                l == Passed(c)
    <2>1. s \in Seq(Command) /\ inbuf[c] \in Seq(Command) /\ sent[c] \in Nat
      BY WorkerAssumption DEF OwnInv, Inv, ClientInv, ClientType
    <2>2. m \in Nat /\ n \in Nat /\ z \in Nat /\ l \in Nat /\ l = z - m - n /\ DOMAIN s = 1 .. n
      BY <2>1, LenProperties DEF OwnInv, Numbered, Passed
    <2>3. sock'[c] = Append(s, x) /\ sent'[c] = z + 1 /\ inbuf'[c] = inbuf[c]
      BY <1>1, <1>2 DEF OwnInv, Inv, ClientInv, ClientType
    <2>4. /\ Len(Append(s, x)) = n + 1 /\ Append(s, x)[n + 1] = x
          /\ \A i \in 1 .. n : Append(s, x)[i] = s[i]
          /\ DOMAIN Append(s, x) = 1 .. n + 1
      <3>1. sock'[c] = Append(s, x) /\ x = x
        BY <2>3
      <3>. QED
        BY <2>1, <2>2
    <2>5. Passed(c)' = (z + 1) - m - (n + 1)
      BY <2>3, <2>4 DEF Passed
    <2>6. /\ \A i \in DOMAIN inbuf[c] : inbuf[c][i].n = l + i
          /\ \A i \in DOMAIN s : s[i].n = l + m + i
      BY DEF OwnInv, Numbered
    <2>7. Has(c)' = Has(c) /\ HasOnce(c)'
      BY <1>2 DEF Has, HasOnce, OwnInv, Placed
    <2>. HIDE DEF s, m, n, z, l
    <2>8. Passed(c)' = l
      BY <2>2, <2>5
    <2>9. ASSUME NEW i \in 1 .. n + 1 PROVE Append(s, x)[i].n = l + m + i
      <3>1. CASE i = n + 1
        <4>1. z + 1 = l + m + (n + 1)
          BY <2>2
        <4>. QED
          BY <1>1, <2>4, <3>1, <4>1 DEF z
      <3>2. CASE i # n + 1
        <4>1. i \in 1 .. n
          BY <2>2, <3>2
        <4>. QED
          BY <2>2, <2>4, <2>6, <4>1
      <3>. QED
        BY <3>1, <3>2
    <2>10. Numbered(c)'
      BY <2>2, <2>3, <2>4, <2>6, <2>8, <2>9 DEF Numbered, m
    <2>. QED
      BY <2>2, <2>7, <2>8, <2>10 DEF ClientFits, l
  <1>7. Placed' /\ \A d \in Client : Numbered(d)'
    <2>1. \A d \in Client : ClientFits(d)
      BY <1>5, <1>6
    <2>. QED
      BY <1>4, <2>1, FitsPlaced DEF OwnInv, Inv
  <1>. QED
    BY <1>3, <1>7 DEF Own

-----------------------------------------------------------------------------
LEMMA InitOwn == SmallPool /\ Init => OwnInv
  <1>. SUFFICES ASSUME SmallPool, Init PROVE OwnInv
    OBVIOUS
  <1>1. Inv
    BY InitInv
  <1>2. Lending
    BY LendingInit
  <1>3. Range(<<>>) = {} /\ IsInjective(<<>>) /\ Len(<<>>) = 0 /\ DOMAIN <<>> = {}
    BY EmptyOnce, EmptySeq
  <1>4. ASSUME NEW r \in Redis PROVE LineOnce(r) /\ Under(r) = {}
    <2>1. rmiddle[r] = <<>> /\ rqueue[r] = <<>> /\ replies[r] = <<>> /\ rinbuf[r] = <<>>
      BY DEF Init
    <2>. QED
      BY <1>3, <2>1 DEF LineOnce, Under
  <1>5. ASSUME NEW c \in Client PROVE HasOnce(c) /\ Has(c) = {} /\ Numbered(c)
    <2>1. /\ middle[c] = <<>> /\ got[c] = <<>> /\ sock[c] = <<>> /\ inbuf[c] = <<>>
          /\ sent[c] = 0
      BY DEF Init
    <2>2. Passed(c) = 0 - 0 - 0
      BY <1>3, <2>1 DEF Passed
    <2>3. Passed(c) \in Nat
      BY <2>2
    <2>4. Numbered(c)
      BY <1>3, <2>1, <2>3 DEF Numbered
    <2>. QED
      BY <1>3, <2>1, <2>4 DEF HasOnce, Has
  <1>6. Placed
    BY <1>4, <1>5 DEF Placed
  <1>. QED
    BY <1>1, <1>2, <1>5, <1>6 DEF OwnInv

(* No step forgets whose replies a client may be sent.                     *)
LEMMA WasKept == ASSUME Inv, [Next]_vars PROVE Kept
  <1>1. ASSUME was' = was PROVE Kept
    BY <1>1 DEF Kept
  <1>2. ASSUME UNCHANGED mapVars PROVE was' = was
    BY <1>2 DEF mapVars
  <1>3. CASE UNCHANGED vars
    BY <1>1, <1>2, <1>3 DEF vars
  <1>4. ASSUME NEW c \in Client, AcceptC(c) PROVE Kept
    <2>1. \A d \in Client : TakesStructOf(c, d) => Kept
      BY DEF TakesStructOf, Kept, Inv, MapType
    <2>2. UNCHANGED mapVars \/ \E d \in Client : TakesStructOf(c, d)
      BY <1>4 DEF AcceptC, Mapped, Inv, MapType
    <2>. QED
      BY <1>1, <1>2, <2>1, <2>2
  <1>5. ASSUME NEW c \in Client, Send(c) \/ PeerClose(c) PROVE Kept
    BY <1>1, <1>2, <1>5 DEF Send, PeerClose
  <1>6. ASSUME NEW c \in Client, RemoveClient(c) PROVE was' = was
    BY <1>2, <1>6 DEF RemoveClient, Unmap
  <1>7. ASSUME Fault PROVE was' = was
    BY <1>2, <1>7 DEF Fault
  <1>8. ASSUME NEW c \in Client, ReadC(c) PROVE Kept
    <2>1. ASSUME NEW r, NEW cmds, Forward(c, r, cmds) PROVE was' = was
      BY <1>2, <2>1 DEF Forward
    <2>2. ASSUME NEW cmds, ProcessBlocked(c, cmds) \/ ProcessNormal(c, cmds) PROVE was' = was
      BY <1>2, <2>1, <2>2 DEF ProcessBlocked, ProcessNormal
    <2>3. ASSUME ReadCData(c) PROVE was' = was
      BY <1>2, <1>7, <2>2, <2>3 DEF ReadCData
    <2>. QED
      BY <1>1, <1>6, <1>7, <1>8, <2>3 DEF ReadC, ReadCEof, RemoveFault
  <1>9. ASSUME NEW c \in Client, WriteC(c) PROVE Kept
    BY <1>1, <1>2, <1>6, <1>7, <1>9
       DEF WriteC, WriteCQuit, WriteCSend, WriteCFull, WriteCFail, BrokenPipe, RemoveFault
  <1>10. ASSUME NEW r \in Redis, RedisAnswer(r) \/ RedisClose(r) \/ WriteR(r) PROVE Kept
    BY <1>1, <1>2, <1>10
       DEF RedisAnswer, RedisClose, WriteR, WriteRSend, WriteRFull, WriteRFail, BrokenPipe
  <1>11. ASSUME NEW r \in Redis, ReadR(r) PROVE Kept
    <2>1. ASSUME NEW c, ReadREof(r, c) \/ ReadRData(r, c) PROVE was' = was
      BY <1>2, <2>1 DEF ReadREof, ReadRData, Unmap
    <2>2. ASSUME ReadROrphan(r) PROVE was' = was
      BY <2>2 DEF ReadROrphan
    <2>. QED
      BY <1>1, <1>7, <1>11, <2>1, <2>2 DEF ReadR
  <1>. QED
    BY <1>3, <1>4, <1>5, <1>8, <1>9, <1>10, <1>11 DEF Next

(* A client is accepted, and may be given the struct of one that left.     *)
LEMMA AcceptOwn == ASSUME Kept, OwnInv, NEW c \in Client, AcceptC(c) PROVE Own'
  <1>1. /\ UNCHANGED <<poolVars, sock, inbuf, sent, middle, got, redisVars>>
        /\ UNCHANGED mapVars \/ \E d \in Client : TakesStructOf(c, d)
    BY DEF AcceptC, Mapped, OwnInv, Inv, MapType
  <1>2. CASE UNCHANGED mapVars
    BY <1>1, <1>2, QuietOwn DEF poolVars, redisVars, mapVars
  <1>3. ASSUME NEW d \in Client, TakesStructOf(c, d) PROVE Own'
    <2>1. /\ \A s \in Redis : rToC'[s] = IF rToC[s] = d THEN c ELSE rToC[s]
          /\ {d} \cup was[d] \subseteq was'[c]
      BY <1>3 DEF TakesStructOf, OwnInv, Inv, MapType
    <2>2. \A s \in Redis : rToC'[s] = NoClient <=> rToC[s] = NoClient
      BY <2>1, WorkerAssumption
    <2>3. Lending'
      <3>1. UNCHANGED <<redises, next, alive, avalidNum>> /\ alive \subseteq Redis
        BY <1>1 DEF poolVars, OwnInv, Inv, PoolInv, PoolTypeOK
      <3>2. NotLent'
        BY <2>2, <3>1 DEF OwnInv, Lending, NotLent
      <3>3. Untouched'
        BY <2>2, <3>1 DEF OwnInv, Lending, Untouched
      <3>. QED
        BY <3>2, <3>3 DEF Lending
    <2>4. /\ \A s \in Redis : Under(s)' = Under(s) /\ LineOnce(s)'
          /\ \A e \in Client : Has(e)' = Has(e) /\ HasOnce(e)'
      BY <1>1 DEF redisVars, Under, Has, LineOnce, HasOnce, OwnInv, Placed
    <2>5. \A e \in Client : Passed(e)' = Passed(e) /\ Numbered(e)'
      BY <1>1 DEF Passed, Numbered, OwnInv
    <2>6. ASSUME NEW s \in Redis, NEW x \in Under(s)
          PROVE  /\ rToC'[s] \in Client /\ x[1] \in Owners(rToC[s])'
                 /\ x[2] <= Passed(x[1])'
      <3>1. rToC[s] \in Client /\ x[1] \in Owners(rToC[s]) /\ x[2] <= Passed(x[1])
        BY DEF OwnInv, Placed
      <3>2. x \in Reply
        BY Contents DEF OwnInv, Inv
      <3>3. x[2] <= Passed(x[1])'
        BY <2>5, <3>1, <3>2 DEF Reply
      <3>4. CASE rToC[s] = d
        BY <2>1, <3>1, <3>3, <3>4 DEF Owners
      <3>5. CASE rToC[s] # d
        BY <2>1, <3>1, <3>3, <3>5 DEF Owners, Kept
      <3>. QED
        BY <3>4, <3>5
    <2>7. ASSUME NEW e \in Client, NEW x \in Has(e)
          PROVE  x[1] \in Owners(e)' /\ x[2] <= Passed(x[1])'
      <3>1. x[1] \in Owners(e) /\ x[2] <= Passed(x[1])
        BY DEF OwnInv, Placed
      <3>2. x \in Reply
        BY Contents DEF OwnInv, Inv
      <3>3. x[2] <= Passed(x[1])'
        BY <2>5, <3>1, <3>2 DEF Reply
      <3>. QED
        BY <3>1, <3>3 DEF Owners, Kept
    <2>8. Placed'
      BY <2>4, <2>6, <2>7 DEF OwnInv, Placed
    <2>. QED
      BY <2>3, <2>5, <2>8 DEF Own
  <1>. QED
    BY <1>1, <1>2, <1>3

LEMMA NextOwn == NoTransactions /\ SmallPool /\ OwnInv /\ [Next]_vars => OwnInv'
  <1>. SUFFICES ASSUME NoTransactions, SmallPool, OwnInv, [Next]_vars PROVE OwnInv'
    OBVIOUS
  <1>1. Inv'
    BY NextKeeps DEF OwnInv
  <1>7. Kept
    BY WasKept DEF OwnInv
  <1>2. ASSUME UNCHANGED vars PROVE Own'
    BY <1>2, <1>7, QuietOwn DEF vars, poolVars, clientVars, redisVars, mapVars
  <1>3. ASSUME NEW c \in Client, PeerClose(c) PROVE Own'
    BY <1>3, <1>7, QuietOwn DEF PeerClose, poolVars, redisVars, mapVars
  <1>4. ASSUME NEW r \in Redis, RedisAnswer(r) PROVE Own'
    <2>1. \A s \in Redis : LineFits(s)
      BY <1>4, AnswerFits DEF OwnInv, Inv
    <2>2. UNCHANGED <<poolVars, clientVars, mapVars>>
      BY <1>4 DEF RedisAnswer
    <2>3. Lending'
      BY <2>2, LendingQuiet DEF OwnInv, poolVars, mapVars
    <2>. QED
      BY <1>7, <2>1, <2>2, <2>3, LineOwn DEF clientVars
  <1>5. ASSUME NEW r \in Redis, RedisClose(r) PROVE Own'
    BY <1>5, <1>7, QuietOwn DEF RedisClose, poolVars, clientVars, mapVars
  <1>6. Own'
    BY <1>1, <1>2, <1>3, <1>4, <1>5, <1>7, SendOwn, AcceptOwn, ReadCOwn, WriteCOwn, WriteROwn,
       ReadROwn DEF Next
  <1>. QED
    BY <1>1, <1>6 DEF OwnInv, Own

(* With a pool of one or two connections no client ever receives another   *)
(* client's reply, or a reply twice, but for the replies to a client whose *)
(* struct it was given while rToC still named it: whatever the clients     *)
(* send and however many commands are in flight, whoever closes which      *)
(* connection when, and however often a connection or a client's struct is *)
(* given back and used again.                                              *)
THEOREM OwnRepliesOnly ==
  ASSUME NoTransactions, SmallPool PROVE Spec => []OnlyOwn
  <1>1. OwnInv => OnlyOwn
    BY PlacedOwn DEF OwnInv
  <1>2. OwnInv /\ [Next]_vars => OwnInv'
    BY NextOwn
  <1>3. Init => OwnInv
    BY InitOwn
  <1>. QED
    BY <1>1, <1>2, <1>3, PTL DEF Spec

-----------------------------------------------------------------------------
(* Proof that a Worker keeps the promise of Session to clients that wait   *)
(* for each reply before they send the next command, and that its maps and *)
(* the free list can be trusted until Redis closes a connection.           *)

(* A client waits for the reply before it sends the next command.  With    *)
(* two under way readC overwrites the client's entry in cToR.              *)
OneAtATime == Window = 1

(* What is under way for a client, a connection in use counting for the    *)
(* command it carries: no more than one, until the client has its reply.   *)
Asked(c) == IF cToR[c] = NULL THEN 0 ELSE 1
Out(c)   == Len(sock[c]) + Len(inbuf[c]) + Len(middle[c]) + Asked(c)

ClientOne(c) ==
    /\ Out(c) + Len(got[c]) <= sent[c] /\ sent[c] <= Len(got[c]) + 1
    /\ isQuit[c] => cToR[c] = NULL
    /\ cToR[c] # NULL => conn[c] = "open"
    /\ Range(middle[c]) \subseteq {<<c, sent[c]>>}

(* A connection carries the last command of the client it is mapped to,    *)
(* which is mapped to it.  The other way that holds only until Redis       *)
(* closes a connection: then cToR may name a freed struct.                 *)
LineOne(r) ==
    /\ rNum[r] <= 1 /\ rBlock[r] = FALSE
    /\ ~dropped => rOpen[r]
    /\ Under(r) \subseteq {<<rToC[r], sent[rToC[r]]>>}
    /\ \A c \in Client : rToC[r] = c => cToR[c] = r

MapsTo == ~dropped => \A c \in Client : cToR[c] # NULL => rToC[cToR[c]] = c

(* A freed struct links to nothing, so the free list ends there.           *)
FreedLinks == \A r \in Redis : r \notin alive => next[r] = NULL

Ses    == (\A c \in Client : ClientOne(c)) /\ (\A r \in Redis : LineOne(r)) /\ MapsTo /\ FreedLinks
SesInv == OwnInv /\ Ses

-----------------------------------------------------------------------------
LEMMA ClientLengths ==
  ASSUME ClientInv, NEW c \in Client
  PROVE  /\ sock[c] \in Seq(Command) /\ inbuf[c] \in Seq(Command)
         /\ middle[c] \in Seq(Reply) /\ got[c] \in Seq(Reply)
         /\ Len(sock[c]) \in Nat /\ Len(inbuf[c]) \in Nat
         /\ Len(middle[c]) \in Nat /\ Len(got[c]) \in Nat
         /\ sent[c] \in Nat /\ Asked(c) \in {0, 1}
  <1>1. /\ sock[c] \in Seq(Command) /\ inbuf[c] \in Seq(Command)
        /\ middle[c] \in Seq(Reply) /\ got[c] \in Seq(Reply) /\ sent[c] \in Nat
    BY WorkerAssumption DEF ClientInv, ClientType
  <1>. QED
    BY <1>1, LenProperties DEF Asked

(* A client with a command unread, unprocessed or a reply unsent has one   *)
(* such, and no connection; one with a connection has nothing else.        *)
LEMMA OneOut ==
  ASSUME ClientInv, NEW c \in Client, ClientOne(c)
  PROVE  /\ Len(sock[c]) + Len(inbuf[c]) + Len(middle[c]) + Asked(c) <= 1
         /\ Len(sock[c]) + Len(inbuf[c]) + Len(middle[c]) >= 1 =>
               cToR[c] = NULL /\ sent[c] = Len(got[c]) + 1
         /\ cToR[c] # NULL => Len(middle[c]) = 0 /\ sent[c] = Len(got[c]) + 1
  <1>. DEFINE s == Len(sock[c])
              b == Len(inbuf[c])
              m == Len(middle[c])
              g == Len(got[c])
              z == sent[c]
              a == Asked(c)
  <1>1. s \in Nat /\ b \in Nat /\ m \in Nat /\ g \in Nat /\ z \in Nat /\ a \in {0, 1}
    BY ClientLengths
  <1>2. (s + b + m + a) + g <= z /\ z <= g + 1
    BY DEF ClientOne, Out
  <1>3. a = 0 <=> cToR[c] = NULL
    BY DEF Asked
  <1>. HIDE DEF s, b, m, g, z, a
  <1>4. /\ s + b + m + a <= 1
        /\ s + b + m >= 1 => a = 0 /\ z = g + 1
        /\ a # 0 => m = 0 /\ z = g + 1
    BY <1>1, <1>2
  <1>. QED
    BY <1>3, <1>4 DEF s, b, m, g, z, a

-----------------------------------------------------------------------------
(* Clients and connections that a step leaves alone.                       *)
ClientSame(d) == /\ SameClient(d)
                 /\ isQuit'[d] = isQuit[d] /\ cToR'[d] = cToR[d]
                 /\ conn'[d] = conn[d] \/ cToR[d] = NULL

LEMMA SameClientOne ==
  ASSUME NEW d \in Client, ClientOne(d), ClientSame(d)
  PROVE  ClientOne(d)'
  <1>1. Out(d)' = Out(d)
    BY DEF Out, Asked, ClientSame, SameClient
  <1>. QED
    BY <1>1 DEF ClientOne, ClientSame, SameClient

(* Commands move along a connection, or are lost.                          *)
LEMMA SameLineOne ==
  ASSUME NEW s \in Redis, LineOne(s), rNum'[s] = rNum[s], rBlock'[s] = rBlock[s],
         dropped => dropped', ~dropped' => rOpen'[s] = rOpen[s],
         Under(s)' \subseteq Under(s), rToC'[s] = rToC[s],
         \A c \in Client : rToC[s] = c => cToR'[c] = cToR[c] /\ sent'[c] = sent[c],
         MapType, CountInv
  PROVE  LineOne(s)'
  <1>1. Under(s)' \subseteq {<<rToC'[s], sent'[rToC'[s]]>>}
    <2>1. CASE rToC[s] = NoClient
      BY <2>1, UnusedEmpty
    <2>2. CASE rToC[s] # NoClient
      <3>1. sent'[rToC[s]] = sent[rToC[s]]
        BY <2>2 DEF MapType
      <3>. QED
        BY <3>1 DEF LineOne
    <2>. QED
      BY <2>1, <2>2
  <1>. QED
    BY <1>1 DEF LineOne

(* Nothing but flags, the environment, or what is under way.               *)
LEMMA QuietSes ==
  ASSUME SesInv, UNCHANGED <<sock, inbuf, sent, middle, got, isQuit, cToR, rToC>>,
         UNCHANGED <<rNum, rBlock, alive, next>>,
         \A d \in Client : conn'[d] = conn[d] \/ cToR[d] = NULL,
         dropped => dropped', ~dropped' => rOpen' = rOpen,
         \A s \in Redis : Under(s)' \subseteq Under(s)
  PROVE  Ses'
  <1>1. \A d \in Client : ClientOne(d)'
    BY SameClientOne DEF SesInv, Ses, ClientSame, SameClient
  <1>2. \A s \in Redis : LineOne(s)'
    BY SameLineOne DEF SesInv, Ses, OwnInv, Inv
  <1>3. MapsTo' /\ FreedLinks'
    BY DEF SesInv, Ses, MapsTo, FreedLinks
  <1>. QED
    BY <1>1, <1>2, <1>3 DEF Ses

(* A connection is deleted: one without a client, one that Redis has       *)
(* closed, or with the client's entry.                                     *)
LEMMA DropLines ==
  ASSUME SesInv, NEW r \in Redis, Drop(r), rToC' = [rToC EXCEPT ![r] = NoClient],
         sent' = sent, dropped' = dropped,
         \/ cToR' = cToR /\ (dropped \/ rToC[r] = NoClient)
         \/ \E c \in Client : cToR[c] = r /\ cToR' = [cToR EXCEPT ![c] = NULL]
  PROVE  (\A s \in Redis : LineOne(s)') /\ MapsTo' /\ FreedLinks'
  <1>0. NULL \notin Redis
    BY SizeAssumption DEF NULL, Redis
  <1>1. FreedLinks'
    BY DEF Drop, DelRedis, SesInv, Ses, FreedLinks, OwnInv, Inv, PoolInv, PoolTypeOK
  <1>2. LineOne(r)'
    <2>1. /\ rmiddle'[r] = <<>> /\ rqueue'[r] = <<>> /\ replies'[r] = <<>> /\ rinbuf'[r] = <<>>
          /\ rNum'[r] = 0 /\ rOpen'[r] /\ rToC'[r] = NoClient /\ rBlock'[r] = FALSE
      BY DEF Drop, ForgetRedis, SesInv, OwnInv, Inv, CountInv, RedisType, MapType
    <2>2. Under(r)' = {}
      BY <2>1, EmptyOnce DEF Under
    <2>3. NoClient \notin Client
      BY WorkerAssumption
    <2>. QED
      BY <2>1, <2>2, <2>3 DEF LineOne
  <1>3. ASSUME NEW s \in Redis, s # r PROVE LineOne(s)'
    <2>1. /\ rNum'[s] = rNum[s] /\ rBlock'[s] = rBlock[s] /\ rOpen'[s] = rOpen[s]
          /\ rToC'[s] = rToC[s]
          /\ rmiddle'[s] = rmiddle[s] /\ rqueue'[s] = rqueue[s]
          /\ replies'[s] = replies[s] /\ rinbuf'[s] = rinbuf[s]
      BY <1>3 DEF Drop, ForgetRedis, SesInv, OwnInv, Inv, CountInv, RedisType, MapType
    <2>2. Under(s)' = Under(s)
      BY <2>1 DEF Under
    <2>3. ASSUME NEW d \in Client, rToC[s] = d PROVE cToR'[d] = cToR[d]
      <3>1. cToR[d] = s
        BY <2>3 DEF SesInv, Ses, LineOne
      <3>. QED
        BY <1>3, <3>1 DEF SesInv, OwnInv, Inv, MapType
    <2>. QED
      BY <2>1, <2>2, <2>3, SameLineOne DEF SesInv, Ses, OwnInv, Inv
  <1>4. MapsTo'
    <2>1. ASSUME ~dropped, NEW d \in Client, cToR'[d] # NULL PROVE rToC'[cToR'[d]] = d
      <3>1. cToR'[d] = cToR[d] /\ rToC[cToR[d]] = d /\ cToR[d] \in Redis
        BY <2>1 DEF SesInv, Ses, MapsTo, OwnInv, Inv, MapType
      <3>2. cToR[d] # r
        <4>1. ASSUME cToR[d] = r PROVE FALSE
          <5>1. rToC[r] = d /\ d # NoClient
            BY <3>1, <4>1, WorkerAssumption
          <5>2. PICK c \in Client : cToR[c] = r /\ cToR' = [cToR EXCEPT ![c] = NULL]
            BY <2>1, <5>1
          <5>3. rToC[r] = c
            BY <1>0, <2>1, <5>2 DEF SesInv, Ses, MapsTo
          <5>. QED
            BY <2>1, <5>1, <5>2, <5>3 DEF SesInv, OwnInv, Inv, MapType
        <4>. QED
          BY <4>1
      <3>. QED
        BY <3>1, <3>2 DEF SesInv, OwnInv, Inv, MapType
    <2>. QED
      BY <2>1 DEF MapsTo
  <1>. QED
    BY <1>1, <1>2, <1>3, <1>4

-----------------------------------------------------------------------------
(* A client is written to, or not any more; its connection, if it has one, *)
(* goes with it when it is removed.                                        *)
LEMMA WrittenOne ==
  ASSUME ClientInv, NEW d \in Client, ClientOne(d), sent'[d] = sent[d], middle'[d] = <<>>,
         got'[d] = got[d] \/ got'[d] = got[d] \o middle[d],
         \/ /\ sock'[d] = sock[d] /\ inbuf'[d] = inbuf[d] /\ cToR'[d] = cToR[d]
            /\ conn'[d] = conn[d]
         \/ sock'[d] = <<>> /\ inbuf'[d] = <<>> /\ cToR'[d] = NULL,
         isQuit'[d] = isQuit[d]
  PROVE  ClientOne(d)'
  <1>. DEFINE s == Len(sock[d])
              b == Len(inbuf[d])
              m == Len(middle[d])
              g == Len(got[d])
              z == sent[d]
              a == Asked(d)
              g1 == Len(got'[d])
  <1>1. s \in Nat /\ b \in Nat /\ m \in Nat /\ g \in Nat /\ z \in Nat /\ a \in {0, 1}
    BY ClientLengths
  <1>2. (s + b + m + a) + g <= z /\ z <= g + 1
    BY DEF ClientOne, Out
  <1>3. Len(<<>>) = 0 /\ Range(<<>>) = {}
    BY EmptySeq, EmptyOnce
  <1>4. g1 = g \/ g1 = g + m
    <2>1. Len(got[d] \o middle[d]) = Len(got[d]) + Len(middle[d])
      BY ClientLengths, ConcatProperties
    <2>. QED
      BY <2>1
  <1>5. Out(d)' = Len(sock'[d]) + Len(inbuf'[d]) + Len(middle'[d]) + Asked(d)'
    BY DEF Out
  <1>6. Out(d)' = s + b + 0 + a \/ Out(d)' = 0 + 0 + 0 + 0
    <2>1. CASE sock'[d] = sock[d] /\ inbuf'[d] = inbuf[d] /\ cToR'[d] = cToR[d]
      BY <1>3, <1>5, <2>1 DEF Asked
    <2>2. CASE sock'[d] = <<>> /\ inbuf'[d] = <<>> /\ cToR'[d] = NULL
      BY <1>3, <1>5, <2>2 DEF Asked
    <2>. QED
      BY <2>1, <2>2
  <1>. HIDE DEF s, b, m, g, z, a, g1
  <1>7. Out(d)' + g1 <= z /\ z <= g1 + 1
    BY <1>1, <1>2, <1>4, <1>6
  <1>8. (isQuit'[d] => cToR'[d] = NULL) /\ (cToR'[d] # NULL => conn'[d] = "open")
    BY DEF ClientOne
  <1>. QED
    BY <1>3, <1>7, <1>8 DEF ClientOne, g1, z

LEMMA RemoveSes ==
  ASSUME SesInv, NEW c \in Client, RemoveClient(c), UNCHANGED <<sent, isQuit, dropped>>,
         \/ got' = got
         \/ got' = [got EXCEPT ![c] = @ \o middle[c]]
  PROVE  Ses'
  <1>. USE DEF SesInv, OwnInv, Inv
  <1>1. /\ conn' = [conn EXCEPT ![c] = "gone"]
        /\ sock' = [sock EXCEPT ![c] = <<>>]
        /\ inbuf' = [inbuf EXCEPT ![c] = <<>>]
        /\ middle' = [middle EXCEPT ![c] = <<>>]
    BY DEF RemoveClient
  <1>2. /\ (\A s \in Redis : LineOne(s)') /\ MapsTo' /\ FreedLinks'
        /\ cToR' = [cToR EXCEPT ![c] = NULL]
    <2>1. CASE cToR[c] = NULL
      <3>1. UNCHANGED <<poolVars, redisVars, mapVars>>
        BY <2>1 DEF RemoveClient
      <3>2. ASSUME NEW s \in Redis PROVE LineOne(s)'
        <4>1. Under(s)' = Under(s)
          BY <3>1 DEF Under, redisVars
        <4>. QED
          BY <3>1, <4>1, SameLineOne DEF Ses, redisVars, mapVars
      <3>3. MapsTo' /\ FreedLinks'
        BY <3>1 DEF Ses, MapsTo, FreedLinks, mapVars, poolVars
      <3>4. cToR' = [cToR EXCEPT ![c] = NULL]
        BY <2>1, <3>1 DEF mapVars, MapType
      <3>. QED
        BY <3>2, <3>3, <3>4
    <2>2. CASE cToR[c] # NULL
      <3>1. /\ Drop(cToR[c]) /\ rToC' = [rToC EXCEPT ![cToR[c]] = NoClient]
            /\ cToR' = [cToR EXCEPT ![c] = NULL] /\ cToR[c] \in Redis
        BY <2>2 DEF RemoveClient, Unmap, MapType
      <3>2. (\A s \in Redis : LineOne(s)') /\ MapsTo' /\ FreedLinks'
        BY <3>1, DropLines
      <3>. QED
        BY <3>1, <3>2
    <2>. QED
      BY <2>1, <2>2
  <1>3. ASSUME NEW d \in Client PROVE ClientOne(d)'
    <2>1. CASE d = c
      <3>1. /\ sock'[d] = <<>> /\ inbuf'[d] = <<>> /\ middle'[d] = <<>> /\ sent'[d] = sent[d]
            /\ cToR'[d] = NULL /\ isQuit'[d] = isQuit[d]
            /\ got'[d] = got[d] \/ got'[d] = got[d] \o middle[d]
        BY <1>1, <1>2, <2>1 DEF ClientInv, ClientType, MapType
      <3>. QED
        BY <3>1, WrittenOne DEF Ses
    <2>2. CASE d # c
      <3>1. ClientSame(d)
        BY <1>1, <1>2, <2>2 DEF ClientSame, SameClient, ClientInv, ClientType, MapType
      <3>. QED
        BY <3>1, SameClientOne DEF Ses
    <2>. QED
      BY <2>1, <2>2
  <1>. QED
    BY <1>2, <1>3 DEF Ses

LEMMA FaultSes == ASSUME SesInv, Fault PROVE Ses'
  <1>1. \A s \in Redis : Under(s)' = Under(s)
    BY DEF Fault, redisVars, Under
  <1>. QED
    BY <1>1, QuietSes DEF Fault, Crash, clientVars, redisVars, mapVars

LEMMA WriteCSes == ASSUME SesInv, NEW c \in Client, WriteC(c) PROVE Ses'
  <1>1. CASE Fault
    BY <1>1, FaultSes
  <1>2. CASE RemoveClient(c) /\ UNCHANGED <<sent, got, isQuit, dropped>>
    BY <1>2, RemoveSes
  <1>3. CASE UNCHANGED <<poolVars, clientVars, redisVars, mapVars, dropped>>
    <2>1. \A s \in Redis : Under(s)' = Under(s)
      BY <1>3 DEF redisVars, Under
    <2>. QED
      BY <1>3, <2>1, QuietSes DEF poolVars, clientVars, redisVars, mapVars
  <1>4. CASE WriteCQuit(c)
    BY <1>1, <1>2, <1>4 DEF WriteCQuit, RemoveFault
  <1>5. CASE WriteCFail(c)
    BY <1>1, <1>2, <1>3, <1>5 DEF WriteCFail, RemoveFault, BrokenPipe
  <1>6. CASE WriteCFull(c)
    BY <1>3, <1>6 DEF WriteCFull
  <1>7. CASE WriteCSend(c) /\ ~Fault
    <2>. USE DEF SesInv, OwnInv, Inv
    <2>1. /\ \/ RemoveClient(c)
             \/ /\ middle' = [middle EXCEPT ![c] = <<>>]
                /\ UNCHANGED <<poolVars, conn, sock, inbuf, redisVars, mapVars>>
          /\ got' = [got EXCEPT ![c] = IF peerOpen[c] THEN @ \o middle[c] ELSE @]
          /\ UNCHANGED <<isQuit, isBlock, sent, dropped>>
      BY <1>7 DEF WriteCSend, RemoveFault, Written
    <2>2. got' = got \/ got' = [got EXCEPT ![c] = @ \o middle[c]]
      BY <2>1 DEF ClientInv, ClientType
    <2>3. CASE RemoveClient(c)
      BY <2>1, <2>2, <2>3, RemoveSes
    <2>4. CASE /\ middle' = [middle EXCEPT ![c] = <<>>]
               /\ UNCHANGED <<poolVars, conn, sock, inbuf, redisVars, mapVars>>
      <3>1. ASSUME NEW d \in Client PROVE ClientOne(d)'
        <4>1. CASE d = c
          <5>1. /\ sock'[d] = sock[d] /\ inbuf'[d] = inbuf[d] /\ middle'[d] = <<>>
                /\ sent'[d] = sent[d] /\ cToR'[d] = cToR[d] /\ conn'[d] = conn[d]
                /\ isQuit'[d] = isQuit[d]
                /\ got'[d] = got[d] \/ got'[d] = got[d] \o middle[d]
            BY <2>1, <2>2, <2>4, <4>1 DEF ClientInv, ClientType, mapVars
          <5>. QED
            BY <5>1, WrittenOne DEF Ses
        <4>2. CASE d # c
          <5>1. ClientSame(d)
            BY <2>1, <2>2, <2>4, <4>2 DEF ClientSame, SameClient, ClientInv, ClientType, mapVars
          <5>. QED
            BY <5>1, SameClientOne DEF Ses
        <4>. QED
          BY <4>1, <4>2
      <3>2. ASSUME NEW s \in Redis PROVE LineOne(s)'
        <4>1. Under(s)' = Under(s)
          BY <2>4 DEF Under, redisVars
        <4>. QED
          BY <2>1, <2>4, <4>1, SameLineOne DEF Ses, redisVars, mapVars
      <3>3. MapsTo' /\ FreedLinks'
        BY <2>1, <2>4 DEF Ses, MapsTo, FreedLinks, mapVars, poolVars
      <3>. QED
        BY <3>1, <3>2, <3>3 DEF Ses
    <2>. QED
      BY <2>1, <2>3, <2>4
  <1>. QED
    BY <1>1, <1>4, <1>5, <1>6, <1>7 DEF WriteC

LEMMA WriteRSes == ASSUME SesInv, NEW r \in Redis, WriteR(r) PROVE Ses'
  <1>. USE DEF SesInv, OwnInv, Inv
  <1>1. CASE WriteRSend(r)
    <2>1. \A s \in Redis : Under(s)' \subseteq Under(s)
      BY <1>1, SendFits DEF LineFits
    <2>. QED
      BY <1>1, <2>1, QuietSes DEF WriteRSend, poolVars, clientVars, mapVars
  <1>2. CASE UNCHANGED <<poolVars, clientVars, redisVars, mapVars, dropped>>
    <2>1. \A s \in Redis : Under(s)' = Under(s)
      BY <1>2 DEF redisVars, Under
    <2>. QED
      BY <1>2, <2>1, QuietSes DEF poolVars, clientVars, redisVars, mapVars
  <1>3. CASE /\ ~rOpen[r] /\ Drop(r) /\ rToC' = [rToC EXCEPT ![r] = NoClient]
             /\ UNCHANGED <<clientVars, cToR, dropped>>
    <2>1. dropped
      BY <1>3 DEF Ses, LineOne
    <2>2. (\A s \in Redis : LineOne(s)') /\ MapsTo' /\ FreedLinks'
      BY <1>3, <2>1, DropLines DEF clientVars
    <2>3. \A d \in Client : ClientOne(d)'
      BY <1>3, SameClientOne DEF Ses, ClientSame, SameClient, clientVars
    <2>. QED
      BY <2>2, <2>3 DEF Ses
  <1>. QED
    BY <1>1, <1>2, <1>3 DEF WriteR, WriteRFull, WriteRFail, BrokenPipe

(* A client loses its connection: nothing is under way for it any more.    *)
LEMMA UnmappedOne ==
  ASSUME ClientInv, MapType, NEW c \in Client, ClientOne(c), cToR[c] # NULL,
         cToR' = [cToR EXCEPT ![c] = NULL],
         sock'[c] = sock[c], inbuf'[c] = inbuf[c], sent'[c] = sent[c], got'[c] = got[c],
         Len(middle'[c]) \in 0 .. 1, Range(middle'[c]) \subseteq {<<c, sent[c]>>}
  PROVE  ClientOne(c)'
  <1>. DEFINE s == Len(sock[c])
              b == Len(inbuf[c])
              m == Len(middle[c])
              m1 == Len(middle'[c])
              g == Len(got[c])
              z == sent[c]
  <1>1. s \in Nat /\ b \in Nat /\ m \in Nat /\ g \in Nat /\ z \in Nat /\ m1 \in 0 .. 1
    BY ClientLengths
  <1>2. (s + b + m + Asked(c)) + g <= z /\ z <= g + 1 /\ Asked(c) = 1
    BY DEF ClientOne, Out, Asked
  <1>3. cToR'[c] = NULL
    BY DEF MapType
  <1>4. Out(c)' = s + b + m1 + 0
    BY <1>3 DEF Out, Asked
  <1>. HIDE DEF s, b, m, m1, g, z
  <1>5. Out(c)' + g <= z /\ z <= g + 1
    BY <1>1, <1>2, <1>4
  <1>. QED
    BY <1>3, <1>5 DEF ClientOne, g, z

LEMMA EofSes ==
  ASSUME SesInv, NEW r \in Redis, NEW c \in Client, rToC[r] = c, ReadREof(r, c)
  PROVE  Ses'
  <1>. USE DEF SesInv, OwnInv, Inv
  <1>1. cToR[c] = r /\ cToR[c] # NULL
    BY SizeAssumption DEF Ses, LineOne, Redis, NULL
  <1>2. /\ Drop(r) /\ rToC' = [rToC EXCEPT ![r] = NoClient] /\ cToR' = [cToR EXCEPT ![c] = NULL]
        /\ isQuit' = [isQuit EXCEPT ![c] = TRUE]
        /\ UNCHANGED <<conn, sock, inbuf, middle, sent, got, dropped>>
    BY DEF ReadREof, Unmap, Quit
  <1>3. (\A s \in Redis : LineOne(s)') /\ MapsTo' /\ FreedLinks'
    BY <1>1, <1>2, DropLines
  <1>4. ASSUME NEW d \in Client PROVE ClientOne(d)'
    <2>1. CASE d = c
      <3>1. Len(middle'[c]) \in 0 .. 1 /\ Range(middle'[c]) \subseteq {<<c, sent[c]>>}
        <4>1. ClientOne(c) /\ middle'[c] = middle[c]
          BY <1>2 DEF Ses
        <4>2. Len(middle[c]) = 0
          BY <1>1, <4>1, OneOut
        <4>. QED
          BY <4>1, <4>2 DEF ClientOne
      <3>. QED
        BY <1>1, <1>2, <2>1, <3>1, UnmappedOne DEF Ses
    <2>2. CASE d # c
      <3>1. ClientSame(d)
        BY <1>2, <2>2 DEF ClientSame, SameClient, ClientInv, ClientType, MapType
      <3>. QED
        BY <3>1, SameClientOne DEF Ses
    <2>. QED
      BY <2>1, <2>2
  <1>. QED
    BY <1>3, <1>4 DEF Ses

(* What is read from a connection was under way on it.                     *)
LEMMA DataUnder ==
  ASSUME CountInv, Placed, NEW r \in Redis, NEW k \in 1 .. Len(replies[r])
  PROVE  LET new  == rinbuf[r] \o SubSeq(replies[r], 1, k)
             left == SubSeq(replies[r], k + 1, Len(replies[r]))
         IN  /\ new \in Seq(Reply) /\ Len(new) = Len(rinbuf[r]) + k
             /\ left \in Seq(Reply) /\ Len(left) = Len(replies[r]) - k
             /\ Range(new) \subseteq Under(r) /\ Range(left) \subseteq Under(r)
  <1>. DEFINE p == replies[r]
              b == rinbuf[r]
              p0 == SubSeq(replies[r], 1, k)
              left == SubSeq(replies[r], k + 1, Len(replies[r]))
              new == b \o p0
  <1>1. p \in Seq(Reply) /\ b \in Seq(Reply)
    BY Lengths DEF CountInv
  <1>2. IsInjective(p) /\ IsInjective(b) /\ Range(p) \cap Range(b) = {}
    BY DEF Placed, LineOnce
  <1>3. /\ p0 \in Seq(Reply) /\ Len(p0) = k
        /\ left \in Seq(Reply) /\ Len(left) = Len(p) - k
    BY <1>1, Cut
  <1>4. /\ IsInjective(p0) /\ Range(p0) \cup Range(left) \subseteq Range(p)
    BY <1>1, <1>2, CutOnce
  <1>5. Range(p) \subseteq Under(r) /\ Range(b) \subseteq Under(r)
    BY DEF Under
  <1>. HIDE DEF p, b, p0, left
  <1>6. Range(new) = Range(b) \cup Range(p0)
    <2>1. Range(b) \cap Range(p0) = {}
      BY <1>2, <1>4
    <2>. QED
      BY <1>1, <1>2, <1>3, <1>4, <2>1, ConcatOnce
  <1>7. new \in Seq(Reply) /\ Len(new) = Len(b) + Len(p0)
    BY <1>1, <1>3, ConcatProperties
  <1>. QED
    BY <1>3, <1>4, <1>5, <1>6, <1>7 DEF p, b, p0, left

LEMMA DataSes ==
  ASSUME SesInv, NEW r \in Redis, NEW c \in Client, rToC[r] = c, r \in alive, ReadRData(r, c)
  PROVE  Ses'
  <1>. USE DEF SesInv, OwnInv, Inv
  <1>1. PICK k \in 1 .. Len(replies[r]) :
           LET new == rinbuf[r] \o SubSeq(replies[r], 1, k)
           IN  /\ replies' = [replies EXCEPT ![r] = SubSeq(@, k + 1, Len(@))]
               /\ UNCHANGED <<conn, sock, inbuf, isQuit, sent, got, rmiddle, rqueue, rBlock,
                              rOpen, dropped>>
               /\ \/ /\ rinbuf' = [rinbuf EXCEPT ![r] = new]
                     /\ UNCHANGED <<poolVars, middle, rNum, mapVars>>
                  \/ /\ rinbuf' = [rinbuf EXCEPT ![r] = <<>>]
                     /\ middle' = [middle EXCEPT ![c] = @ \o new]
                     /\ rNum' = [rNum EXCEPT ![r] = @ - Len(new)]
                     /\ rBlock[r] \/ rNum[r] # Len(new) \/ (Unmap(r, c) /\ PutRedis(r))
    BY DEF ReadRData, CountReplies
  <1>. DEFINE new == rinbuf[r] \o SubSeq(replies[r], 1, k)
              left == SubSeq(replies[r], k + 1, Len(replies[r]))
  <1>2. /\ new \in Seq(Reply) /\ Len(new) = Len(rinbuf[r]) + k
        /\ left \in Seq(Reply) /\ Len(left) = Len(replies[r]) - k
        /\ Range(new) \subseteq Under(r) /\ Range(left) \subseteq Under(r)
    BY DataUnder
  <1>3. rmiddle' = rmiddle /\ rqueue' = rqueue /\ replies'[r] = left
        /\ \A s \in Redis : s # r => replies'[s] = replies[s] /\ rinbuf'[s] = rinbuf[s]
    BY <1>1 DEF CountInv, RedisType
  <1>4. \A s \in Redis : s # r => Under(s)' = Under(s)
    BY <1>3 DEF Under
  <1>5. LineOne(r) /\ ClientOne(c)
    BY DEF Ses
  <1>6. \/ rinbuf' = [rinbuf EXCEPT ![r] = new] /\ UNCHANGED <<poolVars, middle, rNum, mapVars>>
        \/ /\ rinbuf' = [rinbuf EXCEPT ![r] = <<>>]
           /\ middle' = [middle EXCEPT ![c] = @ \o new]
           /\ rNum' = [rNum EXCEPT ![r] = @ - Len(new)]
           /\ rBlock[r] \/ rNum[r] # Len(new) \/ (Unmap(r, c) /\ PutRedis(r))
    BY <1>1
  <1>. HIDE DEF new, left
  <1>7. CASE rinbuf' = [rinbuf EXCEPT ![r] = new] /\ UNCHANGED <<poolVars, middle, rNum, mapVars>>
    <2>1. Under(r)' \subseteq Under(r)
      <3>1. rinbuf'[r] = new
        BY <1>7 DEF CountInv, RedisType
      <3>2. Under(r)' = Range(rmiddle[r]) \cup Range(rqueue[r]) \cup Range(left) \cup Range(new)
        BY <1>3, <3>1 DEF Under
      <3>3. Range(rmiddle[r]) \cup Range(rqueue[r]) \subseteq Under(r)
        BY DEF Under
      <3>. QED
        BY <1>2, <3>2, <3>3
    <2>2. \A s \in Redis : Under(s)' \subseteq Under(s)
      BY <1>4, <2>1
    <2>3. /\ UNCHANGED <<sock, inbuf, sent, middle, got, isQuit, cToR, rToC>>
          /\ UNCHANGED <<rNum, rBlock, alive, next>>
          /\ conn' = conn /\ dropped' = dropped /\ rOpen' = rOpen
      BY <1>1, <1>7 DEF poolVars, mapVars
    <2>. QED
      BY <2>2, <2>3, QuietSes
  <1>8. CASE /\ rinbuf' = [rinbuf EXCEPT ![r] = <<>>]
             /\ middle' = [middle EXCEPT ![c] = @ \o new]
             /\ rNum' = [rNum EXCEPT ![r] = @ - Len(new)]
             /\ rBlock[r] \/ rNum[r] # Len(new) \/ (Unmap(r, c) /\ PutRedis(r))
    <2>1. /\ rNum[r] = Len(new) /\ rNum'[r] = 0 /\ rmiddle[r] = <<>> /\ rqueue[r] = <<>>
          /\ left = <<>>
      <3>. DEFINE i == Len(rmiddle[r])
                  j == Len(rqueue[r])
                  l == Len(replies[r])
                  m == Len(rinbuf[r])
                  w == rNum[r]
      <3>1. /\ i \in Nat /\ j \in Nat /\ l \in Nat /\ m \in Nat /\ w \in Nat /\ k \in 1 .. l
            /\ rmiddle[r] \in Seq(Reply) /\ rqueue[r] \in Seq(Reply)
        BY Lengths DEF CountInv
      <3>2. i + j + l + m <= w /\ w <= 1
        BY <1>5 DEF CountInv, Counted, UnderWay, LineOne
      <3>3. Len(new) = m + k /\ Len(left) = l - k /\ rNum'[r] = w - Len(new)
        BY <1>2, <1>8 DEF CountInv, RedisType
      <3>. HIDE DEF i, j, l, m, w
      <3>4. i = 0 /\ j = 0 /\ Len(new) = 1 /\ w = 1 /\ Len(left) = 0 /\ rNum'[r] = 0
        BY <3>1, <3>2, <3>3
      <3>. QED
        BY <1>2, <3>1, <3>4, EmptySeq DEF i, j, w
    <2>2. /\ cToR' = [cToR EXCEPT ![c] = NULL] /\ rToC' = [rToC EXCEPT ![r] = NoClient]
          /\ PutRedis(r)
      BY <1>5, <1>8, <2>1 DEF LineOne, Unmap
    <2>3. cToR[c] = r /\ cToR[c] # NULL
      BY SizeAssumption DEF Ses, LineOne, Redis, NULL
    <2>4. Under(r)' = {}
      <3>1. rinbuf'[r] = <<>>
        BY <1>8 DEF CountInv, RedisType
      <3>. QED
        BY <1>3, <2>1, <3>1, EmptyOnce DEF Under
    <2>5. LineOne(r)'
      <3>1. rToC'[r] = NoClient /\ NoClient \notin Client
        BY <2>2, WorkerAssumption DEF MapType
      <3>. QED
        BY <1>1, <1>5, <2>1, <2>4, <3>1 DEF LineOne
    <2>6. ASSUME NEW s \in Redis, s # r PROVE LineOne(s)'
      <3>1. ASSUME NEW d \in Client, rToC[s] = d PROVE cToR'[d] = cToR[d]
        <4>1. cToR[d] = s
          BY <3>1 DEF Ses, LineOne
        <4>. QED
          BY <2>2, <2>3, <2>6, <4>1 DEF MapType
      <3>2. rToC'[s] = rToC[s] /\ rNum'[s] = rNum[s]
        BY <1>8, <2>2, <2>6 DEF MapType, CountInv, RedisType
      <3>. QED
        BY <1>1, <1>4, <2>6, <3>1, <3>2, SameLineOne DEF Ses
    <2>7. MapsTo'
      <3>1. ASSUME ~dropped, NEW d \in Client, cToR'[d] # NULL PROVE rToC'[cToR'[d]] = d
        <4>1. d # c /\ cToR'[d] = cToR[d]
          BY <2>2, <3>1 DEF MapType
        <4>2. rToC[cToR[d]] = d /\ cToR[d] \in Redis
          BY <3>1, <4>1 DEF Ses, MapsTo, MapType
        <4>3. cToR[d] # r
          BY <4>1, <4>2
        <4>. QED
          BY <2>2, <4>1, <4>2, <4>3 DEF MapType
      <3>. QED
        BY <1>1, <3>1 DEF MapsTo
    <2>8. FreedLinks'
      BY <2>2 DEF PutRedis, Ses, FreedLinks, PoolInv, PoolTypeOK
    <2>9. ASSUME NEW d \in Client PROVE ClientOne(d)'
      <3>1. CASE d = c
        <4>1. middle'[c] = new
          <5>1. Len(middle[c]) = 0
            BY <1>5, <2>3, OneOut
          <5>2. middle[c] = <<>>
            BY <5>1, EmptySeq, ClientLengths
          <5>3. <<>> \o new = new
            BY <1>2, ConcatEmptySeq
          <5>. QED
            BY <1>8, <5>2, <5>3 DEF ClientInv, ClientType
        <4>2. Len(new) \in 0 .. 1 /\ Range(new) \subseteq {<<c, sent[c]>>}
          <5>1. rNum[r] \in Nat /\ rNum[r] <= 1
            BY <1>5 DEF LineOne, CountInv, RedisType
          <5>. QED
            BY <1>2, <1>5, <2>1, <5>1 DEF LineOne
        <4>. QED
          BY <1>1, <1>5, <2>2, <2>3, <3>1, <4>1, <4>2, UnmappedOne
      <3>2. CASE d # c
        <4>1. ClientSame(d)
          BY <1>1, <1>8, <2>2, <3>2 DEF ClientSame, SameClient, ClientInv, ClientType, MapType
        <4>. QED
          BY <4>1, SameClientOne DEF Ses
      <3>. QED
        BY <3>1, <3>2
    <2>. QED
      BY <2>5, <2>6, <2>7, <2>8, <2>9 DEF Ses
  <1>. QED
    BY <1>6, <1>7, <1>8

LEMMA ReadRSes == ASSUME SesInv, NEW r \in Redis, ReadR(r) PROVE Ses'
  <1>. DEFINE c == rToC[r]
  <1>1. CASE Fault
    BY <1>1, FaultSes
  <1>2. c \in Client => ~isQuit[c]
    BY SizeAssumption DEF SesInv, Ses, LineOne, ClientOne, Redis, NULL
  <1>3. CASE ReadROrphan(r)
    <2>1. c = NoClient
      BY <1>2, <1>3 DEF ReadROrphan, SesInv, OwnInv, Inv, MapType
    <2>2. (\A s \in Redis : LineOne(s)') /\ MapsTo' /\ FreedLinks'
      BY <1>3, <2>1, DropLines DEF ReadROrphan, clientVars
    <2>3. \A d \in Client : ClientOne(d)'
      BY <1>3, SameClientOne DEF ReadROrphan, SesInv, Ses, ClientSame, SameClient, clientVars
    <2>. QED
      BY <2>2, <2>3 DEF Ses
  <1>4. CASE c \in Client /\ (ReadREof(r, c) \/ ReadRData(r, c))
    BY <1>4, EofSes, DataSes DEF ReadR
  <1>5. c = NoClient \/ c \in Client
    BY DEF SesInv, OwnInv, Inv, MapType
  <1>. QED
    BY <1>1, <1>3, <1>4, <1>5 DEF ReadR

(* readC with something to read: it is the one command under way, and the  *)
(* client has no connection.                                               *)
LEMMA TakenOne ==
  ASSUME ClientInv, NEW c \in Client, ClientOne(c), Numbered(c), NEW k \in 1 .. Len(sock[c])
  PROVE  LET cmds == inbuf[c] \o SubSeq(sock[c], 1, k)
         IN  /\ cToR[c] = NULL /\ sent[c] = Len(got[c]) + 1
             /\ middle[c] = <<>> /\ SubSeq(sock[c], k + 1, Len(sock[c])) = <<>>
             /\ Len(cmds) = 1 /\ DOMAIN cmds = 1 .. 1 /\ cmds[1].n = sent[c]
  <1>. DEFINE cmds == inbuf[c] \o SubSeq(sock[c], 1, k)
              left == SubSeq(sock[c], k + 1, Len(sock[c]))
              s == Len(sock[c])
              b == Len(inbuf[c])
              m == Len(middle[c])
              g == Len(got[c])
              z == sent[c]
              l == Passed(c)
  <1>1. s \in Nat /\ b \in Nat /\ m \in Nat /\ g \in Nat /\ z \in Nat /\ k \in 1 .. s
    BY ClientLengths
  <1>2. /\ s + b + m + Asked(c) <= 1 /\ Asked(c) \in {0, 1}
        /\ s + b + m >= 1 => cToR[c] = NULL /\ z = g + 1
    BY ClientLengths, OneOut
  <1>3. /\ cmds \in Seq(Command) /\ left \in Seq(Command)
        /\ Len(cmds) = b + k /\ Len(left) = s - k
        /\ \A i \in 1 .. Len(cmds) : cmds[i].n = l + i
    BY ReadNumbers
  <1>4. l = z - b - s /\ middle[c] \in Seq(Reply)
    BY ClientLengths DEF Passed
  <1>. HIDE DEF cmds, left, s, b, m, g, z, l
  <1>5. cToR[c] = NULL /\ z = g + 1 /\ m = 0 /\ Len(left) = 0 /\ Len(cmds) = 1 /\ l + 1 = z
    BY <1>1, <1>2, <1>3, <1>4
  <1>6. middle[c] = <<>> /\ left = <<>>
    BY <1>3, <1>4, <1>5, EmptySeq DEF m
  <1>7. DOMAIN cmds = 1 .. 1 /\ cmds[1].n = l + 1
    <2>1. DOMAIN cmds = 1 .. Len(cmds)
      BY <1>3, LenProperties
    <2>2. 1 \in 1 .. Len(cmds)
      BY <1>5
    <2>. QED
      BY <1>3, <1>5, <2>1, <2>2
  <1>. QED
    BY <1>5, <1>6, <1>7 DEF cmds, left, g, z

(* It is processed, and nothing is forwarded or everything.                *)
LEMMA ProcessedOne ==
  ASSUME ClientInv, NEW c \in Client, ClientOne(c), Numbered(c), NEW k \in 1 .. Len(sock[c]),
         sock'[c] = SubSeq(sock[c], k + 1, Len(sock[c])), inbuf'[c] = <<>>,
         middle'[c] = middle[c], sent'[c] = sent[c], got'[c] = got[c], conn'[c] = "open",
         isQuit'[c] => cToR'[c] = NULL
  PROVE  ClientOne(c)'
  <1>1. /\ sent[c] = Len(got[c]) + 1 /\ middle[c] = <<>>
        /\ SubSeq(sock[c], k + 1, Len(sock[c])) = <<>>
    BY TakenOne
  <1>2. Len(<<>>) = 0 /\ Range(<<>>) = {}
    BY EmptySeq, EmptyOnce
  <1>3. Out(c)' = 0 + 0 + 0 + Asked(c)' /\ Asked(c)' \in {0, 1}
    BY <1>1, <1>2 DEF Out, Asked
  <1>4. Len(got[c]) \in Nat
    BY ClientLengths
  <1>5. Out(c)' + Len(got[c]) <= sent[c] /\ sent[c] <= Len(got[c]) + 1
    BY <1>1, <1>3, <1>4
  <1>. QED
    BY <1>1, <1>2, <1>5 DEF ClientOne

LEMMA ProcessSes ==
  ASSUME SesInv, NEW c \in Client, NEW k \in 1 .. Len(sock[c]),
         LET cmds == inbuf[c] \o SubSeq(sock[c], 1, k)
         IN  IF isBlock[c] THEN ProcessBlocked(c, cmds) ELSE ProcessNormal(c, cmds),
         conn[c] = "open", ~isQuit[c],
         sock' = [sock EXCEPT ![c] = SubSeq(@, k + 1, Len(@))],
         inbuf' = [inbuf EXCEPT ![c] = <<>>],
         UNCHANGED <<conn, middle, sent, got, dropped>>
  PROVE  Ses'
  <1>. USE DEF SesInv, OwnInv, Inv
  <1>. DEFINE cmds == inbuf[c] \o SubSeq(sock[c], 1, k)
              batch == [i \in DOMAIN cmds |-> <<c, cmds[i].n>>]
  <1>1. cmds \in Seq(Command) /\ Plain(cmds)
    BY PlainParts DEF ClientInv, ClientType, Sent
  <1>2. BlockAfter(FALSE, cmds) = FALSE /\ BlockAfter(FALSE, Good(cmds)) = FALSE
    BY <1>1, NoMarks, GoodIsPlain
  <1>3. IF isBlock[c] THEN ProcessBlocked(c, cmds) ELSE ProcessNormal(c, cmds)
    OBVIOUS
  <1>4. /\ cToR[c] = NULL /\ Len(cmds) = 1 /\ DOMAIN cmds = 1 .. 1 /\ cmds[1].n = sent[c]
    BY TakenOne DEF Ses
  <1>5. ASSUME isQuit'[c] => cToR'[c] = NULL,
               \A d \in Client : d # c => isQuit'[d] = isQuit[d] /\ cToR'[d] = cToR[d],
               NEW d \in Client
        PROVE  ClientOne(d)'
    <2>1. CASE d = c
      <3>1. sock'[c] = SubSeq(sock[c], k + 1, Len(sock[c])) /\ inbuf'[c] = <<>>
        BY DEF ClientInv, ClientType
      <3>. QED
        BY <1>5, <2>1, <3>1, ProcessedOne DEF Ses
    <2>2. CASE d # c
      <3>1. ClientSame(d)
        BY <1>5, <2>2 DEF ClientSame, SameClient, ClientInv, ClientType
      <3>. QED
        BY <3>1, SameClientOne DEF Ses
    <2>. QED
      BY <2>1, <2>2
  <1>. HIDE DEF cmds
  <1>6. ASSUME UNCHANGED <<redisVars, mapVars>>,
               UNCHANGED isQuit \/ Quit(c),
               FreedLinks'
        PROVE  Ses'
    <2>1. \A s \in Redis : Under(s)' = Under(s)
      BY <1>6 DEF redisVars, Under
    <2>2. \A s \in Redis : LineOne(s)'
      BY <1>6, <2>1, SameLineOne DEF Ses, redisVars, mapVars
    <2>3. MapsTo'
      BY <1>6 DEF Ses, MapsTo, mapVars
    <2>4. \A d \in Client : ClientOne(d)'
      <3>1. isQuit'[c] => cToR'[c] = NULL
        BY <1>4, <1>6 DEF mapVars
      <3>2. \A d \in Client : d # c => isQuit'[d] = isQuit[d] /\ cToR'[d] = cToR[d]
        BY <1>6 DEF mapVars, Quit, ClientInv, ClientType
      <3>. QED
        BY <1>5, <3>1, <3>2
    <2>. QED
      BY <1>6, <2>2, <2>3, <2>4 DEF Ses
  <1>7. CASE UNCHANGED <<poolVars, redisVars, mapVars>> /\ Quit(c)
    <2>1. FreedLinks'
      BY <1>7 DEF Ses, FreedLinks, poolVars
    <2>. QED
      BY <1>6, <1>7, <2>1
  <1>8. CASE isBlock[c]
    <2>1. NULL \notin alive
      BY SizeAssumption DEF PoolInv, PoolTypeOK, NULL, Redis
    <2>2. UNCHANGED <<poolVars, redisVars, mapVars>> /\ Quit(c)
      BY <1>3, <1>4, <1>8, <2>1 DEF ProcessBlocked
    <2>. QED
      BY <1>7, <2>2
  <1>9. ASSUME NEW r \in Redis, GetRedis(r), Forward(c, r, cmds), ~isBlock[c] PROVE Ses'
    <2>1. rToC[r] = NoClient
      BY <1>9, GetsUnused
    <2>2. /\ rmiddle' = [rmiddle EXCEPT ![r] = @ \o batch]
          /\ rNum' = [rNum EXCEPT ![r] = @ + Len(cmds)]
          /\ rBlock' = [rBlock EXCEPT ![r] = FALSE]
          /\ cToR' = [cToR EXCEPT ![c] = r] /\ rToC' = [rToC EXCEPT ![r] = c]
          /\ UNCHANGED <<isQuit, rqueue, replies, rinbuf, rOpen>>
      <3>1. isBlock[c] = FALSE
        BY <1>9 DEF ClientInv, ClientType
      <3>2. BlockAfter(isBlock[c], cmds) = FALSE
        BY <1>2, <3>1
      <3>. QED
        BY <1>9, <3>2 DEF Forward, Await
    <2>3. LineOne(r)'
      <3>1. /\ rmiddle[r] = <<>> /\ rqueue[r] = <<>> /\ replies[r] = <<>> /\ rinbuf[r] = <<>>
            /\ rNum[r] = 0
        BY <2>1, UnusedEmpty DEF CountInv, Counted
      <3>2. rmiddle'[r] = batch
        <4>1. batch \in Seq(Reply)
          BY <1>1, Batch
        <4>2. <<>> \o batch = batch
          BY <4>1, ConcatEmptySeq
        <4>. QED
          BY <2>2, <3>1, <4>2 DEF CountInv, RedisType
      <3>3. Range(batch) \subseteq {<<c, sent[c]>>}
        <4>1. DOMAIN batch = 1 .. 1 /\ batch[1] = <<c, sent[c]>>
          BY <1>4
        <4>. QED
          BY <4>1 DEF Range
      <3>4. Under(r)' \subseteq {<<c, sent[c]>>}
        BY <2>2, <3>1, <3>2, <3>3, EmptyOnce DEF Under
      <3>5. rNum'[r] = 0 + 1 /\ rBlock'[r] = FALSE /\ rToC'[r] = c /\ cToR'[c] = r
        BY <1>4, <2>2, <3>1 DEF CountInv, RedisType, MapType
      <3>. QED
        BY <2>2, <3>4, <3>5 DEF Ses, LineOne
    <2>4. ASSUME NEW s \in Redis, s # r PROVE LineOne(s)'
      <3>1. ASSUME NEW d \in Client, rToC[s] = d PROVE cToR'[d] = cToR[d]
        <4>1. cToR[d] = s /\ s # NULL
          BY <3>1, SizeAssumption DEF Ses, LineOne, Redis, NULL
        <4>. QED
          BY <1>4, <2>2, <4>1 DEF MapType
      <3>2. /\ rToC'[s] = rToC[s] /\ rNum'[s] = rNum[s] /\ rBlock'[s] = rBlock[s]
            /\ rmiddle'[s] = rmiddle[s]
        BY <2>2, <2>4 DEF MapType, CountInv, RedisType
      <3>3. Under(s)' = Under(s)
        BY <2>2, <3>2 DEF Under
      <3>. QED
        BY <2>2, <3>1, <3>2, <3>3, SameLineOne DEF Ses
    <2>5. MapsTo'
      <3>1. ASSUME ~dropped, NEW d \in Client, cToR'[d] # NULL PROVE rToC'[cToR'[d]] = d
        <4>1. CASE d = c
          BY <2>2, <4>1 DEF MapType
        <4>2. CASE d # c
          <5>1. cToR'[d] = cToR[d]
            BY <2>2, <4>2 DEF MapType
          <5>2. rToC[cToR[d]] = d /\ cToR[d] \in Redis
            BY <3>1, <5>1 DEF Ses, MapsTo, MapType
          <5>3. cToR[d] # r
            BY <2>1, <5>2, WorkerAssumption
          <5>. QED
            BY <2>2, <5>1, <5>2, <5>3 DEF MapType
        <4>. QED
          BY <4>1, <4>2
      <3>. QED
        BY <3>1 DEF MapsTo
    <2>6. FreedLinks'
      BY <1>9 DEF GetRedis, PopRedis, NewRedis, Ses, FreedLinks, PoolInv, PoolTypeOK
    <2>7. \A d \in Client : ClientOne(d)'
      <3>1. isQuit'[c] => cToR'[c] = NULL
        BY <2>2
      <3>2. \A d \in Client : d # c => isQuit'[d] = isQuit[d] /\ cToR'[d] = cToR[d]
        BY <2>2 DEF MapType
      <3>. QED
        BY <1>5, <3>1, <3>2
    <2>. QED
      BY <2>3, <2>4, <2>5, <2>6, <2>7 DEF Ses
  <1>10. ASSUME NEW r \in Redis, GetThenGiveUp(r, FALSE), UNCHANGED <<redisVars, mapVars>>, Quit(c)
         PROVE  Ses'
    <2>1. FreedLinks'
      BY <1>10 DEF GetThenGiveUp, Ses, FreedLinks, PoolInv, PoolTypeOK
    <2>. QED
      BY <1>6, <1>10, <2>1
  <1>11. CASE ~isBlock[c]
    <2>1. ProcessNormal(c, cmds)
      BY <1>3, <1>11
    <2>2. \/ UNCHANGED <<poolVars, redisVars, mapVars>> /\ Quit(c)
          \/ \E r \in Redis :
                \/ GetRedis(r) /\ Forward(c, r, cmds)
                \/ GetThenGiveUp(r, FALSE) /\ UNCHANGED <<redisVars, mapVars>> /\ Quit(c)
      BY <1>2, <2>1 DEF ProcessNormal
    <2>. QED
      BY <1>7, <1>9, <1>10, <1>11, <2>2
  <1>. QED
    BY <1>8, <1>11

LEMMA ReadCSes == ASSUME SesInv, NEW c \in Client, ReadC(c) PROVE Ses'
  <1>. USE DEF SesInv, OwnInv, Inv
  <1>1. conn[c] = "open" /\ ~isQuit[c]
    BY DEF ReadC
  <1>2. CASE Fault
    BY <1>2, FaultSes
  <1>3. CASE ReadCEof(c) /\ ~Fault
    <2>1. RemoveClient(c) /\ UNCHANGED <<sent, got, isQuit, dropped>>
      BY <1>3 DEF ReadCEof, RemoveFault
    <2>. QED
      BY <2>1, RemoveSes
  <1>4. CASE ReadCData(c) /\ ~Fault
    <2>1. PICK k \in 1 .. Len(sock[c]) :
             LET cmds == inbuf[c] \o SubSeq(sock[c], 1, k)
             IN  /\ sock' = [sock EXCEPT ![c] = SubSeq(@, k + 1, Len(@))]
                 /\ UNCHANGED <<conn, middle, sent, got, dropped>>
                 /\ \/ /\ inbuf' = [inbuf EXCEPT ![c] = cmds]
                       /\ UNCHANGED <<poolVars, isQuit, redisVars, mapVars>>
                    \/ /\ inbuf' = [inbuf EXCEPT ![c] = <<>>]
                       /\ IF isBlock[c] THEN ProcessBlocked(c, cmds)
                                        ELSE ProcessNormal(c, cmds)
      BY <1>4 DEF ReadCData
    <2>. DEFINE cmds == inbuf[c] \o SubSeq(sock[c], 1, k)
                left == SubSeq(sock[c], k + 1, Len(sock[c]))
    <2>2. CASE /\ inbuf' = [inbuf EXCEPT ![c] = cmds]
               /\ UNCHANGED <<poolVars, isQuit, redisVars, mapVars>>
      <3>1. Len(cmds) = Len(inbuf[c]) + k /\ Len(left) = Len(sock[c]) - k
        BY ReadNumbers
      <3>2. sock'[c] = left /\ inbuf'[c] = cmds
        BY <2>1, <2>2 DEF ClientInv, ClientType
      <3>. HIDE DEF cmds, left
      <3>3. ClientOne(c)'
        <4>1. Out(c)' = Out(c)
          <5>. DEFINE s == Len(sock[c])
                      b == Len(inbuf[c])
                      m == Len(middle[c])
                      a == Asked(c)
          <5>1. s \in Nat /\ b \in Nat /\ m \in Nat /\ a \in {0, 1} /\ k \in 1 .. s
            BY ClientLengths
          <5>2. Out(c) = s + b + m + a /\ Out(c)' = (s - k) + (b + k) + m + a
            BY <2>1, <2>2, <3>1, <3>2 DEF Out, Asked, mapVars
          <5>. HIDE DEF s, b, m, a
          <5>. QED
            BY <5>1, <5>2
        <4>2. ClientOne(c)
          BY DEF Ses
        <4>3. /\ got'[c] = got[c] /\ sent'[c] = sent[c] /\ middle'[c] = middle[c]
              /\ isQuit'[c] = isQuit[c] /\ cToR'[c] = cToR[c] /\ conn'[c] = conn[c]
          BY <2>1, <2>2 DEF mapVars
        <4>. QED
          BY <4>1, <4>2, <4>3 DEF ClientOne
      <3>4. ASSUME NEW d \in Client, d # c PROVE ClientOne(d)'
        <4>1. ClientSame(d)
          BY <2>1, <2>2, <3>4 DEF ClientSame, SameClient, ClientInv, ClientType, mapVars
        <4>. QED
          BY <4>1, SameClientOne DEF Ses
      <3>5. ASSUME NEW s \in Redis PROVE LineOne(s)'
        <4>1. Under(s)' = Under(s)
          BY <2>2 DEF Under, redisVars
        <4>. QED
          BY <2>1, <2>2, <4>1, SameLineOne DEF Ses, redisVars, mapVars
      <3>6. MapsTo' /\ FreedLinks'
        BY <2>1, <2>2 DEF Ses, MapsTo, FreedLinks, mapVars, poolVars
      <3>. QED
        BY <3>3, <3>4, <3>5, <3>6 DEF Ses
    <2>3. CASE /\ inbuf' = [inbuf EXCEPT ![c] = <<>>]
               /\ IF isBlock[c] THEN ProcessBlocked(c, cmds) ELSE ProcessNormal(c, cmds)
      BY <1>1, <2>1, <2>3, ProcessSes
    <2>. QED
      BY <2>1, <2>2, <2>3
  <1>. QED
    BY <1>2, <1>3, <1>4 DEF ReadC

(* A client sends when it has got every reply: nothing of it is under way. *)
LEMMA SendSes ==
  ASSUME OneAtATime, SesInv, NEW c \in Client, Send(c)
  PROVE  Ses'
  <1>. USE DEF SesInv, OwnInv, Inv
  <1>1. PICK x : sock' = [sock EXCEPT ![c] = Append(@, x)]
    BY DEF Send
  <1>2. /\ sent' = [sent EXCEPT ![c] = @ + 1] /\ sent[c] - Len(got[c]) < Window
        /\ UNCHANGED <<poolVars, conn, inbuf, isQuit, middle, got, redisVars, mapVars, dropped>>
    BY DEF Send
  <1>. DEFINE s == Len(sock[c])
              b == Len(inbuf[c])
              m == Len(middle[c])
              g == Len(got[c])
              z == sent[c]
              a == Asked(c)
  <1>3. s \in Nat /\ b \in Nat /\ m \in Nat /\ g \in Nat /\ z \in Nat /\ a \in {0, 1}
    BY ClientLengths
  <1>4. (s + b + m + a) + g <= z /\ z <= g + 1 /\ z - g < 1
    BY <1>2 DEF Ses, ClientOne, Out, OneAtATime
  <1>5. s = 0 /\ b = 0 /\ m = 0 /\ a = 0 /\ z = g
    <2>. HIDE DEF s, b, m, g, z, a
    <2>. QED
      BY <1>3, <1>4
  <1>6. cToR[c] = NULL /\ middle[c] = <<>>
    <2>1. middle[c] \in Seq(Reply)
      BY ClientLengths
    <2>. QED
      BY <1>5, <2>1, EmptySeq DEF Asked
  <1>7. ClientOne(c)'
    <2>1. Len(sock'[c]) = 1
      <3>1. sock[c] \in Seq(Command) /\ sock'[c] = Append(sock[c], x)
        BY <1>1 DEF ClientInv, ClientType
      <3>2. Len(Append(sock[c], x)) = Len(sock[c]) + 1
        BY <3>1
      <3>. QED
        BY <1>5, <3>1, <3>2
    <2>2. Out(c)' = 1 + 0 + 0 + 0
      BY <1>2, <1>5, <2>1 DEF Out, Asked, mapVars
    <2>3. sent'[c] = g + 1 /\ got'[c] = got[c] /\ middle'[c] = <<>> /\ cToR'[c] = NULL
      BY <1>2, <1>5, <1>6 DEF ClientInv, ClientType, mapVars
    <2>4. Out(c)' + g <= sent'[c] /\ sent'[c] <= g + 1
      <3>. HIDE DEF g
      <3>. QED
        BY <1>3, <2>2, <2>3
    <2>5. Range(<<>>) = {}
      BY EmptyOnce
    <2>. QED
      BY <2>3, <2>4, <2>5 DEF ClientOne
  <1>8. ASSUME NEW d \in Client, d # c PROVE ClientOne(d)'
    <2>1. ClientSame(d)
      BY <1>1, <1>2, <1>8 DEF ClientSame, SameClient, ClientInv, ClientType, mapVars
    <2>. QED
      BY <2>1, SameClientOne DEF Ses
  <1>9. ASSUME NEW r \in Redis PROVE LineOne(r)'
    <2>1. rToC[r] # c
      BY <1>6, SizeAssumption DEF Ses, LineOne, Redis, NULL
    <2>2. \A d \in Client : rToC[r] = d => cToR'[d] = cToR[d] /\ sent'[d] = sent[d]
      BY <1>2, <2>1 DEF ClientInv, ClientType, mapVars
    <2>3. Under(r)' = Under(r)
      BY <1>2 DEF Under, redisVars
    <2>. QED
      BY <1>2, <2>2, <2>3, SameLineOne DEF Ses, redisVars, mapVars
  <1>10. MapsTo' /\ FreedLinks'
    BY <1>2 DEF Ses, MapsTo, FreedLinks, mapVars, poolVars
  <1>. QED
    BY <1>7, <1>8, <1>9, <1>10 DEF Ses

-----------------------------------------------------------------------------
LEMMA InitSes == SmallPool /\ Init => SesInv
  <1>. SUFFICES ASSUME SmallPool, Init PROVE SesInv
    OBVIOUS
  <1>1. OwnInv
    BY InitOwn
  <1>2. Range(<<>>) = {} /\ Len(<<>>) = 0
    BY EmptyOnce, EmptySeq
  <1>3. ASSUME NEW c \in Client PROVE ClientOne(c)
    <2>1. /\ sock[c] = <<>> /\ inbuf[c] = <<>> /\ middle[c] = <<>> /\ got[c] = <<>>
          /\ sent[c] = 0 /\ isQuit[c] = FALSE /\ cToR[c] = NULL
      BY DEF Init
    <2>2. Out(c) = 0 + 0 + 0 + 0
      BY <1>2, <2>1 DEF Out, Asked
    <2>. QED
      BY <1>2, <2>1, <2>2 DEF ClientOne
  <1>4. ASSUME NEW r \in Redis PROVE LineOne(r)
    <2>1. rNum[r] = 0 /\ rBlock[r] = FALSE /\ rOpen[r] = TRUE /\ rToC[r] = NoClient
      BY DEF Init
    <2>2. Under(r) = {}
      BY <1>1, <2>1, UnusedEmpty DEF OwnInv, Inv
    <2>. QED
      BY <2>1, <2>2, WorkerAssumption DEF LineOne
  <1>5. MapsTo
    BY DEF Init, MapsTo
  <1>6. FreedLinks
    BY SizeAssumption DEF Init, PoolInit, FreedLinks, Redis
  <1>. QED
    BY <1>1, <1>3, <1>4, <1>5, <1>6 DEF SesInv, Ses

LEMMA NextSes == NoTransactions /\ SmallPool /\ OneAtATime /\ SesInv /\ [Next]_vars => SesInv'
  <1>. SUFFICES ASSUME NoTransactions, SmallPool, OneAtATime, SesInv, [Next]_vars PROVE SesInv'
    OBVIOUS
  <1>1. OwnInv'
    BY NextOwn DEF SesInv
  <1>2. ASSUME UNCHANGED <<poolVars, redisVars, mapVars, sock, inbuf, sent, middle, got, isQuit>>,
               dropped' = dropped,
               \A d \in Client : conn'[d] = conn[d] \/ cToR[d] = NULL
        PROVE  Ses'
    <2>1. \A s \in Redis : Under(s)' = Under(s)
      BY <1>2 DEF redisVars, Under
    <2>. QED
      BY <1>2, <2>1, QuietSes DEF poolVars, redisVars, mapVars
  <1>3. ASSUME UNCHANGED vars PROVE Ses'
    BY <1>2, <1>3 DEF vars, clientVars
  <1>4. ASSUME NEW c \in Client, PeerClose(c) PROVE Ses'
    BY <1>2, <1>4 DEF PeerClose
  <1>5. ASSUME NEW c \in Client, AcceptC(c) PROVE Ses'
    <2>1. cToR[c] = NULL
      BY <1>5 DEF AcceptC, SesInv, Ses, ClientOne
    <2>2. \A d \in Client : conn'[d] = conn[d] \/ cToR[d] = NULL
      BY <1>5, <2>1 DEF AcceptC, SesInv, OwnInv, Inv, ClientInv, ClientType
    <2>3. ASSUME NEW r \in Mapped PROVE conn[rToC[r]] = "open"
      <3>1. r \in Redis /\ rToC[r] \in Client /\ r # NULL
        BY SizeAssumption DEF Mapped, SesInv, OwnInv, Inv, MapType, Redis, NULL
      <3>2. cToR[rToC[r]] = r
        BY <3>1 DEF SesInv, Ses, LineOne
      <3>. QED
        BY <3>1, <3>2 DEF SesInv, Ses, ClientOne
    <2>4. UNCHANGED mapVars
      BY <1>5, <2>3 DEF AcceptC, TakesStructOf
    <2>. QED
      BY <1>2, <1>5, <2>2, <2>4 DEF AcceptC
  <1>6. ASSUME NEW r \in Redis, RedisAnswer(r) PROVE Ses'
    <2>1. \A s \in Redis : Under(s)' \subseteq Under(s)
      BY <1>6, AnswerFits DEF LineFits, SesInv, OwnInv, Inv
    <2>. QED
      BY <1>6, <2>1, QuietSes DEF RedisAnswer, poolVars, clientVars, mapVars
  <1>7. ASSUME NEW r \in Redis, RedisClose(r) PROVE Ses'
    <2>1. \A s \in Redis : Under(s)' = Under(s)
      BY <1>7 DEF RedisClose, Under
    <2>. QED
      BY <1>7, <2>1, QuietSes DEF RedisClose, poolVars, clientVars, mapVars
  <1>8. Ses'
    BY <1>3, <1>4, <1>5, <1>6, <1>7, SendSes, ReadCSes, WriteCSes, WriteRSes, ReadRSes DEF Next
  <1>. QED
    BY <1>1, <1>8 DEF SesInv

-----------------------------------------------------------------------------
(* The walk along the free list meets only connections without a client,   *)
(* as long as the pool hands out listed ones.                              *)
LEMMA FreeUnused ==
  ASSUME SesInv, avalidNum > 0
  PROVE  Mapped \cap Free = {}
  <1>. USE DEF SesInv, OwnInv, Inv
  <1>. DEFINE S == Redis \cup {NULL}
              Follow == [r \in Redis \cup {NULL} |-> IF r = NULL THEN NULL ELSE next[r]]
              Unused == {r \in S : r = NULL \/ rToC[r] = NoClient}
  <1>1. NRedis \in Nat /\ NULL \notin Redis
    BY SizeAssumption DEF NULL, Redis
  <1>2. Follow \in [S -> S] /\ redises \in S
    BY DEF PoolInv, PoolTypeOK
  <1>3. Iterated(Node, S, redises, Follow, NRedis)
    <2>. DEFINE Raw(f) == [k \in 0 .. NRedis |-> IF k = 0 THEN redises ELSE Follow[f[k - 1]]]
                w == CHOOSE f : f = Raw(f)
    <2>1. Node = w
      BY DEF Node
    <2>. HIDE DEF S, Follow
    <2>2. PICK f : Iterated(f, S, redises, Follow, NRedis)
      BY <1>1, <1>2, Iterates
    <2>3. f = Raw(f)
      BY <1>1, <2>2 DEF Iterated
    <2>4. w = Raw(w)
      BY <2>3
    <2>. HIDE DEF w
    <2>5. w = [k \in 0 .. NRedis |-> w[k]] /\ w[0] = redises
          /\ \A k \in 1 .. NRedis : w[k] = Follow[w[k - 1]]
      BY <1>1, <2>4
    <2>6. Iterated(w, S, redises, Follow, NRedis)
      BY <1>1, <1>2, <2>5, Unfolds
    <2>. QED
      BY <2>1, <2>6
  <1>4. redises \in Unused
    BY <1>2 DEF Lending, NotLent, CountInv, Counted
  <1>5. ASSUME NEW r \in Unused PROVE Follow[r] \in Unused
    <2>1. CASE r = NULL
      BY <2>1
    <2>2. CASE r # NULL
      <3>1. r \in Redis /\ Follow[r] = next[r] /\ next[r] \in S
        BY <2>2 DEF PoolInv, PoolTypeOK
      <3>2. CASE r \notin alive
        BY <3>1, <3>2 DEF Ses, FreedLinks
      <3>3. CASE r \in alive /\ next[r] \in alive
        BY <3>1, <3>3 DEF Lending, NotLent
      <3>4. CASE next[r] \notin alive
        BY <3>1, <3>4 DEF CountInv, Counted
      <3>. QED
        BY <3>2, <3>3, <3>4
    <2>. QED
      BY <2>1, <2>2
  <1>6. \A k \in 0 .. NRedis : Node[k] \in Unused
    <2>. DEFINE T == {k \in 0 .. NRedis : Node[k] \in Unused}
    <2>. HIDE DEF S, Follow, Unused
    <2>1. Node[0] = redises /\ \A k \in 1 .. NRedis : Node[k] = Follow[Node[k - 1]]
      BY <1>3 DEF Iterated
    <2>2. 0 \in T
      BY <1>1, <1>4, <2>1
    <2>3. ASSUME NEW k \in 1 .. NRedis, k - 1 \in T PROVE k \in T
      BY <1>1, <1>5, <2>1, <2>3
    <2>. HIDE DEF T
    <2>4. \A k \in 0 .. NRedis : k \in T
      BY <1>1, <2>2, <2>3, Inductive
    <2>. QED
      BY <2>4 DEF T
  <1>7. ASSUME NEW i \in DOMAIN Chain PROVE Chain[i] \in Unused
    <2>. DEFINE linked == {k \in 0 .. NRedis : Node[k] # NULL}
                w == Cardinality(linked)
    <2>1. w \in Nat /\ w <= NRedis + 1
      <3>1. IsFiniteSet(0 .. NRedis) /\ Cardinality(0 .. NRedis) = NRedis + 1
        BY <1>1, FS_Interval
      <3>2. linked \in SUBSET (0 .. NRedis)
        OBVIOUS
      <3>. HIDE DEF linked
      <3>. QED
        BY <3>1, <3>2, FS_Subset, FS_CardinalityType
    <2>2. Chain = [j \in 1 .. w |-> Node[j - 1]]
      BY DEF Chain
    <2>. HIDE DEF w, linked, Unused
    <2>3. i \in 1 .. w /\ Chain[i] = Node[i - 1]
      BY <1>7, <2>2
    <2>4. i - 1 \in 0 .. NRedis
      BY <1>1, <2>1, <2>3
    <2>. QED
      BY <1>6, <2>3, <2>4
  <1>8. Free \subseteq Unused
    <2>. HIDE DEF Unused
    <2>. QED
      BY <1>7 DEF Free
  <1>. QED
    BY <1>1, <1>8 DEF Mapped

LEMMA SesMaps == SesInv => MapsInverse
  <1>. SUFFICES ASSUME SesInv, ~dropped, NEW c \in Client, NEW r \in Redis
                PROVE  cToR[c] = r <=> rToC[r] = c
    BY DEF MapsInverse
  <1>1. rToC[r] = c => cToR[c] = r
    BY DEF SesInv, Ses, LineOne
  <1>2. cToR[c] = r => rToC[r] = c
    BY SizeAssumption DEF SesInv, Ses, MapsTo, Redis, NULL
  <1>. QED
    BY <1>1, <1>2

LEMMA SesDangles == SesInv => NoDangling
  <1>. SUFFICES ASSUME SesInv, ~dropped
                PROVE  /\ \A c \in Client : cToR[c] \in alive \cup {NULL}
                       /\ \A r \in Mapped : r \in alive /\ conn[rToC[r]] = "open"
                       /\ avalidNum > 0 => Mapped \cap Free = {}
    BY DEF NoDangling
  <1>. USE DEF SesInv, OwnInv, Inv
  <1>1. \A c \in Client : cToR[c] \in alive \cup {NULL}
    BY WorkerAssumption DEF Ses, MapsTo, MapType, CountInv, Counted
  <1>2. ASSUME NEW r \in Mapped PROVE r \in alive /\ conn[rToC[r]] = "open"
    <2>1. r \in Redis /\ rToC[r] # NoClient /\ rToC[r] \in Client
      BY <1>2 DEF Mapped, MapType
    <2>2. cToR[rToC[r]] = r /\ r # NULL
      BY <2>1, SizeAssumption DEF Ses, LineOne, Redis, NULL
    <2>. QED
      BY <2>1, <2>2 DEF Ses, ClientOne, CountInv, Counted
  <1>. QED
    BY <1>1, <1>2, FreeUnused

-----------------------------------------------------------------------------
(* With one command at a time the maps of the worker are inverse to each   *)
(* other until Redis closes a connection: replies go to the client whose   *)
(* command they answer.                                                    *)
THEOREM MapsStayInverse ==
  ASSUME NoTransactions, SmallPool, OneAtATime PROVE Spec => []MapsInverse
  <1>1. SesInv /\ [Next]_vars => SesInv'
    BY NextSes
  <1>2. Init => SesInv
    BY InitSes
  <1>. QED
    BY <1>1, <1>2, SesMaps, PTL DEF Spec

(* Nor do they name a freed connection or a client that is gone, and no    *)
(* connection that has a client is on the free list while the pool hands   *)
(* out what is there.                                                      *)
THEOREM NothingDangles ==
  ASSUME NoTransactions, SmallPool, OneAtATime PROVE Spec => []NoDangling
  <1>1. SesInv /\ [Next]_vars => SesInv'
    BY NextSes
  <1>2. Init => SesInv
    BY InitSes
  <1>. QED
    BY <1>1, <1>2, SesDangles, PTL DEF Spec

-----------------------------------------------------------------------------
(* What is written to a client is the reply it waits for.                  *)
LEMMA NextReply ==
  ASSUME ClientInv, NEW c \in Client, ClientOne(c), middle[c] # <<>>
  PROVE  Len(got[c]) < sent[c] /\ got[c] \o middle[c] = Append(got[c], <<c, Len(got[c]) + 1>>)
  <1>. DEFINE x == <<c, sent[c]>>
              m == Len(middle[c])
  <1>1. m \in Nat /\ middle[c] \in Seq(Reply) /\ Len(got[c]) \in Nat /\ got[c] \in Seq(Reply)
    BY ClientLengths
  <1>2. m # 0
    BY <1>1, EmptySeq
  <1>3. m = 1 /\ sent[c] = Len(got[c]) + 1
    <2>1. /\ Len(sock[c]) \in Nat /\ Len(inbuf[c]) \in Nat /\ Asked(c) \in {0, 1}
          /\ Len(sock[c]) + Len(inbuf[c]) + m + Asked(c) <= 1
          /\ Len(sock[c]) + Len(inbuf[c]) + m >= 1 => sent[c] = Len(got[c]) + 1
      BY ClientLengths, OneOut
    <2>. HIDE DEF m
    <2>2. \A i, j \in Nat, a \in {0, 1} : i + j + m + a <= 1 => m = 1 /\ i + j + m >= 1
      BY <1>1, <1>2
    <2>. QED
      BY <2>1, <2>2
  <1>4. DOMAIN middle[c] = 1 .. 1 /\ middle[c][1] = x /\ x \in Reply
    <2>1. DOMAIN middle[c] = 1 .. 1
      BY <1>1, <1>3, LenProperties
    <2>2. middle[c][1] \in Range(middle[c]) /\ middle[c][1] \in Reply
      BY <1>1, <2>1, ElementOfSeq DEF Range
    <2>. QED
      BY <2>1, <2>2 DEF ClientOne
  <1>5. middle[c] = <<x>>
    <2>. HIDE DEF x
    <2>1. <<x>> \in Seq(Reply) /\ Len(<<x>>) = 1 /\ <<x>>[1] = x
      BY <1>4
    <2>. QED
      BY <1>1, <1>3, <1>4, <2>1, SeqEqual DEF m
  <1>6. Append(got[c], x) = got[c] \o <<x>>
    <2>. HIDE DEF x
    <2>. QED
      BY <1>1, <1>4, AppendIsConcat
  <1>. QED
    BY <1>1, <1>3, <1>5, <1>6

(* Every step of a worker is one of Session's, or changes nothing there.   *)
LEMMA SessionStep ==
  ASSUME SesInv, [Next]_vars
  PROVE  [SessionOf!Next]_(SessionOf!vars)
  <1>. USE DEF SesInv, OwnInv, Inv
  <1>. SUFFICES ASSUME Next PROVE SessionOf!Next \/ UNCHANGED <<conn, sent, got>>
    BY DEF vars, clientVars, SessionOf!vars
  <1>1. ASSUME NEW c \in Client, conn[c] = "open", RemoveClient(c), UNCHANGED <<sent, got>>
        PROVE  SessionOf!Next
    <2>1. SessionOf!Close(c)
      BY <1>1 DEF RemoveClient, SessionOf!Close
    <2>. QED
      BY <2>1 DEF SessionOf!Next
  <1>2. ASSUME NEW c \in Client, Send(c) PROVE SessionOf!Next
    <2>1. SessionOf!Send(c)
      BY <1>2 DEF Send, SessionOf!Send
    <2>. QED
      BY <2>1 DEF SessionOf!Next
  <1>3. ASSUME NEW c \in Client, AcceptC(c) PROVE SessionOf!Next
    <2>1. SessionOf!Connect(c)
      BY <1>3 DEF AcceptC, SessionOf!Connect
    <2>. QED
      BY <2>1 DEF SessionOf!Next
  <1>4. ASSUME NEW c \in Client, ReadC(c) PROVE SessionOf!Next \/ UNCHANGED <<conn, sent, got>>
    <2>1. \/ Fault
          \/ RemoveClient(c) /\ UNCHANGED <<sent, got>>
          \/ UNCHANGED <<conn, sent, got>>
      BY <1>4 DEF ReadC, ReadCEof, ReadCData, RemoveFault
    <2>. QED
      BY <1>1, <1>4, <2>1 DEF ReadC, Fault, clientVars
  <1>5. ASSUME NEW c \in Client, WriteC(c) PROVE SessionOf!Next \/ UNCHANGED <<conn, sent, got>>
    <2>1. conn[c] = "open"
      BY <1>5 DEF WriteC
    <2>2. CASE WriteCQuit(c) \/ WriteCFull(c) \/ WriteCFail(c)
      <3>1. \/ RemoveClient(c) /\ UNCHANGED <<sent, got>>
            \/ UNCHANGED <<conn, sent, got>>
        BY <2>2 DEF WriteCQuit, WriteCFull, WriteCFail, RemoveFault, Fault, BrokenPipe, clientVars
      <3>. QED
        BY <1>1, <2>1, <3>1
    <2>3. CASE WriteCSend(c) /\ ~Fault
      <3>1. /\ middle[c] # <<>> /\ sent' = sent
            /\ RemoveClient(c) \/ conn' = conn
            /\ got' = [got EXCEPT ![c] = IF peerOpen[c] THEN @ \o middle[c] ELSE @]
        BY <2>3 DEF WriteCSend, RemoveFault
      <3>2. CASE peerOpen[c]
        <4>1. /\ Len(got[c]) < sent[c]
              /\ got[c] \o middle[c] = Append(got[c], <<c, Len(got[c]) + 1>>)
          BY <3>1, NextReply DEF Ses
        <4>2. got' = [got EXCEPT ![c] = Append(@, <<c, Len(@) + 1>>)]
          BY <3>1, <3>2, <4>1
        <4>3. conn' \in {conn, [conn EXCEPT ![c] = "gone"]}
          BY <3>1 DEF RemoveClient
        <4>4. SessionOf!Answer(c)
          BY <2>1, <3>1, <4>1, <4>2, <4>3 DEF SessionOf!Answer
        <4>. QED
          BY <4>4 DEF SessionOf!Next
      <3>3. CASE ~peerOpen[c]
        <4>1. got' = got
          BY <3>1, <3>3 DEF ClientInv, ClientType
        <4>. QED
          BY <1>1, <2>1, <3>1, <4>1
      <3>. QED
        BY <3>2, <3>3
    <2>4. CASE Fault
      BY <2>4 DEF Fault, clientVars
    <2>. QED
      BY <1>5, <2>2, <2>3, <2>4 DEF WriteC
  <1>6. ASSUME NEW c \in Client, PeerClose(c) PROVE UNCHANGED <<conn, sent, got>>
    BY <1>6 DEF PeerClose
  <1>7. ASSUME NEW r \in Redis, RedisAnswer(r) \/ RedisClose(r) PROVE UNCHANGED <<conn, sent, got>>
    BY <1>7 DEF RedisAnswer, RedisClose, clientVars
  <1>8. ASSUME NEW r \in Redis, WriteR(r) PROVE UNCHANGED <<conn, sent, got>>
    BY <1>8 DEF WriteR, WriteRSend, WriteRFull, WriteRFail, BrokenPipe, clientVars
  <1>9. ASSUME NEW r \in Redis, ReadR(r) PROVE UNCHANGED <<conn, sent, got>>
    BY <1>9 DEF ReadR, Fault, ReadROrphan, ReadREof, ReadRData, clientVars
  <1>. QED
    BY <1>2, <1>3, <1>4, <1>5, <1>6, <1>7, <1>8, <1>9 DEF Next

(* A worker keeps the promise of Session: a client that sends one command  *)
(* at a time gets the replies to its own commands in the order it sent     *)
(* them, each once and none left out, until the worker closes its          *)
(* connection.                                                             *)
THEOREM SessionKept ==
  ASSUME NoTransactions, SmallPool, OneAtATime PROVE Spec => KeepsSession
  <1>1. SesInv /\ [Next]_vars => SesInv'
    BY NextSes
  <1>2. Init => SesInv /\ SessionOf!Init
    BY InitSes DEF Init, SessionOf!Init
  <1>3. SesInv /\ [Next]_vars => [SessionOf!Next]_(SessionOf!vars)
    BY SessionStep
  <1>. QED
    BY <1>1, <1>2, <1>3, PTL DEF Spec, KeepsSession, SessionOf!Spec
=============================================================================
