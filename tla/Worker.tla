------------------------------- MODULE Worker -------------------------------
(***************************************************************************)
(* One worker process (src/src/net/server.c): the event loop that relays   *)
(* commands from clients to Redis and replies back.  The event thread runs *)
(* one handler at a time, so each call of readC, writeC, readR or writeR   *)
(* is one action; clients, the Redis server and the network act between    *)
(* any two of them.                                                        *)
(*                                                                         *)
(* A command is a record [n, kind] and its reply the pair <<client, n>>:   *)
(* bytes and framing belong to the parser, and a read delivers whole       *)
(* commands and whole replies.  The maps cToR and rToC are functions       *)
(* (hash.c).  A client stands for its fd and its client struct, a redis    *)
(* for its struct and its fd.  Either struct may be allocated again after  *)
(* a free: a redis then is the same one, a client is another (see `was').  *)
(***************************************************************************)
EXTENDS Pool

CONSTANTS Client,
          NoClient,
          MaxCmd,      \* commands one client sends
          Window,      \* commands a client has unanswered at most
          Env          \* what the environment does, see EnvKinds

EnvKinds == {"client_closes",   \* clients disconnect
             "redis_drops",     \* Redis closes connections that are in use
             "idle_drops",      \* Redis closes connections that are not
             "send_blocks",     \* a socket's send buffer is full at times
             "multi",           \* clients use MULTI and EXEC
             "malformed",       \* clients break the protocol
             "garbage"}         \* malloc'd memory is not zero

ASSUME WorkerAssumption ==
    /\ NoClient \notin Client
    /\ MaxCmd \in Nat /\ Window \in Nat \ {0}
    /\ Env \subseteq EnvKinds

Kinds == {"plain"} \cup (IF "multi" \in Env THEN {"multi", "exec"} ELSE {})
                   \cup (IF "malformed" \in Env THEN {"bad"} ELSE {})

VARIABLES
    conn,       \* "new", "open", "parked" (accepted, never served), "gone"
    peerOpen,   \* the client has not closed its end
    sock,       \* commands in the socket, not read yet
    inbuf,      \* commands in c->cmd, read and not processed yet
    isQuit,
    isBlock,    \* the client is between MULTI and EXEC
    middle,     \* replies in c->middle, to be written to the client
    sent,       \* number of commands the client has sent
    got,        \* replies the client has received
    cToR,       \* service->cToR
    rToC,       \* service->rToC
    was,        \* history: clients whose struct a client was given while rToC
                \* still named them
    rmiddle,    \* commands in r->c->middle, to be written to Redis
    rqueue,     \* commands Redis has not answered
    replies,    \* replies in the Redis socket, not read yet
    rinbuf,     \* replies in r->c->cmd, read and not processed yet
    rNum,       \* r->c->rNum, the replies readR waits for
    rBlock,     \* r->c->isBlock
    rOpen,      \* Redis has not closed its end
    again,      \* errno is EAGAIN, left by a send
    killed,     \* the worker died of SIGPIPE
    dropped     \* history: Redis has closed a connection

clientVars == <<conn, peerOpen, sock, inbuf, isQuit, isBlock, middle, sent, got>>
redisVars  == <<rmiddle, rqueue, replies, rinbuf, rNum, rBlock, rOpen>>
mapVars    == <<cToR, rToC, was>>
vars == <<poolVars, clientVars, redisVars, mapVars, again, killed, dropped>>

Command == [n : 1 .. MaxCmd, kind : {"plain", "multi", "exec", "bad"}]
Reply   == Client \X (1 .. MaxCmd)

Mapped == {r \in Redis : rToC[r] # NoClient}
Free   == LET chain == Chain IN {chain[i] : i \in DOMAIN chain}

-----------------------------------------------------------------------------
Init ==
    /\ PoolInit
    /\ conn = [c \in Client |-> "new"]
    /\ peerOpen = [c \in Client |-> TRUE]
    /\ sock = [c \in Client |-> <<>>]
    /\ inbuf = [c \in Client |-> <<>>]
    /\ isQuit = [c \in Client |-> FALSE]
    /\ isBlock = [c \in Client |-> FALSE]
    /\ middle = [c \in Client |-> <<>>]
    /\ sent = [c \in Client |-> 0]
    /\ got = [c \in Client |-> <<>>]
    /\ cToR = [c \in Client |-> NULL]
    /\ rToC = [r \in Redis |-> NoClient]
    /\ was = [c \in Client |-> {}]
    /\ rmiddle = [r \in Redis |-> <<>>]
    /\ rqueue = [r \in Redis |-> <<>>]
    /\ replies = [r \in Redis |-> <<>>]
    /\ rinbuf = [r \in Redis |-> <<>>]
    /\ rNum = [r \in Redis |-> 0]
    /\ rBlock = [r \in Redis |-> FALSE]
    /\ rOpen = [r \in Redis |-> TRUE]
    /\ again = FALSE
    /\ killed = FALSE
    /\ dropped = FALSE

(* The clients.                                                            *)
Send(c) ==
    /\ conn[c] \in {"open", "parked"}
    /\ peerOpen[c]
    /\ sent[c] < MaxCmd
    /\ sent[c] - Len(got[c]) < Window
    /\ sent' = [sent EXCEPT ![c] = @ + 1]
    /\ \E k \in Kinds :
           sock' = [sock EXCEPT ![c] = Append(@, [n |-> sent[c] + 1, kind |-> k])]
    /\ UNCHANGED <<poolVars, conn, peerOpen, inbuf, isQuit, isBlock, middle, got,
                   redisVars, mapVars, again, killed, dropped>>

PeerClose(c) ==
    /\ "client_closes" \in Env
    /\ conn[c] = "open"
    /\ peerOpen[c]
    /\ peerOpen' = [peerOpen EXCEPT ![c] = FALSE]
    /\ UNCHANGED <<poolVars, conn, sock, inbuf, isQuit, isBlock, middle, sent, got,
                   redisVars, mapVars, again, killed, dropped>>

(* The Redis server answers each connection's commands in order.           *)
RedisAnswer(r) ==
    /\ r \in alive /\ rOpen[r] /\ rqueue[r] # <<>>
    /\ replies' = [replies EXCEPT ![r] = Append(@, Head(rqueue[r]))]
    /\ rqueue' = [rqueue EXCEPT ![r] = Tail(@)]
    /\ UNCHANGED <<poolVars, clientVars, rmiddle, rinbuf, rNum, rBlock, rOpen,
                   mapVars, again, killed, dropped>>

RedisClose(r) ==
    /\ r \in alive /\ rOpen[r]
    /\ (IF r \in Mapped THEN "redis_drops" ELSE "idle_drops") \in Env
    /\ rOpen' = [rOpen EXCEPT ![r] = FALSE]
    /\ dropped' = TRUE
    /\ UNCHANGED <<poolVars, clientVars, rmiddle, rqueue, replies, rinbuf, rNum, rBlock,
                   mapVars, again, killed>>

-----------------------------------------------------------------------------
(* The struct malloc gives to client c is that of d, which has left; what  *)
(* entries of rToC still name d then name c.                               *)
TakesStructOf(c, d) ==
    /\ conn[d] = "gone"
    /\ rToC' = [r \in Redis |-> IF rToC[r] = d THEN c ELSE rToC[r]]
    /\ was' = [was EXCEPT ![c] = @ \cup {d} \cup was[d]]
    /\ UNCHANGED cToR

(* acceptC, in the accept thread.  A worker that has granted MaxNum        *)
(* connections puts the client aside for another worker.  newClient does   *)
(* not set isBlock.                                                        *)
AcceptC(c) ==
    /\ conn[c] = "new"
    /\ IF activeNum >= MaxNum
       THEN conn' = [conn EXCEPT ![c] = "parked"] /\ UNCHANGED <<isBlock, mapVars>>
       ELSE /\ conn' = [conn EXCEPT ![c] = "open"]
            /\ \E b \in IF "garbage" \in Env THEN BOOLEAN ELSE {FALSE} :
                   isBlock' = [isBlock EXCEPT ![c] = b]
            /\ UNCHANGED mapVars \/ \E r \in Mapped : TakesStructOf(c, rToC[r])
    /\ UNCHANGED <<poolVars, peerOpen, sock, inbuf, isQuit, middle, sent, got,
                   redisVars, again, killed, dropped>>

(* What a freed redis leaves behind: nothing, for the next one at its      *)
(* address.                                                                *)
ForgetRedis(r) ==
    /\ rmiddle' = [rmiddle EXCEPT ![r] = <<>>]
    /\ rqueue' = [rqueue EXCEPT ![r] = <<>>]
    /\ replies' = [replies EXCEPT ![r] = <<>>]
    /\ rinbuf' = [rinbuf EXCEPT ![r] = <<>>]
    /\ rNum' = [rNum EXCEPT ![r] = 0]
    /\ rBlock' = [rBlock EXCEPT ![r] = FALSE]
    /\ rOpen' = [rOpen EXCEPT ![r] = TRUE]

Drop(r) == DelRedis(r) /\ ForgetRedis(r)

(* Both hash entries of a client and its connection are removed.           *)
Unmap_KeepCToR(r, c) == rToC' = [rToC EXCEPT ![r] = NoClient] /\ UNCHANGED <<cToR, was>>
Unmap_Never(r, c)    == UNCHANGED mapVars
Unmap(r, c) ==
    /\ rToC' = [rToC EXCEPT ![r] = NoClient]
    /\ cToR' = [cToR EXCEPT ![c] = NULL]
    /\ UNCHANGED was

(* The handler follows a freed pointer.                                    *)
Fault == Crash /\ UNCHANGED <<clientVars, redisVars, mapVars, again, killed, dropped>>

(* Lines 437-445 of readC, and removeByC: the connection c uses is taken   *)
(* out of both maps and deleted, and c is closed and freed.                *)
RemoveClient(c) ==
    /\ cToR[c] \in alive \cup {NULL}
    /\ IF cToR[c] = NULL
       THEN UNCHANGED <<poolVars, redisVars, mapVars>>
       ELSE Drop(cToR[c]) /\ Unmap(cToR[c], c)
    /\ conn' = [conn EXCEPT ![c] = "gone"]
    /\ sock' = [sock EXCEPT ![c] = <<>>]
    /\ inbuf' = [inbuf EXCEPT ![c] = <<>>]
    /\ middle' = [middle EXCEPT ![c] = <<>>]

RemoveFault(c) == cToR[c] \notin alive \cup {NULL} /\ Fault

-----------------------------------------------------------------------------
(* processClient: the commands before the first malformed one, and the     *)
(* block state after them (a MULTI in block state and an EXEC outside it   *)
(* change nothing, so the last of either decides).                         *)
Good(cmds) ==
    LET bad == {i \in DOMAIN cmds : cmds[i].kind = "bad"}
    IN  IF bad = {} THEN cmds
        ELSE SubSeq(cmds, 1, (CHOOSE i \in bad : \A j \in bad : i <= j) - 1)
BlockAfter(b, cmds) ==
    LET marks == {i \in DOMAIN cmds : cmds[i].kind \in {"multi", "exec"}}
    IN  IF marks = {} THEN b
        ELSE \E i \in marks : cmds[i].kind = "multi" /\ \A j \in marks : j <= i

Quit_Never(c) == UNCHANGED isQuit
Quit(c)       == isQuit' = [isQuit EXCEPT ![c] = TRUE]

(* readC:518-519; reset and count swapped in the mutant.                   *)
Await_ResetFirst(r, n) == UNCHANGED rNum
Await(r, n)            == rNum' = [rNum EXCEPT ![r] = @ + n]

(* Lines 485-520 of readC: hand the commands to r.  The maps are only set  *)
(* when the client is not in block state after the commands.               *)
Forward(c, r, cmds) ==
    LET b == BlockAfter(isBlock[c], cmds)
    IN  /\ rmiddle' = [rmiddle EXCEPT ![r] =
                          @ \o [i \in DOMAIN cmds |-> <<c, cmds[i].n>>]]
        /\ Await(r, Len(cmds))
        /\ rBlock' = [rBlock EXCEPT ![r] = b]
        /\ isBlock' = [isBlock EXCEPT ![c] = b]
        /\ IF b THEN UNCHANGED mapVars
           ELSE /\ cToR' = [cToR EXCEPT ![c] = r]
                /\ rToC' = [rToC EXCEPT ![r] = c]
                /\ UNCHANGED was
        /\ UNCHANGED <<isQuit, rqueue, replies, rinbuf, rOpen>>

(* getRedis and then delRedis or putRedis of its result in one handler.    *)
GetThenGiveUp(r, del) ==
    /\ \/ avalidNum > 0 /\ r = redises /\ r \in alive
       \/ avalidNum = 0 /\ activeNum < MaxNum /\ r \in Redis \ alive
    /\ avalidNum' = IF avalidNum > 0 THEN avalidNum - 1 ELSE 0
    /\ activeNum' = activeNum + 1
    /\ LET fresh == avalidNum = 0
           link  == IF fresh THEN NULL ELSE next[r]
       IN  IF del
           THEN /\ redises' = link
                /\ next' = [next EXCEPT ![r] = NULL]
                /\ alive' = alive \ {r}
           ELSE /\ redises' = r
                /\ next' = [next EXCEPT ![r] = IF fresh THEN redises ELSE link]
                /\ alive' = alive \cup {r}
    /\ UNCHANGED crashed

(* Lines 453-521 of readC, for a client outside block state ...            *)
ProcessNormal(c, cmds) ==
    LET good == Good(cmds)
        b    == BlockAfter(FALSE, good)
    IN  \/ /\ PoolRefuses \/ (avalidNum = 0 /\ "redis_drops" \in Env)
           /\ Quit(c)
           /\ UNCHANGED <<poolVars, isBlock, redisVars, mapVars>>
        \/ \E r \in Redis :
              IF good = cmds
              THEN GetRedis(r) /\ Forward(c, r, cmds)
              ELSE /\ GetThenGiveUp(r, b)
                   /\ IF b THEN ForgetRedis(r) ELSE UNCHANGED redisVars
                   /\ Quit(c)
                   /\ isBlock' = [isBlock EXCEPT ![c] = b]
                   /\ UNCHANGED mapVars

(* ... and in it: the connection is the one cToR names.                    *)
ProcessBlocked(c, cmds) ==
    LET good == Good(cmds)
        b    == BlockAfter(TRUE, good)
        r    == cToR[c]
    IN  \/ r = NULL /\ Quit(c) /\ UNCHANGED <<poolVars, isBlock, redisVars, mapVars>>
        \/ /\ r \in alive
           /\ IF good = cmds
              THEN Forward(c, r, cmds) /\ UNCHANGED poolVars
              ELSE /\ IF b THEN Drop(r) ELSE PutRedis(r) /\ UNCHANGED redisVars
                   /\ Quit(c)
                   /\ isBlock' = [isBlock EXCEPT ![c] = b]
                   /\ UNCHANGED mapVars

ProcessFault(c) ==
    IF isBlock[c] THEN cToR[c] \notin alive \cup {NULL}
                  ELSE avalidNum > 0 /\ redises \notin alive

ReadCEof(c) ==
    /\ sock[c] = <<>> /\ ~peerOpen[c]
    /\ \/ RemoveClient(c) /\ UNCHANGED <<peerOpen, isQuit, isBlock, sent, got,
                                         again, killed, dropped>>
       \/ RemoveFault(c)

(* baseRead appends what the socket holds, or a part of it; a stale EAGAIN *)
(* in errno makes readC return before it looks at the bytes.               *)
ReadCData(c) ==
    \E k \in 1 .. Len(sock[c]) :
        LET cmds == inbuf[c] \o SubSeq(sock[c], 1, k)
        IN  \/ /\ sock' = [sock EXCEPT ![c] = SubSeq(@, k + 1, Len(@))]
               /\ UNCHANGED <<conn, peerOpen, middle, sent, got, again, killed, dropped>>
               /\ \/ /\ again
                     /\ inbuf' = [inbuf EXCEPT ![c] = cmds]
                     /\ UNCHANGED <<poolVars, isQuit, isBlock, redisVars, mapVars>>
                  \/ /\ ~again
                     /\ inbuf' = [inbuf EXCEPT ![c] = <<>>]
                     /\ IF isBlock[c] THEN ProcessBlocked(c, cmds)
                                      ELSE ProcessNormal(c, cmds)
            \/ ~again /\ ProcessFault(c) /\ Fault

ReadC(c) ==
    /\ conn[c] = "open"
    /\ ~isQuit[c]
    /\ ReadCEof(c) \/ ReadCData(c)

-----------------------------------------------------------------------------
(* writeC.  Writing to a closed socket may lose the bytes, fail, or raise  *)
(* SIGPIPE, whose default action nothing in the program changes.           *)
BrokenPipe ==
    /\ killed' = TRUE
    /\ UNCHANGED <<poolVars, clientVars, redisVars, mapVars, again, dropped>>

WriteCQuit(c) ==
    /\ middle[c] = <<>> /\ isQuit[c]
    /\ \/ RemoveClient(c) /\ UNCHANGED <<peerOpen, isQuit, isBlock, sent, got,
                                         again, killed, dropped>>
       \/ RemoveFault(c)

Written_Kept(c) == UNCHANGED middle
Written(c)      == middle' = [middle EXCEPT ![c] = <<>>]

WriteCSend(c) ==
    /\ middle[c] # <<>>
    /\ \/ /\ IF isQuit[c] THEN RemoveClient(c)
             ELSE /\ Written(c)
                  /\ UNCHANGED <<poolVars, conn, sock, inbuf, redisVars, mapVars>>
          /\ got' = [got EXCEPT ![c] = IF peerOpen[c] THEN @ \o middle[c] ELSE @]
          /\ UNCHANGED <<peerOpen, isQuit, isBlock, sent, again, killed, dropped>>
       \/ isQuit[c] /\ RemoveFault(c)

WriteCFull(c) ==
    /\ "send_blocks" \in Env
    /\ middle[c] # <<>> /\ peerOpen[c]
    /\ again' = TRUE
    /\ UNCHANGED <<poolVars, clientVars, redisVars, mapVars, killed, dropped>>

WriteCFail(c) ==
    /\ middle[c] # <<>> /\ ~peerOpen[c]
    /\ \/ BrokenPipe
       \/ /\ RemoveClient(c)
          /\ again' = FALSE
          /\ UNCHANGED <<peerOpen, isQuit, isBlock, sent, got, killed, dropped>>
       \/ RemoveFault(c)

WriteC(c) ==
    /\ conn[c] = "open"
    /\ WriteCQuit(c) \/ WriteCSend(c) \/ WriteCFull(c) \/ WriteCFail(c)

-----------------------------------------------------------------------------
(* writeR.  On an error removeRC takes r out of rToC before the client is  *)
(* looked up there, so the client is never found and cToR keeps the freed  *)
(* struct.                                                                 *)
WriteRSend(r) ==
    /\ rqueue' = IF rOpen[r] THEN [rqueue EXCEPT ![r] = @ \o rmiddle[r]] ELSE rqueue
    /\ rmiddle' = [rmiddle EXCEPT ![r] = <<>>]
    /\ UNCHANGED <<poolVars, clientVars, replies, rinbuf, rNum, rBlock, rOpen,
                   mapVars, again, killed, dropped>>

WriteRFull(r) ==
    /\ "send_blocks" \in Env
    /\ rOpen[r]
    /\ again' = TRUE
    /\ UNCHANGED <<poolVars, clientVars, redisVars, mapVars, killed, dropped>>

WriteRFail(r) ==
    /\ ~rOpen[r]
    /\ \/ BrokenPipe
       \/ /\ Drop(r)
          /\ rToC' = [rToC EXCEPT ![r] = NoClient]
          /\ again' = FALSE
          /\ UNCHANGED <<clientVars, cToR, was, killed, dropped>>

WriteR(r) ==
    /\ r \in alive
    /\ rmiddle[r] # <<>>
    /\ WriteRSend(r) \/ WriteRFull(r) \/ WriteRFail(r)

-----------------------------------------------------------------------------
(* readR, for a connection that has no client: it is deleted.              *)
ReadROrphan(r) ==
    /\ rToC[r] # NoClient => isQuit[rToC[r]]
    /\ Drop(r)
    /\ rToC' = [rToC EXCEPT ![r] = NoClient]
    /\ UNCHANGED <<clientVars, cToR, was, again, killed, dropped>>

ReadREof(r, c) ==
    /\ replies[r] = <<>>
    /\ Quit(c)
    /\ Drop(r)
    /\ Unmap(r, c)
    /\ UNCHANGED <<conn, peerOpen, sock, inbuf, isBlock, middle, sent, got,
                   again, killed, dropped>>

CountReplies_OneMore(r, n) == rNum' = [rNum EXCEPT ![r] = @ - n - 1]
CountReplies(r, n)         == rNum' = [rNum EXCEPT ![r] = @ - n]

(* Replies go to c; with the last one awaited the connection is returned   *)
(* to the pool, unless it is in block state.                               *)
ReadRData(r, c) ==
    \E k \in 1 .. Len(replies[r]) :
        LET new == rinbuf[r] \o SubSeq(replies[r], 1, k)
        IN  /\ replies' = [replies EXCEPT ![r] = SubSeq(@, k + 1, Len(@))]
            /\ UNCHANGED <<conn, peerOpen, sock, inbuf, isQuit, isBlock, sent, got,
                           rmiddle, rqueue, rBlock, rOpen, again, killed, dropped>>
            /\ IF again
               THEN /\ rinbuf' = [rinbuf EXCEPT ![r] = new]
                    /\ UNCHANGED <<poolVars, middle, rNum, mapVars>>
               ELSE /\ rinbuf' = [rinbuf EXCEPT ![r] = <<>>]
                    /\ middle' = [middle EXCEPT ![c] = @ \o new]
                    /\ CountReplies(r, Len(new))
                    /\ IF rBlock[r] \/ rNum[r] # Len(new)
                       THEN UNCHANGED <<poolVars, mapVars>>
                       ELSE Unmap(r, c) /\ PutRedis(r)

ReadR(r) ==
    /\ r \in alive
    /\ replies[r] # <<>> \/ ~rOpen[r]
    /\ LET c == rToC[r]
       IN  IF c # NoClient /\ conn[c] = "gone" THEN Fault
           ELSE IF c = NoClient \/ isQuit[c] THEN ReadROrphan(r)
           ELSE ReadREof(r, c) \/ ReadRData(r, c)

-----------------------------------------------------------------------------
Next ==
    /\ ~crashed /\ ~killed
    /\ \/ \E c \in Client : Send(c) \/ PeerClose(c) \/ AcceptC(c) \/ ReadC(c) \/ WriteC(c)
       \/ \E r \in Redis : RedisAnswer(r) \/ RedisClose(r) \/ WriteR(r) \/ ReadR(r)

(* The event loop dispatches every ready descriptor in each round (all     *)
(* events are persistent and level-triggered), and Redis answers.          *)
Fairness ==
    /\ \A c \in Client : WF_vars(~crashed /\ ~killed /\ ReadC(c))
                         /\ WF_vars(~crashed /\ ~killed /\ WriteC(c))
    /\ \A r \in Redis : WF_vars(~crashed /\ ~killed /\ ReadR(r))
                        /\ WF_vars(~crashed /\ ~killed /\ WriteR(r))
                        /\ WF_vars(~crashed /\ ~killed /\ RedisAnswer(r))

Spec == Init /\ [][Next]_vars
FairSpec == Spec /\ Fairness

-----------------------------------------------------------------------------
(* The types of the worker's state.                                        *)
TypeOK ==
    /\ PoolTypeOK
    /\ conn \in [Client -> {"new", "open", "parked", "gone"}]
    /\ sock \in [Client -> Seq(Command)] /\ inbuf \in [Client -> Seq(Command)]
    /\ isQuit \in [Client -> BOOLEAN] /\ isBlock \in [Client -> BOOLEAN]
    /\ middle \in [Client -> Seq(Reply)] /\ got \in [Client -> Seq(Reply)]
    /\ sent \in [Client -> 0 .. MaxCmd]
    /\ cToR \in [Client -> Redis \cup {NULL}]
    /\ rToC \in [Redis -> Client \cup {NoClient}] /\ was \in [Client -> SUBSET Client]
    /\ rmiddle \in [Redis -> Seq(Reply)] /\ rqueue \in [Redis -> Seq(Reply)]
    /\ replies \in [Redis -> Seq(Reply)] /\ rinbuf \in [Redis -> Seq(Reply)]
    /\ rNum \in [Redis -> Nat]

(* Until Redis closes a connection, cToR and rToC are inverse maps: a      *)
(* client's connection is the one whose replies go to it.                  *)
MapsInverse ==
    ~dropped => \A c \in Client, r \in Redis : cToR[c] = r <=> rToC[r] = c

(* Until Redis closes a connection, the maps only name live connections    *)
(* and open clients, so no handler finds a freed struct through them; and  *)
(* while the pool still hands out listed connections, it hands out none    *)
(* that has a client.                                                      *)
NoDangling ==
    ~dropped =>
        /\ \A c \in Client : cToR[c] \in alive \cup {NULL}
        /\ \A r \in Mapped : r \in alive /\ conn[rToC[r]] = "open"
        /\ avalidNum > 0 => Mapped \cap Free = {}

(* The replies readR still waits for are exactly the commands under way,   *)
(* and a connection without a client has nothing under way: no reply can   *)
(* reach the next client that takes it.                                    *)
UnderWay(r) == Len(rmiddle[r]) + Len(rqueue[r]) + Len(replies[r]) + Len(rinbuf[r])
RepliesAwaited ==
    \A r \in alive : /\ rOpen[r] => rNum[r] = UnderWay(r)
                     /\ rToC[r] = NoClient => rNum[r] = 0

(* No client ever receives another client's reply, or a reply twice, with  *)
(* one exception: a client that leaves with commands under way on two      *)
(* connections stays in rToC with one of them, and the next client, if it  *)
(* is given its struct, gets those replies (server.c:370-379).             *)
(* With min at most 2 this holds for any number of commands under way      *)
(* without transactions, and for two with them.  A third lets EXEC go      *)
(* through an entry of cToR that writeR has left behind (server.c:544) to  *)
(* a struct that serves another client by then.                            *)
OnlyOwn ==
    \A c \in Client :
        /\ \A i \in DOMAIN got[c] : got[c][i][1] \in {c} \cup was[c]
        /\ \A i, j \in DOMAIN got[c] : got[c][i] = got[c][j] => i = j

(* With one command at a time a worker keeps the promise of Session.       *)
SessionOf == INSTANCE Session
KeepsSession == SessionOf!Spec

(* Every command of a connected client is answered, or the client's        *)
(* connection is closed, by the worker or with it.  A client can wait for  *)
(* ever only while errno is the EAGAIN of an earlier send, or when bytes   *)
(* that were read under one - its command, or the reply - lie in a buffer  *)
(* and nothing more arrives that would have them looked at.                *)
Stalled(c) ==
    \/ again
    \/ inbuf[c] # <<>>
    \/ \E r \in Redis : rToC[r] = c /\ rinbuf[r] # <<>>
Answered ==
    \A c \in Client :
        (conn[c] = "open" /\ Len(got[c]) < sent[c])
            ~> (Len(got[c]) = sent[c] \/ conn[c] = "gone" \/ killed \/ Stalled(c))
=============================================================================
