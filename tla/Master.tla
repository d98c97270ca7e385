------------------------------- MODULE Master -------------------------------
(***************************************************************************)
(* The master process and the lives of its workers: the monitor loop of    *)
(* run (server.c:249-262), releaseChild, restartWorker, and the signal     *)
(* handlers of both sides (cmd.c).  The master knows its workers by the    *)
(* tree `children' and, when there are several, their pipes by the tree    *)
(* pToC; both are the trees of RBTree, shape and all.                      *)
(*                                                                         *)
(* A signal handler of the master may run between any two of its steps.    *)
(* Pids are handed out in ascending order, and each is used once.  A name  *)
(* with a suffix is a mutant of the one that follows it.                   *)
(***************************************************************************)
EXTENDS RBTree

CONSTANTS Sizes,        \* the choices of [server] children in rp.ini
          MaxHups,      \* bound: "restart" commands
          MaxFd,        \* bound: clients a worker has at a time, and the limit
                        \* of its tree ([client] max)
          Env           \* what the environment does, see EnvKinds

EnvKinds == {"exit", "signal", "pipe", "error",  \* how workers end by themselves
             "stop",                \* the "stop" command is given
             "fork_fails",          \* the fork of a replacement fails
             "anytime",             \* signals also come while a worker is restarted,
             "early"}               \* or while a restarted worker starts

ASSUME MasterAssumption ==
    /\ Sizes \subseteq 1 .. NNode
    /\ MaxHups \in Nat
    /\ MaxFd \in 1 .. NNode
    /\ Env \subseteq EnvKinds

Pid == Node             \* bound: NNode forks

VARIABLES
    nChildren,  \* [server] children, fixed
    pc,         \* "reap", "sleep", "restart", "forked", "ended", "crashed",
                \* or "signals": it only runs its handler, again and again
    children,   \* globals->children
    pToC,       \* service->socks->pToC
    entry,      \* what pToC stores for a pid: a "value" that holds the pipe,
                \* the pipe ("chan") taken for one, or the bytes of a pipe ("wild")
    link,       \* tmpCh of restartWorker: "chan" or "wild"
    id,         \* sc->id of restartWorker: the worker forked, 0 if none was
    isExit,     \* the master's globals->isExit
    nextPid,
    hups,
    proc,       \* "none", "starting", "serving", "dead" or "gone" (reaped)
    how,        \* the way a dead worker ended, one of the first four EnvKinds
    arg,        \* the pipe a worker was given, "chan" or "wild"
    told,       \* the worker's globals->isExit: "no", "yes", or "shut" when
                \* its accept thread has seen it
    open,       \* the fds of the worker's clients
    clients     \* service->clients, the tree that should hold them
masterVars == <<nChildren, pc, children, pToC, entry, link, id, isExit, nextPid, hups>>
workerVars == <<proc, how, arg, told, open, clients>>
vars == <<masterVars, workerVars>>

Socks == nChildren > 1

Living == {p \in Pid : proc[p] \in {"starting", "serving"}}
Dead   == {p \in Pid : proc[p] = "dead"}

(* The forks still to come for the deaths so far stay within the bound.    *)
Spare ==
    NNode + 1 - nextPid
        - Cardinality(Dead \cup {p \in Living : told[p] # "no" \/ arg[p] = "wild"})
        - (IF pc = "restart" THEN 1 ELSE 0)

(* run() has forked the workers, each put in both trees, and installed the *)
(* master's handlers.                                                      *)
Boot ==
    LET boot[i \in 0 .. nChildren] ==
            IF i = 0 THEN newTree ELSE treePut(boot[i - 1], i, nChildren)
    IN  boot[nChildren]

Init ==
    /\ nChildren \in Sizes
    /\ pc = "reap"
    /\ children = Boot
    /\ pToC = IF Socks THEN Boot ELSE newTree
    /\ entry = [p \in Pid |-> "value"]
    /\ link = "chan"
    /\ id = 0
    /\ isExit = FALSE
    /\ nextPid = nChildren + 1
    /\ hups = 0
    /\ proc = [p \in Pid |-> IF p <= nChildren THEN "starting" ELSE "none"]
    /\ how = [p \in Pid |-> "exit"]
    /\ arg = [p \in Pid |-> "chan"]
    /\ told = [p \in Pid |-> "no"]
    /\ open = [p \in Pid |-> {}]
    /\ clients = [p \in Pid |-> newTree]

-----------------------------------------------------------------------------
(* releaseChild reaps one dead worker and calls restartWorker, up to its   *)
(* last test: the pid leaves both trees, and a worker that ended as it     *)
(* should, or by a signal other than SIGPIPE, is to be replaced.           *)
Restartable_NotAfterExit(p) == how[p] = "signal" /\ ~isExit
Restartable(p)              == how[p] \in {"exit", "signal"} /\ ~isExit

Forget_NotRemoved(p) == UNCHANGED children
Forget(p)            == children' = treeRemove(children, p)

PipeKnown(p) == Socks => Lookup(pToC, p) # NIL

Reap(p) ==
    /\ pc = "reap"
    /\ p \in Dead
    /\ proc' = [proc EXCEPT ![p] = "gone"]
    /\ Forget(p)
    /\ pToC' = IF Socks THEN treeRemove(pToC, p) ELSE pToC
    /\ IF PipeKnown(p) /\ Socks /\ entry[p] = "wild"
       THEN pc' = "crashed" /\ UNCHANGED link
       ELSE /\ pc' = IF PipeKnown(p) /\ Restartable(p) THEN "restart" ELSE "reap"
            /\ link' = IF PipeKnown(p) /\ Restartable(p) /\ entry[p] = "chan" /\ Socks
                       THEN "wild" ELSE "chan"
    /\ UNCHANGED <<nChildren, entry, id, isExit, nextPid, hups, how, arg, told, open, clients>>

(* The rest of restartWorker: the fork, and then the puts.  A fork that    *)
(* fails leaves id as newSync set it, and the puts are made all the same.  *)
(* pToC is given the pipe itself instead of a mapValue that holds it       *)
(* (server.c:1267).  The worker starts with a copy of the master's isExit, *)
(* which a stop may have set since the test (server.c:1254).               *)
Fork ==
    /\ pc = "restart"
    /\ nextPid <= NNode
    /\ pc' = "forked"
    /\ id' = nextPid
    /\ nextPid' = nextPid + 1
    /\ proc' = [proc EXCEPT ![nextPid] = "starting"]
    /\ arg' = [arg EXCEPT ![nextPid] = link]
    /\ told' = [told EXCEPT ![nextPid] = IF isExit THEN "yes" ELSE "no"]
    /\ UNCHANGED <<nChildren, children, pToC, entry, link, isExit, hups, how, open, clients>>

ForkFails ==
    /\ "fork_fails" \in Env
    /\ pc = "restart"
    /\ pc' = "forked"
    /\ UNCHANGED <<nChildren, children, pToC, entry, link, id, isExit, nextPid, hups, workerVars>>

Enter_Forgotten(p) == UNCHANGED children
Enter(p)           == children' = treePut(children, p, nChildren)

Record ==
    /\ pc = "forked"
    /\ pc' = "reap"
    /\ id' = 0
    /\ Enter(id)
    /\ IF Socks
       THEN /\ pToC' = treePut(pToC, id, nChildren)
            /\ entry' = [p \in Pid |-> IF p = id THEN link ELSE entry[p]]
       ELSE UNCHANGED <<pToC, entry>>
    /\ UNCHANGED <<nChildren, link, isExit, nextPid, hups, workerVars>>

(* The loop sleeps when no child is left to reap, then ends if the tree of *)
(* children counts none.                                                   *)
Sleep ==
    /\ pc = "reap"
    /\ Dead = {}
    /\ pc' = "sleep"
    /\ UNCHANGED <<nChildren, children, pToC, entry, link, id, isExit, nextPid, hups, workerVars>>

Wake ==
    /\ pc = "sleep"
    /\ pc' = IF children.total < 1 THEN "ended" ELSE "reap"
    /\ UNCHANGED <<nChildren, children, pToC, entry, link, id, isExit, nextPid, hups, workerVars>>

-----------------------------------------------------------------------------
(* A worker that gets SIGTERM: before it installs its handlers it is       *)
(* killed, or, if forked when the master had installed its own, runs the   *)
(* master's, which only sets isExit (its other signals go to workers that  *)
(* got this one too).  Later it exits at once when it counts no client.    *)
KilledBy(p) == proc[p] = "starting" /\ p <= nChildren
ExitsNow(p) == proc[p] = "serving" /\ clients[p].total < 1
Kill(S) ==
    LET gone == {p \in S : KilledBy(p) \/ ExitsNow(p)}
    IN  /\ proc' = [p \in Pid |-> IF p \in gone THEN "dead" ELSE proc[p]]
        /\ how' = [p \in Pid |-> IF p \in gone
                                 THEN IF KilledBy(p) THEN "signal" ELSE "exit"
                                 ELSE how[p]]
        /\ told' = [p \in Pid |-> IF told[p] = "no" /\ p \in S \cap (Living \ gone)
                                  THEN "yes" ELSE told[p]]
        /\ UNCHANGED <<arg, open, clients>>

(* A kill of pid 0 goes to the process group: to every worker and, when    *)
(* the handler returns, to the master, whose handler then does the same.   *)
Deliver(pids) ==
    /\ Kill(IF 0 \in pids THEN Living ELSE pids)
    /\ pc' = IF 0 \in pids THEN "signals" ELSE pc

SignalAgain ==
    /\ pc = "signals"
    /\ Kill(Living)
    /\ UNCHANGED masterVars

MaySignal ==
    /\ pc \notin {"ended", "crashed", "signals"}
    /\ "anytime" \notin Env => pc = "sleep"
    /\ "early" \notin Env => \A p \in Living : p > nChildren => proc[p] = "serving"

(* stopParentWorker for SIGTERM, the "stop" command.                       *)
SignalStop ==
    /\ "stop" \in Env
    /\ ~isExit
    /\ MaySignal
    /\ isExit' = TRUE
    /\ Deliver(IF children.total < 1 THEN {} ELSE Keys(children))
    /\ UNCHANGED <<nChildren, children, pToC, entry, link, id, nextPid, hups>>

(* stopParentWorker for SIGHUP, the "restart" command: a new tree of       *)
(* children that only gets the first pid, as the signal is SIGTERM for the *)
(* others.                                                                 *)
SignalRestart ==
    LET pids == Keys(children)
    IN  /\ hups < MaxHups
        /\ MaySignal
        /\ Spare >= Cardinality(Living)
        /\ hups' = hups + 1
        /\ IF children.total < 1
           THEN UNCHANGED <<pc, children, isExit, workerVars>>
           ELSE /\ children' =
                       IF pids = {} THEN newTree
                       ELSE treePut(newTree, CHOOSE p \in pids : \A q \in pids : p <= q,
                                    nChildren)
                /\ Deliver(pids)
                /\ isExit' = (isExit \/ 0 \in pids)
        /\ UNCHANGED <<nChildren, pToC, entry, link, id, nextPid>>

-----------------------------------------------------------------------------
(* The worker: from installSignal(false) on it serves.  It reads its pipe  *)
(* before that.                                                            *)
Started(p) ==
    /\ proc[p] = "starting"
    /\ IF arg[p] = "wild"
       THEN proc' = [proc EXCEPT ![p] = "dead"] /\ how' = [how EXCEPT ![p] = "signal"]
       ELSE proc' = [proc EXCEPT ![p] = "serving"] /\ UNCHANGED how
    /\ UNCHANGED <<masterVars, arg, told, open, clients>>

(* acceptC puts the client in the tree under its fd, the lowest one free.  *)
(* The accept thread looks at isExit after each client (server.c:1221).    *)
ClientComes(p) ==
    LET free == (1 .. MaxFd) \ open[p]
        fd   == CHOOSE f \in free : \A g \in free : f <= g
    IN  /\ proc[p] = "serving"
        /\ free # {}
        /\ told[p] # "shut"
        /\ told' = [told EXCEPT ![p] = IF @ = "yes" THEN "shut" ELSE @]
        /\ open' = [open EXCEPT ![p] = @ \cup {fd}]
        /\ clients' = [clients EXCEPT ![p] = treePut(@, fd, MaxFd)]
        /\ UNCHANGED <<masterVars, proc, how, arg>>

(* dealRemoveClient.  When the tree counts no client, a worker that was    *)
(* told to exit does.                                                      *)
LastLeaves_Stays(p, rest) == UNCHANGED <<proc, how>>
LastLeaves(p, rest) ==
    IF told[p] # "no" /\ rest.total < 1
    THEN proc' = [proc EXCEPT ![p] = "dead"] /\ how' = [how EXCEPT ![p] = "exit"]
    ELSE UNCHANGED <<proc, how>>

ClientLeaves(p) ==
    /\ proc[p] = "serving"
    /\ \E fd \in open[p] :
           LET rest == treeRemove(clients[p], fd)
           IN  /\ open' = [open EXCEPT ![p] = @ \ {fd}]
               /\ clients' = [clients EXCEPT ![p] = rest]
               /\ LastLeaves(p, rest)
    /\ UNCHANGED <<masterVars, arg, told>>

(* A worker ends by itself: exit(-1) while it starts, a fatal signal, or   *)
(* the end of its event loop.                                              *)
Fails(p) ==
    /\ Spare > 0
    /\ p \in Living
    /\ \E h \in Env \cap {"exit", "signal", "pipe", "error"} :
           /\ h = "error" => proc[p] = "starting"
           /\ h \in {"exit", "pipe"} => proc[p] = "serving"
           /\ how' = [how EXCEPT ![p] = h]
    /\ proc' = [proc EXCEPT ![p] = "dead"]
    /\ open' = [open EXCEPT ![p] = {}]
    /\ clients' = [clients EXCEPT ![p] = newTree]
    /\ UNCHANGED <<masterVars, arg, told>>

Next ==
    \/ Fork \/ ForkFails \/ Record \/ Sleep \/ Wake
    \/ SignalStop \/ SignalRestart \/ SignalAgain
    \/ \E p \in Pid : Reap(p) \/ Started(p) \/ ClientComes(p) \/ ClientLeaves(p) \/ Fails(p)

(* The scheduler runs the master and its workers, and clients leave.       *)
Fairness ==
    /\ WF_vars(Fork \/ ForkFails \/ Record \/ Sleep \/ Wake \/ \E p \in Pid : Reap(p))
    /\ \A p \in Pid : WF_vars(Started(p)) /\ WF_vars(ClientLeaves(p))

Spec == Init /\ [][Next]_vars
FairSpec == Spec /\ Fairness

-----------------------------------------------------------------------------
(* The types of the master's and the workers' state.                       *)
TypeOK ==
    /\ nChildren \in Sizes
    /\ pc \in {"reap", "sleep", "restart", "forked", "ended", "crashed", "signals"}
    /\ children \in Tree /\ pToC \in Tree
    /\ entry \in [Pid -> {"value", "chan", "wild"}] /\ link \in {"chan", "wild"}
    /\ id \in Node0
    /\ isExit \in BOOLEAN /\ nextPid \in 1 .. NNode + 1 /\ hups \in 0 .. MaxHups
    /\ proc \in [Pid -> {"none", "starting", "serving", "dead", "gone"}]
    /\ how \in [Pid -> {"exit", "signal", "pipe", "error"}]
    /\ arg \in [Pid -> {"chan", "wild"}]
    /\ told \in [Pid -> {"no", "yes", "shut"}] /\ open \in [Pid -> SUBSET Pid]
    /\ clients \in [Pid -> Tree]

(* With one worker, between two restarts the tree of children holds        *)
(* exactly the workers that run or are not reaped yet, and 0 in the place  *)
(* of one whose fork failed, and counts them.                              *)
Tracked ==
    nChildren = 1 /\ pc \in {"reap", "sleep"} =>
        /\ Keys(children) \ {0} = Living \cup Dead
        /\ children.total = Cardinality(Keys(children))

(* The master does not end while a worker runs, unless a "restart" has     *)
(* replaced the tree of several children.                                  *)
EndsLast == pc = "ended" /\ (nChildren = 1 \/ hups = 0) => Living = {}

(* After "stop" the master and every worker end.                           *)
StopEnds == isExit ~> (pc = "ended" /\ Living = {})

(* When no worker runs any more the master does not stay: it starts one,   *)
(* or ends.                                                                *)
NoIdleMaster == (Living = {}) ~> (Living # {} \/ pc = "ended")

(* After "restart" as many workers run again as are configured, unless     *)
(* another command follows or one ended in a way that is not to be         *)
(* restarted.                                                              *)
Abandoned == \E p \in Pid : proc[p] \in {"dead", "gone"} /\ how[p] \in {"pipe", "error"}
RestartRenews ==
    \A h \in 1 .. MaxHups :
        hups = h ~> (hups > h \/ isExit \/ Abandoned \/ Cardinality(Living) = nChildren)
=============================================================================
