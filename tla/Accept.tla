------------------------------- MODULE Accept -------------------------------
(***************************************************************************)
(* The two threads of a worker and the tree of its clients: the accept     *)
(* thread (task, acceptC, newClient) puts clients in, the event thread     *)
(* (readC, writeC, dealRemoveClient, and the stop signal, which comes      *)
(* through a signalfd) takes them out and ends the worker with the last.   *)
(* A mutex guards the two changes of the tree and nothing else, so each    *)
(* change is one step here; what the threads do before, between and after  *)
(* are steps of their own, where the other thread can tell.                *)
(*                                                                         *)
(* The tree is the map from descriptors to clients that it stands for,     *)
(* except that a change of it may lose other keys (never `total', which    *)
(* counts them): modules RBTree and TreeUse show which changes do.         *)
(***************************************************************************)
EXTENDS Naturals, FiniteSets

CONSTANTS Client,       \* connections; each is made once
          NoClient,
          Fd,           \* descriptors of the process not in use elsewhere
          NoFd,
          MaxClient,    \* service->maxClientSize
          MaxInfo       \* MAX_INFO_NUM

ASSUME AcceptAssumption ==
    /\ NoClient \notin Client /\ NoFd \notin Fd /\ IsFiniteSet(Fd)
    /\ MaxClient \in Nat \ {0} /\ MaxInfo \in Nat \ {0}

VARIABLES
    conn,       \* of each client: "new", "held" (accepted), "served" (its events
                \* are registered), "freed", "parked" or "refused"
    fdOf,       \* its descriptor, while that is open
    left,       \* the clients served that have disconnected
    isQuit,     \* c->isQuit
    accPc,      \* the accept thread: "accept", "check", "set" (the fields after the
                \* events), "put", "test" (isExit) or "done"
    accC,       \* ... its client
    accFd,      \* ... and clientFd
    loopPc,     \* the event thread: "idle", "remove" (about to call
                \* dealRemoveClient) or "removed"
    loopC,      \* ... its client
    loopFd,     \* ... and fd
    tree,       \* service->clients
    total,      \* service->clients->total
    used,       \* service->socks->used
    isExit,     \* globals->isExit
    status,     \* "up", "ended" or "crashed"
    raced       \* history: "reuse" (the removal of a descriptor hit the client that
                \* had got it meanwhile), "early" (a client was removed before it
                \* was put in), "lost" (the tree lost a key)
accVars  == <<accPc, accC, accFd>>
loopVars == <<loopPc, loopC, loopFd>>
treeVars == <<tree, total>>
vars == <<conn, fdOf, left, isQuit, accVars, loopVars, treeVars, used, isExit, status, raced>>

Init ==
    /\ conn = [c \in Client |-> "new"] /\ fdOf = [c \in Client |-> NoFd]
    /\ left = {} /\ isQuit = [c \in Client |-> FALSE]
    /\ accPc = "accept" /\ accC = NoClient /\ accFd = NoFd
    /\ loopPc = "idle" /\ loopC = NoClient /\ loopFd = NoFd
    /\ tree = [f \in Fd |-> NoClient] /\ total = 0
    /\ used = 0 /\ isExit = FALSE /\ status = "up" /\ raced = {}

OpenFds == {fdOf[c] : c \in Client} \ {NoFd}
Entries == {f \in Fd : tree[f] # NoClient}
Served  == {c \in Client : conn[c] = "served"}

(* What is left of the tree when some keys are lost.                       *)
Spared(lost) == [g \in Fd |-> IF g \in lost THEN NoClient ELSE tree[g]]
LostOf(lost)    == IF lost = {} THEN {} ELSE {"lost"}

(* A client disconnects; earlier than this nobody would notice.            *)
Leave(c) ==
    /\ conn[c] = "served" /\ c \notin left
    /\ left' = left \cup {c}
    /\ UNCHANGED <<conn, fdOf, isQuit, accVars, loopVars, treeVars, used, isExit, status, raced>>

-----------------------------------------------------------------------------
(* The accept thread.  accept() blocks until a client comes or its time is *)
(* over, and task then looks at isExit.                                    *)
AcceptClient(c) ==
    /\ accPc = "accept" /\ conn[c] = "new"
    /\ \E f \in Fd \ OpenFds :
           /\ fdOf' = [fdOf EXCEPT ![c] = f]
           /\ accFd' = f
    /\ conn' = [conn EXCEPT ![c] = "held"]
    /\ accC' = c /\ accPc' = "check"
    /\ UNCHANGED <<left, isQuit, loopVars, treeVars, used, isExit, status, raced>>

AcceptTimesOut ==
    /\ accPc = "accept" /\ isExit
    /\ accPc' = "done"
    /\ UNCHANGED <<conn, fdOf, left, isQuit, accC, accFd, loopVars, treeVars, used, isExit,
                   status, raced>>

(* busy: rps->activeNum has reached rps->maxNum (module Pool).             *)
Loaded_OneMore(busy) == busy \/ total > MaxClient
Loaded(busy)         == busy \/ total >= MaxClient

(* newClient, up to the registration of the events: from here on the event *)
(* thread calls readC and writeC with a struct whose isQuit is what the    *)
(* memory held before.                                                     *)
Make ==
    /\ conn' = [conn EXCEPT ![accC] = "served"]
    /\ \E garbage \in BOOLEAN : isQuit' = [isQuit EXCEPT ![accC] = garbage]
    /\ accPc' = "set"
    /\ UNCHANGED <<fdOf, used, status>>

(* A worker with its load refuses the client or parks it for another one.  *)
(* What it parks is the listening fd: nobody ever serves the client, or    *)
(* closes it.  A worker that is the only one has no place to park and      *)
(* crashes (socks is NULL); which kind it is stays open until then.        *)
Overload ==
    /\ \/ /\ used = 0
          /\ status' = "crashed"
          /\ UNCHANGED <<conn, fdOf, used, accPc>>
       \/ /\ used >= MaxInfo
          /\ conn' = [conn EXCEPT ![accC] = "refused"]
          /\ fdOf' = [fdOf EXCEPT ![accC] = NoFd]
          /\ accPc' = "test"
          /\ UNCHANGED <<used, status>>
       \/ /\ used < MaxInfo
          /\ conn' = [conn EXCEPT ![accC] = "parked"]
          /\ used' = used + 1
          /\ accPc' = "test"
          /\ UNCHANGED <<fdOf, status>>
    /\ UNCHANGED isQuit

(* acceptC from its test of the load on.                                   *)
CheckLoad ==
    /\ accPc = "check"
    /\ \E busy \in BOOLEAN : IF Loaded(busy) THEN Overload ELSE Make
    /\ UNCHANGED <<left, accC, accFd, loopVars, treeVars, isExit, raced>>

(* The rest of newClient; when the event thread has freed the struct it is *)
(* a write to freed memory.                                                *)
SetFields ==
    /\ accPc = "set"
    /\ isQuit' = [isQuit EXCEPT ![accC] = FALSE]
    /\ accPc' = "put"
    /\ status' \in IF conn[accC] = "freed" THEN {status, "crashed"} ELSE {status}
    /\ UNCHANGED <<conn, fdOf, left, accC, accFd, loopVars, treeVars, used, isExit, raced>>

(* treePut under the mutex: a full tree takes nothing, an entry under the  *)
(* same key is replaced.                                                   *)
Put ==
    /\ \E lost \in SUBSET (Entries \ {accFd}) :
           /\ tree' = [Spared(lost) EXCEPT ![accFd] = accC]
           /\ raced' = raced \cup LostOf(lost)
    /\ total' = IF tree[accFd] = NoClient THEN total + 1 ELSE total

PutClient ==
    /\ accPc = "put"
    /\ IF total >= MaxClient THEN UNCHANGED <<treeVars, raced>> ELSE Put
    /\ accPc' = "test"
    /\ UNCHANGED <<conn, fdOf, left, isQuit, accC, accFd, loopVars, used, isExit, status>>

TestExit ==
    /\ accPc = "test"
    /\ accPc' = IF isExit THEN "done" ELSE "accept"
    /\ accC' = NoClient /\ accFd' = NoFd
    /\ UNCHANGED <<conn, fdOf, left, isQuit, loopVars, treeVars, used, isExit, status, raced>>

-----------------------------------------------------------------------------
(* The event thread.  readC finds the client gone: it takes it out of the  *)
(* tree first and frees it (and closes its descriptor) afterwards.         *)
ReadEof(c) ==
    /\ loopPc = "idle" /\ conn[c] = "served" /\ c \in left /\ ~isQuit[c]
    /\ loopPc' = "remove" /\ loopC' = c /\ loopFd' = fdOf[c]
    /\ UNCHANGED <<conn, fdOf, left, isQuit, accVars, treeVars, used, isExit, status, raced>>

(* A command, a reply or an error makes a handler set isQuit.              *)
Quit(c) ==
    /\ loopPc = "idle" /\ conn[c] = "served" /\ ~isQuit[c]
    /\ isQuit' = [isQuit EXCEPT ![c] = TRUE]
    /\ UNCHANGED <<conn, fdOf, left, accVars, loopVars, treeVars, used, isExit, status, raced>>

(* writeC, with nothing left to write: removeByC frees the client first.   *)
WriteQuit_NotRemoved(c) ==
    /\ loopPc = "idle" /\ conn[c] = "served" /\ isQuit[c]
    /\ conn' = [conn EXCEPT ![c] = "freed"] /\ fdOf' = [fdOf EXCEPT ![c] = NoFd]
    /\ UNCHANGED <<left, isQuit, accVars, loopVars, treeVars, used, isExit, status, raced>>
WriteQuit(c) ==
    /\ loopPc = "idle" /\ conn[c] = "served" /\ isQuit[c]
    /\ conn' = [conn EXCEPT ![c] = "freed"] /\ fdOf' = [fdOf EXCEPT ![c] = NoFd]
    /\ loopPc' = "remove" /\ loopC' = c /\ loopFd' = fdOf[c]
    /\ UNCHANGED <<left, isQuit, accVars, treeVars, used, isExit, status, raced>>

(* treeRemove under the mutex.                                             *)
Total_CountsAbsent == total - 1
Total_Kept         == total
Total == IF tree[loopFd] = NoClient THEN total ELSE total - 1

RemoveClient ==
    /\ loopPc = "remove"
    /\ total' = Total
    /\ \E lost \in IF tree[loopFd] = NoClient THEN {{}} ELSE SUBSET (Entries \ {loopFd}) :
           /\ tree' = [Spared(lost) EXCEPT ![loopFd] = NoClient]
           /\ raced' = raced \cup LostOf(lost)
                         \cup (IF tree[loopFd] = loopC THEN {}
                               ELSE IF tree[loopFd] = NoClient THEN {"early"} ELSE {"reuse"})
    /\ loopPc' = "removed"
    /\ UNCHANGED <<conn, fdOf, left, isQuit, accVars, loopC, loopFd, used, isExit, status>>

(* The end of dealRemoveClient, without the mutex, and of readC, which goes *)
(* on and frees the client (writeC has done so).                           *)
AfterRemoval ==
    /\ loopPc = "removed"
    /\ \/ /\ total < 1 /\ isExit
          /\ status' = "ended"
          /\ UNCHANGED <<conn, fdOf, left, isQuit, loopVars>>
       \/ /\ total > 0 \/ ~isExit
          /\ conn' = [conn EXCEPT ![loopC] = "freed"]
          /\ fdOf' = [fdOf EXCEPT ![loopC] = NoFd]
          /\ left' = left \ {loopC} /\ isQuit' = [isQuit EXCEPT ![loopC] = FALSE]
          /\ loopPc' = "idle" /\ loopC' = NoClient /\ loopFd' = NoFd
          /\ UNCHANGED status
    /\ UNCHANGED <<accVars, treeVars, used, isExit, raced>>

(* stopWorker.                                                             *)
Stop ==
    /\ loopPc = "idle" /\ ~isExit
    /\ isExit' = TRUE
    /\ status' = IF total < 1 THEN "ended" ELSE status
    /\ UNCHANGED <<conn, fdOf, left, isQuit, accVars, loopVars, treeVars, used, raced>>

-----------------------------------------------------------------------------
AcceptThread ==
    \/ \E c \in Client : AcceptClient(c)
    \/ AcceptTimesOut \/ CheckLoad \/ SetFields \/ PutClient \/ TestExit
EventThread ==
    \/ \E c \in Client : ReadEof(c) \/ Quit(c) \/ WriteQuit(c)
    \/ RemoveClient \/ AfterRemoval \/ Stop

Next == status = "up" /\ (AcceptThread \/ EventThread \/ \E c \in Client : Leave(c))

(* The threads are scheduled and the event loop calls every handler that   *)
(* is ready; clients do not stay for ever.                                 *)
Fairness ==
    /\ WF_vars(status = "up" /\ AcceptThread)
    /\ WF_vars(status = "up" /\ (RemoveClient \/ AfterRemoval))
    /\ \A c \in Client : /\ SF_vars(status = "up" /\ (ReadEof(c) \/ WriteQuit(c)))
                         /\ WF_vars(status = "up" /\ Leave(c))

Spec     == Init /\ [][Next]_vars
FairSpec == Spec /\ Fairness

-----------------------------------------------------------------------------
(* The types of what the threads share.                                    *)
TypeOK ==
    /\ conn \in [Client -> {"new", "held", "served", "freed", "parked", "refused"}]
    /\ fdOf \in [Client -> Fd \cup {NoFd}]
    /\ left \subseteq Client /\ isQuit \in [Client -> BOOLEAN]
    /\ accPc \in {"accept", "check", "set", "put", "test", "done"}
    /\ accC \in Client \cup {NoClient} /\ accFd \in Fd \cup {NoFd}
    /\ loopPc \in {"idle", "remove", "removed"}
    /\ loopC \in Client \cup {NoClient} /\ loopFd \in Fd \cup {NoFd}
    /\ tree \in [Fd -> Client \cup {NoClient}]
    /\ total \in 0 .. MaxClient /\ used \in 0 .. MaxInfo
    /\ isExit \in BOOLEAN /\ status \in {"up", "ended", "crashed"}
    /\ raced \subseteq {"reuse", "early", "lost"}

(* As long as the threads have not met over one client and the tree has    *)
(* lost nothing, the tree holds the clients that are served and no others, *)
(* but for the one the accept thread is making and the one the event       *)
(* thread is removing; and a worker that ends cuts off nobody but these.   *)
InTheMaking == IF accPc \in {"set", "put"} THEN {accC} ELSE {}
InRemoval   == IF loopPc # "idle" THEN {loopC} ELSE {}

Registered ==
    raced = {} =>
        /\ total = Cardinality(Entries)
        /\ \A f \in Entries :
               \/ conn[tree[f]] = "served" /\ fdOf[tree[f]] = f
               \/ loopPc = "remove" /\ tree[f] = loopC
        /\ \A c \in Served \ (InTheMaking \cup InRemoval) : tree[fdOf[c]] = c
        /\ status = "ended" => Served \subseteq InTheMaking \cup InRemoval

(* ... and no more clients than configured are served, the one in the      *)
(* making included, although acceptC tests the load without the mutex and  *)
(* long before it adds.                                                    *)
ClientLimit == raced = {} => Cardinality(Served \ InRemoval) <= MaxClient

(* A worker that was told to stop ends when its clients have left; it may  *)
(* stay when the threads have met over a client or the tree has lost one.  *)
StopEnds == isExit ~> (status # "up" \/ raced # {})
=============================================================================
