--------------------------- MODULE Accept_proofs ---------------------------
(***************************************************************************)
(* Proofs about Accept for every number of clients, descriptors and        *)
(* places: the types, what the tree holds, and the limit.                  *)
(***************************************************************************)
EXTENDS Accept, FiniteSetTheorems, TLAPS

Accepting == accPc \in {"check", "set", "put"}
Making    == accPc \in {"set", "put"}
Removing  == loopPc \in {"remove", "removed"}

(* What each thread knows of its client while it works on it.              *)
Threads ==
    /\ Accepting => accC \in Client /\ accFd \in Fd
    /\ accPc = "check" => conn[accC] = "held"
    /\ Making => conn[accC] \in {"served", "freed"} /\ total < MaxClient
    /\ Accepting /\ conn[accC] # "freed" => fdOf[accC] = accFd
    /\ Removing => loopC \in Client /\ loopFd \in Fd /\ conn[loopC] \in {"served", "freed"}
    /\ Removing /\ conn[loopC] = "served" => fdOf[loopC] = loopFd

(* Descriptors are open from accept to close, never shared, and the one    *)
(* being accepted is not given away meanwhile.                             *)
Descriptors ==
    /\ \A c \in Client : fdOf[c] \in Fd <=> conn[c] \in {"held", "served", "parked"}
    /\ \A c, d \in Client : fdOf[c] = fdOf[d] /\ fdOf[c] \in Fd => c = d
    /\ Accepting => \A d \in Client : fdOf[d] = accFd => d = accC

(* Entries are of clients that were served, never of the one that is still *)
(* to be put in, and there are at most total.                              *)
Table ==
    /\ \A f \in Entries : conn[tree[f]] \in {"served", "freed"}
    /\ Making => \A f \in Fd : tree[f] # accC
    /\ Cardinality(Entries) <= total

(* A worker that was told to stop ended with an empty tree.                *)
EndedEmpty == status = "ended" => total < 1

(* Registered with what it needs to be kept: a client freed in the making, *)
(* or removed while it is made, is the one of the removal under way.       *)
Apart ==
    raced = {} =>
        /\ total = Cardinality(Entries)
        /\ \A f \in Entries :
               \/ conn[tree[f]] = "served" /\ fdOf[tree[f]] = f
               \/ loopPc = "remove" /\ tree[f] = loopC /\ f = loopFd
        /\ \A c \in Served \ (InTheMaking \cup InRemoval) : tree[fdOf[c]] = c
        /\ Making /\ conn[accC] = "freed" => loopPc = "remove" /\ loopC = accC
        /\ Making /\ Removing /\ loopC = accC => loopPc = "remove" /\ loopFd = accFd
        /\ loopPc = "removed" => \A f \in Fd : tree[f] # loopC

Inv == TypeOK /\ Threads /\ Descriptors /\ Table /\ Apart

-----------------------------------------------------------------------------
(* The number of entries is a number.                                      *)
LEMMA EntriesFinite == IsFiniteSet(Entries) /\ Cardinality(Entries) \in Nat
  BY AcceptAssumption, FS_Subset, FS_CardinalityType DEF Entries

(* A put adds at most the new key to the entries, and counts it once.      *)
LEMMA PutCounts ==
  ASSUME TypeOK, Cardinality(Entries) <= total, accC \in Client, accFd \in Fd, Put
  PROVE  /\ tree' \in [Fd -> Client \cup {NoClient}] /\ total' \in total .. total + 1
         /\ \A f \in Entries' : f # accFd => f \in Entries /\ tree'[f] = tree[f]
         /\ tree'[accFd] = accC
         /\ Cardinality(Entries') <= total'
         /\ raced \subseteq raced' /\ raced' \subseteq raced \cup {"lost"}
         /\ raced' = {} => /\ \A f \in Fd \ {accFd} : tree'[f] = tree[f]
                           /\ total = Cardinality(Entries) => total' = Cardinality(Entries')
  <1>. USE AcceptAssumption
  <1>1. PICK lost \in SUBSET (Entries \ {accFd}) :
          /\ tree' = [Spared(lost) EXCEPT ![accFd] = accC]
          /\ raced' = raced \cup LostOf(lost)
    BY DEF Put
  <1>2. total' = IF tree[accFd] = NoClient THEN total + 1 ELSE total
    BY DEF Put
  <1>3. /\ tree' \in [Fd -> Client \cup {NoClient}] /\ tree'[accFd] = accC
        /\ \A f \in Fd \ {accFd} : tree'[f] = IF f \in lost THEN NoClient ELSE tree[f]
    BY <1>1 DEF TypeOK, Spared
  <1>4. raced \subseteq raced' /\ raced' \subseteq raced \cup {"lost"} /\ (raced' = {} => lost = {})
    BY <1>1 DEF LostOf
  <1>5. Entries' = (Entries \ lost) \cup {accFd}
    BY <1>1, <1>3 DEF Entries
  <1>6. accFd \in Entries <=> tree[accFd] # NoClient
    BY DEF Entries
  <1>7. /\ IsFiniteSet(Entries \ lost) /\ Cardinality(Entries \ lost) \in Nat
        /\ Cardinality(Entries \ lost) <= Cardinality(Entries)
    BY EntriesFinite, FS_Subset, FS_CardinalityType
  <1>8. accFd \in Entries \ lost <=> accFd \in Entries
    BY <1>1
  <1>9. Cardinality(Entries') = IF accFd \in Entries THEN Cardinality(Entries \ lost)
                                ELSE Cardinality(Entries \ lost) + 1
    BY <1>5, <1>7, <1>8, FS_AddElement
  <1>10. total \in Nat
    BY DEF TypeOK
  <1>11. Cardinality(Entries') <= total' /\ total' \in total .. total + 1
    BY <1>2, <1>6, <1>7, <1>9, <1>10, EntriesFinite
  <1>12. ASSUME raced' = {}, total = Cardinality(Entries) PROVE total' = Cardinality(Entries')
    <2>1. Entries \ lost = Entries
      BY <1>4, <1>12
    <2>. QED
      BY <1>2, <1>6, <1>9, <1>12, <2>1
  <1>. QED
    BY <1>3, <1>4, <1>5, <1>11, <1>12 DEF Entries

(* A removal takes the key out, and counts it if it was there.             *)
LEMMA RemoveCounts ==
  ASSUME TypeOK, Cardinality(Entries) <= total, loopC \in Client, loopFd \in Fd, RemoveClient
  PROVE  /\ tree' \in [Fd -> Client \cup {NoClient}] /\ total' \in 0 .. total
         /\ \A f \in Entries' : f # loopFd /\ f \in Entries /\ tree'[f] = tree[f]
         /\ Cardinality(Entries') <= total'
         /\ raced \subseteq raced' /\ raced' \subseteq raced \cup {"lost", "early", "reuse"}
         /\ raced' = {} => /\ tree[loopFd] = loopC
                           /\ \A f \in Fd \ {loopFd} : tree'[f] = tree[f]
                           /\ total = Cardinality(Entries) => total' = Cardinality(Entries')
  <1>. USE AcceptAssumption
  <1>1. PICK lost \in SUBSET (Entries \ {loopFd}) :
          /\ tree' = [Spared(lost) EXCEPT ![loopFd] = NoClient]
          /\ raced' = raced \cup LostOf(lost)
                        \cup (IF tree[loopFd] = loopC THEN {}
                              ELSE IF tree[loopFd] = NoClient THEN {"early"} ELSE {"reuse"})
          /\ tree[loopFd] = NoClient => lost = {}
    BY DEF RemoveClient
  <1>2. total' = IF tree[loopFd] = NoClient THEN total ELSE total - 1
    BY DEF RemoveClient, Total
  <1>3. /\ tree' \in [Fd -> Client \cup {NoClient}] /\ tree'[loopFd] = NoClient
        /\ \A f \in Fd \ {loopFd} : tree'[f] = IF f \in lost THEN NoClient ELSE tree[f]
    BY <1>1 DEF TypeOK, Spared
  <1>4. /\ raced \subseteq raced' /\ raced' \subseteq raced \cup {"lost", "early", "reuse"}
        /\ raced' = {} => lost = {} /\ tree[loopFd] = loopC
    BY <1>1 DEF LostOf
  <1>5. Entries' = (Entries \ lost) \ {loopFd}
    BY <1>1, <1>3 DEF Entries
  <1>6. loopFd \in Entries <=> tree[loopFd] # NoClient
    BY DEF Entries
  <1>7. /\ IsFiniteSet(Entries \ lost) /\ Cardinality(Entries \ lost) \in Nat
        /\ Cardinality(Entries \ lost) <= Cardinality(Entries)
    BY EntriesFinite, FS_Subset, FS_CardinalityType
  <1>8. loopFd \in Entries \ lost <=> loopFd \in Entries
    BY <1>1
  <1>9. Cardinality(Entries') = IF loopFd \in Entries THEN Cardinality(Entries \ lost) - 1
                                ELSE Cardinality(Entries \ lost)
    BY <1>5, <1>7, <1>8, FS_RemoveElement
  <1>10. Cardinality(Entries') \in Nat
    BY <1>5, <1>7, FS_RemoveElement, FS_CardinalityType
  <1>11. total \in Nat
    BY DEF TypeOK
  <1>12. Cardinality(Entries') <= total' /\ total' \in 0 .. total
    BY <1>2, <1>6, <1>7, <1>9, <1>10, <1>11, EntriesFinite
  <1>13. ASSUME raced' = {}, total = Cardinality(Entries) PROVE total' = Cardinality(Entries')
    <2>1. Entries \ lost = Entries
      BY <1>4, <1>13
    <2>. QED
      BY <1>2, <1>6, <1>9, <1>13, <2>1
  <1>. QED
    BY <1>3, <1>4, <1>5, <1>12, <1>13 DEF Entries

-----------------------------------------------------------------------------
(* The start: nobody is connected.                                         *)
LEMMA InitInv == Init => Inv
  <1>. SUFFICES ASSUME Init PROVE Inv
    OBVIOUS
  <1>. USE AcceptAssumption DEF Init
  <1>1. Entries = {} /\ Cardinality(Entries) = 0
    BY FS_EmptySet DEF Entries
  <1>2. TypeOK
    <2>1. /\ conn \in [Client -> {"new", "held", "served", "freed", "parked", "refused"}]
          /\ fdOf \in [Client -> Fd \cup {NoFd}] /\ isQuit \in [Client -> BOOLEAN]
      OBVIOUS
    <2>2. tree \in [Fd -> Client \cup {NoClient}]
      OBVIOUS
    <2>3. total \in 0 .. MaxClient /\ used \in 0 .. MaxInfo
      OBVIOUS
    <2>. QED
      BY <2>1, <2>2, <2>3 DEF TypeOK
  <1>3. Threads /\ Descriptors
    BY DEF Threads, Descriptors, Accepting, Making, Removing
  <1>4. Table
    BY <1>1 DEF Table, Making
  <1>5. Apart
    BY <1>1 DEF Apart, Making, Removing, Served
  <1>. QED
    BY <1>2, <1>3, <1>4, <1>5 DEF Inv

(* Nothing but Put and RemoveClient touches the tree.                      *)
LEMMA SameTree ==
  ASSUME UNCHANGED tree
  PROVE  Entries' = Entries
  BY DEF Entries

(* The accept thread.                                                      *)
LEMMA AcceptClientKeeps == ASSUME Inv, NEW c \in Client, AcceptClient(c) PROVE Inv'
  <1>. USE AcceptAssumption DEF Inv, AcceptClient, accVars, loopVars, treeVars, Accepting, Making, Removing
  <1>0. Entries' = Entries
    BY SameTree
  <1>1. TypeOK'
    BY DEF TypeOK
  <1>2. Threads'
    BY DEF TypeOK, Threads
  <1>3. Descriptors'
    BY DEF TypeOK, Descriptors, OpenFds
  <1>4. Table'
    BY <1>0 DEF TypeOK, Table
  <1>5. Apart'
    BY <1>0 DEF TypeOK, Apart, Table, Descriptors, Entries, Served, InTheMaking, InRemoval
  <1>. QED
    BY <1>1, <1>2, <1>3, <1>4, <1>5

LEMMA CheckLoadKeeps == ASSUME Inv, CheckLoad PROVE Inv'
  <1>. USE AcceptAssumption DEF Inv, CheckLoad, accVars, loopVars, treeVars, Accepting, Making, Removing
  <1>0. Entries' = Entries
    BY SameTree
  <1>1. CASE Overload
    <2>. USE <1>1 DEF Overload
    <2>1. TypeOK'
      BY DEF TypeOK
    <2>2. Threads'
      BY DEF TypeOK, Threads
    <2>3. Descriptors'
      BY DEF TypeOK, Descriptors, Threads
    <2>4. Table'
      BY <1>0 DEF TypeOK, Table, Threads, Entries
    <2>5. Apart'
      BY <1>0 DEF TypeOK, Apart, Table, Descriptors, Threads, Entries, Served, InTheMaking, InRemoval
    <2>. QED
      BY <2>1, <2>2, <2>3, <2>4, <2>5
  <1>2. CASE Make /\ total < MaxClient
    <2>. USE <1>2 DEF Make
    <2>1. TypeOK'
      BY DEF TypeOK
    <2>2. Threads'
      BY DEF TypeOK, Threads
    <2>3. Descriptors'
      BY DEF TypeOK, Descriptors, Threads
    <2>4. Table'
      BY <1>0 DEF TypeOK, Table, Threads, Entries
    <2>5. Apart'
      BY <1>0 DEF TypeOK, Apart, Table, Descriptors, Threads, Entries, Served, InTheMaking, InRemoval
    <2>. QED
      BY <2>1, <2>2, <2>3, <2>4, <2>5
  <1>3. Overload \/ (Make /\ total < MaxClient)
    BY DEF Loaded, TypeOK
  <1>. QED
    BY <1>1, <1>2, <1>3

LEMMA SetFieldsKeeps == ASSUME Inv, SetFields PROVE Inv'
  <1>. USE AcceptAssumption DEF Inv, SetFields, accVars, loopVars, treeVars, Accepting, Making, Removing
  <1>0. Entries' = Entries
    BY SameTree
  <1>1. TypeOK'
    BY DEF TypeOK
  <1>2. Threads' /\ Descriptors'
    BY DEF Threads, Descriptors
  <1>3. Table'
    BY <1>0 DEF Table
  <1>4. Apart'
    BY <1>0 DEF Apart, Served, InTheMaking, InRemoval
  <1>. QED
    BY <1>1, <1>2, <1>3, <1>4

LEMMA PutClientKeeps == ASSUME Inv, PutClient PROVE Inv'
  <1>. USE AcceptAssumption DEF Inv, PutClient, accVars, loopVars, Accepting, Making, Removing
  <1>1. /\ accC \in Client /\ accFd \in Fd /\ total < MaxClient /\ Put
        /\ total \in Nat /\ MaxClient \in Nat
    BY DEF Threads, TypeOK
  <1>2. /\ tree' \in [Fd -> Client \cup {NoClient}] /\ total' \in total .. total + 1
        /\ \A f \in Entries' : f # accFd => f \in Entries /\ tree'[f] = tree[f]
        /\ tree'[accFd] = accC
        /\ Cardinality(Entries') <= total'
        /\ raced \subseteq raced' /\ raced' \subseteq raced \cup {"lost"}
        /\ raced' = {} => /\ \A f \in Fd \ {accFd} : tree'[f] = tree[f]
                          /\ total = Cardinality(Entries) => total' = Cardinality(Entries')
    BY <1>1, PutCounts DEF Table
  <1>3. TypeOK'
    BY <1>1, <1>2 DEF TypeOK
  <1>4. Threads' /\ Descriptors'
    BY <1>2 DEF Threads, Descriptors
  <1>5. Table'
    BY <1>1, <1>2 DEF Table, Threads
  <1>6. ASSUME raced' = {} PROVE raced = {}
    BY <1>2, <1>6
  <1>7. Apart'
    <2>. SUFFICES ASSUME raced' = {} PROVE Apart'
      BY DEF Apart
    <2>. USE <1>6
    <2>1. total' = Cardinality(Entries')
      BY <1>2 DEF Apart
    <2>2. \A f \in Entries' :
              \/ conn'[tree'[f]] = "served" /\ fdOf'[tree'[f]] = f
              \/ loopPc' = "remove" /\ tree'[f] = loopC' /\ f = loopFd'
      BY <1>1, <1>2 DEF Apart, Threads
    <2>3. \A c \in Served' \ (InTheMaking' \cup InRemoval') : tree'[fdOf'[c]] = c
      <3>. SUFFICES ASSUME NEW c \in Served' \ InRemoval' PROVE tree'[fdOf[c]] = c
        BY DEF InTheMaking
      <3>1. c \in Client /\ c \in Served \ InRemoval /\ fdOf[c] \in Fd
        BY DEF Served, InRemoval, Descriptors
      <3>2. CASE c = accC
        BY <1>2, <3>1, <3>2 DEF Threads, Served
      <3>3. CASE c # accC
        BY <1>2, <3>1, <3>3 DEF Apart, Descriptors, InTheMaking
      <3>. QED
        BY <3>2, <3>3
    <2>4. loopPc' = "removed" => \A f \in Fd : tree'[f] # loopC'
      BY <1>1, <1>2 DEF Apart
    <2>. QED
      BY <2>1, <2>2, <2>3, <2>4 DEF Apart
  <1>. QED
    BY <1>3, <1>4, <1>5, <1>7

LEMMA TestExitKeeps == ASSUME Inv, TestExit \/ AcceptTimesOut PROVE Inv'
  <1>. USE AcceptAssumption DEF Inv, TestExit, AcceptTimesOut, accVars, loopVars, treeVars,
                                Accepting, Making, Removing
  <1>0. Entries' = Entries
    BY SameTree
  <1>1. TypeOK'
    BY DEF TypeOK
  <1>2. Threads' /\ Descriptors'
    BY DEF Threads, Descriptors
  <1>3. Table'
    BY <1>0 DEF Table
  <1>4. Apart'
    BY <1>0 DEF Apart, Served, InTheMaking, InRemoval
  <1>. QED
    BY <1>1, <1>2, <1>3, <1>4

-----------------------------------------------------------------------------
(* The event thread, and the clients that leave.                           *)
LEMMA QuietKeeps ==
  ASSUME Inv, (\E c \in Client : Leave(c) \/ Quit(c)) \/ Stop
  PROVE  Inv'
  <1>. USE AcceptAssumption DEF Inv, Leave, Quit, Stop, accVars, loopVars, treeVars,
                                Accepting, Making, Removing
  <1>0. Entries' = Entries
    BY SameTree
  <1>1. TypeOK'
    <2>1. CASE \E c \in Client : Leave(c)
      BY <2>1 DEF TypeOK
    <2>2. CASE \E c \in Client : Quit(c)
      BY <2>2 DEF TypeOK
    <2>3. CASE Stop
      BY <2>3 DEF TypeOK
    <2>. QED
      BY <2>1, <2>2, <2>3
  <1>2. Threads' /\ Descriptors'
    BY DEF Threads, Descriptors
  <1>3. Table'
    BY <1>0 DEF Table
  <1>4. Apart'
    BY <1>0 DEF Apart, Served, InTheMaking, InRemoval
  <1>. QED
    BY <1>1, <1>2, <1>3, <1>4

LEMMA ReadEofKeeps == ASSUME Inv, NEW c \in Client, ReadEof(c) PROVE Inv'
  <1>. USE AcceptAssumption DEF Inv, ReadEof, accVars, treeVars, Accepting, Making, Removing
  <1>0. Entries' = Entries
    BY SameTree
  <1>1. TypeOK'
    BY DEF TypeOK
  <1>2. Threads' /\ Descriptors'
    BY DEF TypeOK, Threads, Descriptors
  <1>3. Table'
    BY <1>0 DEF Table
  <1>4. Apart'
    BY <1>0 DEF Apart, Threads, Served, InTheMaking, InRemoval
  <1>. QED
    BY <1>1, <1>2, <1>3, <1>4

LEMMA WriteQuitKeeps == ASSUME Inv, NEW c \in Client, WriteQuit(c) PROVE Inv'
  <1>. USE AcceptAssumption DEF Inv, WriteQuit, accVars, treeVars, Accepting, Making, Removing
  <1>0. Entries' = Entries
    BY SameTree
  <1>1. TypeOK'
    BY DEF TypeOK
  <1>2. Threads' /\ Descriptors'
    BY DEF TypeOK, Threads, Descriptors
  <1>3. Table'
    BY <1>0 DEF TypeOK, Table, Entries
  <1>4. Apart'
    BY <1>0 DEF TypeOK, Apart, Threads, Table, Entries, Served, InTheMaking, InRemoval
  <1>. QED
    BY <1>1, <1>2, <1>3, <1>4

LEMMA RemoveClientKeeps == ASSUME Inv, RemoveClient PROVE Inv'
  <1>. USE AcceptAssumption DEF Inv, Accepting, Making, Removing
  <1>1. /\ loopC \in Client /\ loopFd \in Fd /\ loopPc = "remove" /\ loopPc' = "removed"
        /\ total \in Nat /\ MaxClient \in Nat
        /\ UNCHANGED <<conn, fdOf, left, isQuit, accPc, accC, accFd, loopC, loopFd, used,
                       isExit, status>>
    BY DEF RemoveClient, Threads, TypeOK, accVars
  <1>2. /\ tree' \in [Fd -> Client \cup {NoClient}] /\ total' \in 0 .. total
        /\ \A f \in Entries' : f # loopFd /\ f \in Entries /\ tree'[f] = tree[f]
        /\ Cardinality(Entries') <= total'
        /\ raced \subseteq raced' /\ raced' \subseteq raced \cup {"lost", "early", "reuse"}
        /\ raced' = {} => /\ tree[loopFd] = loopC
                          /\ \A f \in Fd \ {loopFd} : tree'[f] = tree[f]
                          /\ total = Cardinality(Entries) => total' = Cardinality(Entries')
    BY <1>1, RemoveCounts DEF Table
  <1>3. TypeOK'
    BY <1>1, <1>2 DEF TypeOK
  <1>4. Threads' /\ Descriptors'
    BY <1>1, <1>2 DEF Threads, Descriptors, TypeOK
  <1>5. \A f \in Fd : tree'[f] = NoClient \/ (f # loopFd /\ f \in Entries /\ tree'[f] = tree[f])
    BY <1>2 DEF Entries
  <1>6. Table'
    BY <1>1, <1>2, <1>5 DEF Table, Threads
  <1>7. ASSUME raced' = {} PROVE raced = {}
    BY <1>2, <1>7
  <1>8. Apart'
    <2>. SUFFICES ASSUME raced' = {} PROVE Apart'
      BY DEF Apart
    <2>. USE <1>7
    <2>0. Making => accC # loopC
      BY <1>1, <1>2 DEF Table
    <2>1. total' = Cardinality(Entries')
      BY <1>2 DEF Apart
    <2>2. \A f \in Entries' : conn'[tree'[f]] = "served" /\ fdOf'[tree'[f]] = f
      BY <1>1, <1>2 DEF Apart
    <2>3. \A c \in Served' \ (InTheMaking' \cup InRemoval') : tree'[fdOf'[c]] = c
      <3>. SUFFICES ASSUME NEW c \in Served \ (InTheMaking \cup InRemoval) PROVE tree'[fdOf[c]] = c
        BY <1>1 DEF Served, InTheMaking, InRemoval
      <3>1. c \in Client /\ fdOf[c] \in Fd /\ tree[fdOf[c]] = c /\ c # loopC
        BY <1>1 DEF Served, Descriptors, Apart, InRemoval
      <3>. QED
        BY <1>2, <3>1
    <2>4. \A f \in Fd : tree'[f] # loopC'
      <3>. SUFFICES ASSUME NEW f \in Fd, tree'[f] = loopC PROVE FALSE
        BY <1>1
      <3>1. f \in Entries /\ f # loopFd /\ tree[f] = loopC
        BY <1>1, <1>5
      <3>2. conn[loopC] = "served" /\ fdOf[loopC] = f
        BY <3>1 DEF Apart
      <3>. QED
        BY <1>1, <3>1, <3>2 DEF Threads
    <2>5. Making' /\ conn'[accC'] = "freed" => FALSE
      BY <1>1, <2>0 DEF Apart
    <2>6. Making' /\ loopC' = accC' => FALSE
      BY <1>1, <2>0
    <2>. QED
      BY <2>1, <2>2, <2>3, <2>4, <2>5, <2>6 DEF Apart
  <1>. QED
    BY <1>3, <1>4, <1>6, <1>8

LEMMA AfterRemovalKeeps == ASSUME Inv, AfterRemoval PROVE Inv'
  <1>. USE AcceptAssumption DEF Inv, AfterRemoval, accVars, loopVars, treeVars,
                                Accepting, Making, Removing
  <1>0. Entries' = Entries
    BY SameTree
  <1>1. TypeOK'
    <2>1. CASE status' = "ended" /\ UNCHANGED <<conn, fdOf, left, isQuit, loopVars>>
      BY <2>1 DEF TypeOK
    <2>2. CASE /\ conn' = [conn EXCEPT ![loopC] = "freed"]
               /\ fdOf' = [fdOf EXCEPT ![loopC] = NoFd]
               /\ left' = left \ {loopC} /\ isQuit' = [isQuit EXCEPT ![loopC] = FALSE]
               /\ loopPc' = "idle" /\ loopC' = NoClient /\ loopFd' = NoFd
               /\ UNCHANGED status
      BY <2>2 DEF TypeOK
    <2>. QED
      BY <2>1, <2>2
  <1>2. Threads'
    BY DEF TypeOK, Threads
  <1>3. Descriptors'
    BY DEF TypeOK, Threads, Descriptors
  <1>4. Table'
    BY <1>0 DEF TypeOK, Table, Entries
  <1>5. Apart'
    BY <1>0 DEF TypeOK, Apart, Threads, Entries, Served, InTheMaking, InRemoval
  <1>. QED
    BY <1>1, <1>2, <1>3, <1>4, <1>5

(* Every step keeps the invariant.                                         *)
LEMMA NextInv == Inv /\ [Next]_vars => Inv'
  <1>. SUFFICES ASSUME Inv, [Next]_vars PROVE Inv'
    OBVIOUS
  <1>1. CASE AcceptThread
    BY <1>1, AcceptClientKeeps, CheckLoadKeeps, SetFieldsKeeps, PutClientKeeps, TestExitKeeps
    DEF AcceptThread
  <1>2. CASE EventThread
    BY <1>2, QuietKeeps, ReadEofKeeps, WriteQuitKeeps, RemoveClientKeeps, AfterRemovalKeeps
    DEF EventThread
  <1>3. CASE \E c \in Client : Leave(c)
    BY <1>3, QuietKeeps
  <1>4. CASE UNCHANGED vars
    <2>. USE <1>4 DEF vars, accVars, loopVars, treeVars, Inv
    <2>1. Entries' = Entries
      BY SameTree
    <2>2. TypeOK' /\ Threads' /\ Descriptors'
      BY DEF TypeOK, Threads, Descriptors, Accepting, Making, Removing
    <2>3. Table' /\ Apart'
      BY <2>1 DEF Table, Apart, Accepting, Making, Removing, Served, InTheMaking, InRemoval
    <2>. QED
      BY <2>2, <2>3
  <1>. QED
    BY <1>1, <1>2, <1>3, <1>4 DEF Next

LEMMA NextEnded == EndedEmpty /\ [Next]_vars => EndedEmpty'
  <1>. SUFFICES ASSUME EndedEmpty, [Next]_vars PROVE EndedEmpty'
    OBVIOUS
  <1>. USE DEF EndedEmpty, treeVars
  <1>1. CASE status = "up" /\ AcceptThread
    BY <1>1 DEF AcceptThread, AcceptClient, AcceptTimesOut, CheckLoad, Make, Overload,
                SetFields, PutClient, TestExit
  <1>2. CASE status = "up" /\ EventThread
    BY <1>2 DEF EventThread, ReadEof, Quit, WriteQuit, RemoveClient, AfterRemoval, Stop
  <1>3. CASE status = "up" /\ \E c \in Client : Leave(c)
    BY <1>3 DEF Leave
  <1>4. CASE UNCHANGED vars
    BY <1>4 DEF vars
  <1>. QED
    BY <1>1, <1>2, <1>3, <1>4 DEF Next

-----------------------------------------------------------------------------
(* The invariant holds in every reachable state.                           *)
THEOREM Invariant == Spec => [](Inv /\ EndedEmpty)
  <1>1. Init => EndedEmpty
    BY DEF Init, EndedEmpty
  <1>. QED
    BY <1>1, InitInv, NextInv, NextEnded, PTL DEF Spec

(* What the threads share keeps its types, whatever they do.               *)
THEOREM TypeCorrect == Spec => []TypeOK
  <1>1. Inv => TypeOK
    BY DEF Inv
  <1>. QED
    BY <1>1, Invariant, PTL

(* The tree holds the clients that are served, and a worker that ends cuts *)
(* off nobody but the two its threads are at work on, as long as they have *)
(* not met and the tree has lost nothing: for every number of clients,     *)
(* descriptors and places.                                                 *)
THEOREM RegisteredHolds == Spec => []Registered
  <1>1. Inv /\ EndedEmpty => Registered
    <2>. SUFFICES ASSUME Inv, EndedEmpty, raced = {} PROVE Registered
      BY DEF Registered
    <2>1. /\ total = Cardinality(Entries)
          /\ \A c \in Served \ (InTheMaking \cup InRemoval) : tree[fdOf[c]] = c
      BY DEF Inv, Apart
    <2>2. \A f \in Entries :
              \/ conn[tree[f]] = "served" /\ fdOf[tree[f]] = f
              \/ loopPc = "remove" /\ tree[f] = loopC
      BY DEF Inv, Apart
    <2>3. ASSUME status = "ended", NEW c \in Served \ (InTheMaking \cup InRemoval)
          PROVE  FALSE
      <3>1. Entries = {}
        BY <2>1, <2>3, EntriesFinite, FS_EmptySet DEF EndedEmpty
      <3>2. fdOf[c] \in Fd /\ c \in Client
        BY <2>3 DEF Served, Inv, Descriptors
      <3>. QED
        BY <2>1, <2>3, <3>1, <3>2, AcceptAssumption DEF Entries
    <2>. QED
      BY <2>1, <2>2, <2>3 DEF Registered
  <1>. QED
    BY <1>1, Invariant, PTL

(* No more clients than configured are served, the one in the making       *)
(* included, under the same conditions.                                    *)
THEOREM ClientLimitHolds == Spec => []ClientLimit
  <1>1. Inv => ClientLimit
    <2>. SUFFICES ASSUME Inv, raced = {} PROVE Cardinality(Served \ InRemoval) <= MaxClient
      BY DEF ClientLimit
    <2>. DEFINE S == Served \ (InTheMaking \cup InRemoval)
                g == [c \in S |-> fdOf[c]]
    <2>1. \A c \in S : c \in Client /\ fdOf[c] \in Fd /\ tree[fdOf[c]] = c
      BY DEF Served, Inv, Descriptors, Apart
    <2>2. g \in Injection(S, Entries)
      BY <2>1, AcceptAssumption DEF Injection, IsInjective, Entries
    <2>3. /\ IsFiniteSet(S) /\ Cardinality(S) \in Nat
          /\ Cardinality(S) <= total
      BY <2>2, FS_Injection, FS_CardinalityType, EntriesFinite DEF Inv, Apart
    <2>4. total \in 0 .. MaxClient /\ MaxClient \in Nat
      BY AcceptAssumption DEF Inv, TypeOK
    <2>5. CASE Making
      <3>1. Cardinality(S \cup {accC}) <= total + 1 /\ IsFiniteSet(S \cup {accC})
        BY <2>3, <2>4, FS_AddElement
      <3>2. Served \ InRemoval \subseteq S \cup {accC} /\ total < MaxClient
        BY <2>5 DEF InTheMaking, Making, Inv, Threads
      <3>3. /\ Cardinality(Served \ InRemoval) <= Cardinality(S \cup {accC})
            /\ Cardinality(Served \ InRemoval) \in Nat /\ Cardinality(S \cup {accC}) \in Nat
        BY <3>1, <3>2, FS_Subset, FS_CardinalityType
      <3>. QED
        BY <2>4, <3>1, <3>2, <3>3
    <2>6. CASE ~Making
      <3>1. Served \ InRemoval = S
        BY <2>6 DEF InTheMaking, Making
      <3>. QED
        BY <2>3, <2>4, <3>1
    <2>. QED
      BY <2>5, <2>6
  <1>. QED
    BY <1>1, Invariant, PTL
=============================================================================
