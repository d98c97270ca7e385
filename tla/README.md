# RedisPool in TLA+

RedisPool is a pre-forking proxy between clients and one Redis server: a master
forks workers; each worker accepts clients, keeps a small pool of Redis
connections, and relays commands and replies through an event loop.  This
directory models its core: the pool, the event loop, the way of the bytes
through it, the accept thread beside it, the tree and the hash table that the
bookkeeping rests on, and the master with its workers' lives.
All paths below are under `src/src/` unless they begin with `src/`.

Run a model with `tlc -config Worker_session.cfg MCWorker.tla`, the proofs with
`tlapm` on `Iteration` and on each of the modules whose name ends in `_proofs`.

## 1. Inventory

| component | code | state it keeps | operations | interacts with |
|---|---|---|---|---|
| connection pool | `net/pool.c` | `redises` (free list), `avalidNum`, `activeNum`, `blockCmds`, `releaseCmds` | initPool, getRedis, newRedis, putRedis, delRedis, freePool | called by the handlers of `server.c` |
| worker event loop | `net/server.c` | `service`: tree of clients, `cToR`, `rToC`, the pool | acceptC, readC, writeC, readR, writeR, removeByC, removeRC | clients, Redis, pool, maps; dispatched by libevent |
| client I/O | `net/client.c` | `client`: fd, buffers, `isQuit`, `isBlock`, `rNum`, parser state | newClient, freeClient, baseRead, baseWrite | sockets, buffers |
| Redis protocol | `proto/multibulk.c` | parser position in `client` | processClient, processCmds, processRedis | buffers, parseInt |
| red-black tree | `map/tree.c` | nodes, root, total, max | treePut, treeRemove, treeGet, FOREACH_TREE | clients by fd (worker); children, pipes by pid (master) |
| hash table | `map/hash.c` | node array with the bucket indexes in front, list of removed nodes | hashPut, hashGet, hashRemove, resizeHash | `cToR`, `rToC`, the command tables |
| master | `net/server.c` run, restartWorker; `sync/process.c` | `globals->children`, `pToC`, `isExit` | fork, releaseChild, restartWorker | workers by signal and `waitpid` |
| signal handling | `cmd.c` | `globals->isExit` | stopParentWorker, stopWorker, installSignal | interrupts master and workers |
| buffers, numbers | `types.c` | growing arrays | addBuff, mvArrayBuff, srangeArrayBuff, parseInt | everything that reads or writes |
| pipes between workers | `net/server.c` newSock, readS, writeS, updateMin | counts of the other workers | passing a client of a full worker on | event loop |
| accept thread | `net/server.c` worker, `sync/thread.c` | the same `service`, behind `mutex` in part | accept loop | event thread |
| stack, crc32, map values, debug, event wrapper, start-up | `rstack.c`, `crc32.c`, `map/map.c`, `debug/`, `event/`, `main.c` | - | - | helpers |

What makes them hard:

* **interleaving** - between any two handlers clients send or leave, Redis
  answers or closes, sockets fill up; the accept thread runs beside the event
  thread; the master's signal handlers run between (and inside) its steps;
* **stale state** - `next` of a lent connection, `errno` after a good read, map
  entries to freed structs, an fd that was closed and is used again;
* **failure** - connects, writes, malformed commands, workers that die;
* **long legal sequences** - the pool's counters, the tree's and the hash
  table's shapes go wrong only after several puts and removals.

What makes each component correct:

* pool: a connection is lent to one user at a time, is not freed under its
  user, none is lost, no more than `max` are open, an idle pool serves;
* worker: every client gets its own replies, once, in order; connections go
  back only when nothing is under way on them; no handler follows a dangling
  map entry; every command is answered or the client is closed;
* bytes: what arrives is passed on once, in order and whole, however TCP cuts it,
  and a length is the number that was sent;
* accept thread: the tree of clients is the clients served, no more than
  configured are, and a worker told to stop ends with its last client;
* tree and hash table: what was put is found, what was removed is not, no node
  is lost or used twice, lookups end;
* master: it knows its workers, replaces those that die, ends last, and ends.

`PROJECT.json` lists the hazards line by line, with the properties that cover
them.

## 2. The modules

| module | models | built on |
|---|---|---|
| `Pool` | pool.c as operators on its variables: one action per function | - |
| `PoolStack` | abstract: a stack of idle connections and a quota of grants | - |
| `PoolUse` | the pool under arbitrary callers; implements `PoolStack` | `Pool` |
| `Iteration` | lemmas about iterated functions, walks defined through them and bounded induction | - |
| `PoolUse_proofs` | theorems about `PoolUse`: counters, exclusiveness, walks along the free list, the refinement of `PoolStack` | `PoolUse`, `Iteration` |
| `Session` | abstract: what a worker promises a client | - |
| `Worker` | the event loop with the pool inside; implements `Session` | `Pool` |
| `Worker_proofs` | theorems about `Worker`: types, awaited replies, no client gets another's reply, maps, the refinement of `Session` | `Worker`, `Iteration` |
| `MCWorker` | `Worker` with client symmetry, for TLC | `Worker` |
| `ParseInt` | parseInt, digit by digit | - |
| `Relay` | baseRead, the parsers, mvArrayBuff and baseWrite, one direction at a time | `ParseInt` |
| `MCRelay` | the messages that TLC sends through `Relay` | `Relay` |
| `Accept` | the accept thread and the event thread around the tree of clients | - |
| `Accept_proofs` | theorems about `Accept` | `Accept` |
| `RBTree` | tree.c as operators on a record of nodes | - |
| `TreeUse` | a tree under its callers | `RBTree` |
| `RBTree_proofs` | lemmas about the operators of `RBTree`: shapes, heights, repairs, lookups; what put and remove do to a sound tree | `RBTree`, `Iteration` |
| `TreeUse_proofs` | theorems about `TreeUse` | `TreeUse`, `RBTree_proofs` |
| `HashTable` | hash.c as operators on a record, and a table under its callers | - |
| `HashTable_proofs` | theorems about `HashTable`: types, nodes, walks, lookups | `HashTable`, `Iteration` |
| `Master` | monitor loop, restartWorker, signal handlers, workers' lives | `RBTree` |
| `Master_proofs` | theorems about `Master`: types, what the master knows of its workers, that it ends last | `Master`, `RBTree_proofs` |

Operators named `X_Suffix` are mutants: a plausible bug in the lines that `X`
models.  No specification uses them; replacing `X` by one must break the
property that `PROJECT.json` pairs it with.

### Pool and PoolUse

The variables are the fields of `redisPool`, with `next[r]` and `alive` for the
structs on the heap.  A struct is an address in `1 .. NRedis`; `malloc` may
return any that is not allocated.  `PopRedis`, `NewRedis`, `PutRedis` and
`DelRedis` are whole functions: `DelRedis` includes freeRedis and the relinking of
line 226 with whatever `next` the struct has.  Following a freed or NULL
pointer sets `crashed`.

Two facts of the code shape every property:

* getRedis decrements `avalidNum` and increments `activeNum`; putRedis and
  delRedis change neither.  The counters therefore count *grants*, and the pool
  refuses for good after `max` grants beyond the list.
* delRedis of a connection in use makes the struct's old `next` the head of the
  list.  With `min <= 2` that is harmless, with more the list may then lead to
  a connection that is lent (`Worker_mixup`).

`failed` remembers whether a connection in use, or an idle one, has failed, so
that one run checks what holds after each.

### Worker

One action per handler call; the event thread runs handlers one at a time.
Parameters of a call (how much was read, whether a send was short, failed or
raised SIGPIPE) are nondeterministic.  Clients, Redis and the network are
actions of their own.  Data is abstract: a command is `[n, kind]`, its reply
`<<client, n>>`; reads deliver whole commands, any number of them.

Modelled as the code has it, and worth knowing when reading a trace: readC maps
client and connection only when the client is not in a transaction after the
batch; a stale `EAGAIN` in `errno` makes readC and readR return with bytes read
and not processed; a malformed command gives the connection back and only sets
`isQuit`, and writeC later removes the client; a write error in writeR removes
the `rToC` entry before looking the client up through it; `isBlock` of a new
client is what `malloc` left.

`cToR` and `rToC` are functions here.  That abstracts the hash table and is
true of it only while its lookups end and find what was put (see `HashTable`); every
property of `Worker`, `Answered` included, assumes that.

A freed struct may be handed out again.  A redis struct is an address in
`1 .. NRedis`.  A client struct is taken over by a new client: `TakesStructOf(c, d)` lets
the entries of `rToC` that still name `d`, which is gone, name `c` from then on, as `malloc` in
newClient (client.c:29) may return the address of `d`.  Such entries are left by a client that
leaves with commands under way on two connections, since readC removes one of them only
(server.c:436-446).  If the struct is not reused, readR follows a freed pointer (`Fault`).  The
history `was[c]` names the clients whose entries `c` got in this way.

### ParseInt and Relay

`parseInt` is a function on sequences of characters, of any width `Bits`; `Denotes`
and `IsNumeral` say, without its arithmetic, what a numeral is and what it
denotes.

`Relay` takes one direction (`side`): a client's commands to Redis, or the
replies to commands sent in one go.  The stream is a sequence of tokens - first
character of a line with its text, CR, LF, body - and a read may end behind any
of them.  A token under way is named by its position, so that order, loss and
duplication can be stated.  The parsers are recursive operators over a record of
the parser's fields, translated branch by branch; `Handle` is what readC and readR
do with their outcome, `Write` is baseWrite with any number of buffers and any
part of the next one taken.  `Store` has mvArrayBuff with the clearing
of everything behind it.  Three kinds of memory errors are in the model as
outcomes: writes past a buffer or to where it was before realloc (`risk`,
`GrowsAdd`, `GrowsRead`) may do no harm or end the process, and slots that were never
set to NULL (`WildSlot`) crash it.  `ends` records how reads have ended, which is
what the properties make exceptions for.  A new client's parser fields
are zero here (`Worker` has the random `isBlock`).

### Accept

The program counters are those of the accept thread, between accept() and treePut,
and of the event thread, between its decision to remove a client and the end of
dealRemoveClient.  A change of the tree is one step, as the mutex makes it one; tests
of the load and of `total` outside the mutex are steps of their own.  Descriptors are
handed out by accept() from those not open.  The tree is a map from descriptors to
clients whose changes may lose other keys, `total` unchanged: what `RBTree` does,
without its shape.  `raced` records the two ways in which the threads can meet over
one client, and that the tree has lost a key.

### RBTree and TreeUse

A tree is a record of node fields by address.  The repair loops are
functions of the number of turns: `InsertTurn` and `RemoveTurn` are one turn of the loop, a turn
after the loop's end changes nothing, and as many turns as there are nodes are more than a sound
tree needs (proved, see section 4).  The rotations decide the side of the parent by `leftOf(tn) == tn`
(tree.c:82, 108), which no node satisfies; treeRemove tests the parent of
a NULL replacement (267), so removing a leaf empties the tree.  Both are
modelled as they are.  `bent` remembers that a rotation has turned a node that is
a left child, `emptied` that a removal took other keys with it; the properties
hold for keys in any order until then, which shows that there is no third way
for the tree to go wrong.  After `bent` a tree may contain a cycle, on which the
code's loops do not end, so `TreeUse` does not follow it further.

### HashTable

A key is its hash code.  The operators follow hash.c: walk, put (with growth),
overwrite, remove (with the list of removed nodes through the same `next`).  A
walk that cannot end sets `status` to `"hung"`; shrinking, which moves the node
pointer by an unsigned difference out of its allocation, sets `"crashed"`.
`store` is the map the callers believe in.

### Master

The master's program counter goes through reap - (restart - forked -) reap -
sleep.  Each of the two trees is a tree of `RBTree`, shape and all, and so is the
tree of clients of each worker, because what the master and the workers wait for
is a `total` field.  Signals may arrive between any two steps of the
master (`"anytime"`), and before a worker has installed its own handlers
(`"early"`).  `arg`, `entry` and `link` follow the pipe pointer through
restartWorker, which stores it with another type than run does.  A fork that fails
(`"fork_fails"`) leaves `id` at 0, which is put into both trees like a pid; a command
then comes to kill(0, ...), which the master gets as well, again and again, as
`"signals"` says.

## 3. The runs

| run | question | distinct states | bounds |
|---|---|---|---|
| `PoolUse_lending` | what the pool guarantees its users, after each kind of failure; refinement of the stack | 224 thousand | min 2, max 5, 6 structs, 4 users |
| `Worker_session` | maps, counts, sessions, with every failure | 396 thousand | 2 clients, 3 commands each, 1 at a time, min 2, max 3 |
| `Worker_pipelined` | no reply twice or to the wrong client, but for a client struct that is reused; 2 commands at a time, MULTI | 2.9 million | 2 clients, 2 commands each, min 2, max 3 |
| `Worker_answers` | every command answered, or the client closed; else `errno` was stale | 16 thousand | 2 clients, 2 commands each, 1 at a time, min 2, max 3, fair |
| `Worker_mixup` | the same as `Worker_pipelined` for min 3: *no* | violation | 3 clients, 1 command each |
| `Relay_cuts` | what arrives at the other side, what a cut costs, which length is read | 48 thousand | 7 bits, length texts of up to 3 characters (7 kinds of them), up to 3 messages, buffers of 4 tokens, 2 cleared slots |
| `Accept_threads` | the tree of clients between two threads, the limit, the end of a worker | 505 thousand | 3 clients, 3 descriptors, 2 places, 1 parked, fair |
| `TreeUse_churn` | is it a red-black tree and a map? | 191 thousand | 7 keys, any order, limit 6 |
| `HashTable_use` | is it a map, are nodes lost? | 905 thousand | 4 keys (3 in a bucket), 4 nodes growing to 8 |
| `Master_workers` | master and workers, every failure, commands at any time | 1.7 million | 1 or 2 workers, 5 forks, 2 restarts, 2 clients each |
| `Master_live` | stop and restart complete, the master is never idle | 4 thousand | 1 worker, 4 forks, fair |
| `Master_stop` | does stop complete with 2 workers? *No* | violation | 2 workers |

**Why the bounds are enough.**  The pool's hazards need one struct popped, one
below it lent, and one discarded: three users.  A fourth and a sixth address
let a freed address be allocated again.  Two clients are enough for one to get the
other's connection (with min 2 through a struct freed and allocated again), three
for the mixup of min 3.  In the tree, six keys reach recolouring that moves up, each
repair of an insertion that does not turn a left child, removals with a successor
and with one child, and the full tree.  Three keys in a bucket have a first, a middle and a last node; the
fourth makes the table grow.  Five forks are two workers and three replacements.
min 2 is the bound that matters: larger pools lose the guarantees as soon as a
connection in use fails, which `Worker_mixup` shows.  Two commands at a time are enough for a
client to leave two connections behind, and as many as a worker with transactions is right for,
reused client structs aside: with three, EXEC may meet the entry that a failed
command has left in `cToR` (number 26 of section 5).  Without transactions the number does
not matter, which is proved (`OwnRepliesOnly`).  In `Relay`, 7 bits put both overflow tests
of parseInt and the signed limit inside three digits; three messages are one
complete, one complete and lost behind it, one pending; arrays of two elements have a
cut between them, and replies are of each kind that RESP2 has, with arrays of strings, of numbers, of
lines, of arrays and mixed ones.  In `Accept`, three clients are one in the making, one being removed
and one at rest, and one more than there are places.

`Worker_answers` has max 3 and up to 4 commands, so the pool comes to refuse (a client that comes after
that is parked, see number 24, and `Answered` does not speak of it); sockets fill up,
and the `EAGAIN` that this leaves in `errno` makes reads return unprocessed.  `Answered` therefore has
`Stalled` as an outcome: `errno` is `EAGAIN` at the time, or bytes read under it lie in the client's buffer or
its connection's.  No other way to wait for ever exists within these limits: Redis closes no connection in this
run, in use (a client that writeR forgets then waits, number 8) or idle (the worker may follow the freed
struct in its list, which ends it), there are no transactions, and the lookups in the
maps are taken to end (number 3: with enough puts and removals in `cToR` or `rToC` one does not, and the
event loop stops in it).

**Fairness.**  `Worker`: every event is persistent and level-triggered and each
round of libevent dispatches all ready descriptors, so a handler that stays
enabled runs (WF per descriptor); Redis answers what it was sent.  No
fairness on clients, nor on closing or failing.  `Accept`: both threads are scheduled
(WF on the accept thread, and on the event thread between its decision and the end of
the removal); the loop calls the handler of a client that is gone or to be closed, which
is SF because the loop is busy with other clients in between; clients leave
eventually.  `Relay` has no liveness: it ends with the stream.  `Master`: the operating system schedules
master and workers (WF on the master's loop and on a worker's start), and
clients eventually leave, which is what a stopping worker waits for.

**Deadlock checking is off** because every model can stop for good reason: all
clients done, the pool closed, the master ended, a process dead.

## 4. The proofs

`PoolUse_proofs` proves, for every `MinNum`, `MaxNum`, `NRedis` and set of
owners allowed by `SizeAssumption` (`1 <= min <= max`, which run and initPool check, and memory
for `max` connections):

* `TypeCorrect`: `Spec => []TypeOK`;
* `AccountingHolds`, `LimitHolds`: the counters add up to `min` while idle
  connections are promised, and at most `max` connections are open, *whatever
  fails*.  Neither is inductive: that no connection is opened beyond the limit
  follows from `CountInv`, which adds that the allocated structs are at most
  `avalidNum + activeNum`.  Each operation moves one side of that inequality with
  the other: a pop moves a unit from one counter to the other, `newRedis` adds one to
  both sides, a free only lowers the left one.
* `ExclusiveHolds`, `HeadUsableHolds`: nobody shares a connection, and the head that
  `avalidNum` promises is one.  There are two cases, with an invariant each.  With
  `min <= 2` and no idle failure, `SmallInv`
  enumerates where the head can be for `avalidNum` 2, 1 and 0: at most one struct is
  below a lent one, so the stale `next` that delRedis uses cannot name a lent struct
  while `avalidNum` promises one.  Without any failure, `ListInv`
  states for every `min` that there are ranks on the structs that decrease along `next`,
  that no two idle structs share and that none exceeds the head's, so the free list has
  no cycle and no lent struct.  `FailedGrows` says that failures are never
  forgotten, so each case, once left, is left for good.

The module goes on from `ListInv` (`ListInvariant`), for pools of every size in which
nothing has failed:

* `NoCrashHolds`: no NULL or freed struct is followed.  freePool's walk needs the most: the
  list ends, and every struct on it is allocated.
* `NoLeakHolds`: every struct that is open and not lent is on the list.
* `StackImplemented`: `Spec => StackSpec`, the pool is a stack of idle connections.

All three rest on `ChainIsIdle`: the walk from the head visits each idle struct once and then
NULL.  `Chain` is defined through a recursive function (`Node`), which is first shown to
exist (`Iterates`, `Unfolds`, `NodeDefined`); that an idle struct cannot be missed follows by the least
counterexample (`LeastNumber`, from `WFMin`), as ranks decrease.  For the refinement, the lists
before and after an operation are compared through their ranks: a pop leaves the tail
(`PopIsTake`), a put adds a head (`PutIsGiveBack`), and newRedis leaves the list alone
(`NewIsOpen`).

With these, every property of the run `PoolUse_lending` is also a theorem.

`Accept_proofs` proves, for any set of clients, any finite set of descriptors and all limits
of at least 1 (`AcceptAssumption`):

* `TypeCorrect`: `Spec => []TypeOK`, which includes `total \in 0 .. MaxClient`: the
  full tree refuses, and a removal only counts what is there;
* `RegisteredHolds` and `ClientLimitHolds`.  The invariant, `Inv`, has four parts beyond the
  types.  `Threads` says what each program counter implies: a client in the making is
  served or freed and there is room for it, one in removal is remembered with its
  descriptor.  `Descriptors`: a client's descriptor is open from accept to close, no two
  clients share one, and the accepted one is not yet given to anybody.  `Table`: an entry is of a
  client that was served and is not the one in the making, and there are at most `total`.
  `Apart`, while nothing has raced: `total` is exactly the number of entries, every entry is of
  a client served or in removal, every client served and at rest has one, and a client
  freed in the making is the one whose removal is under way.  `Descriptors` and `Apart` are what a
  step of one thread needs to know of the other: the accept thread's `Put` does not hit the
  entry that `RemoveClient` is going to remove.  That the
  limit holds although the load is tested long before the client is put in needs that
  nobody else adds in between (`Threads`): removals only lower `total`.

`HashTable_proofs` proves, for any set of keys and values, any first size of the table and
any bound on its growth (`HashAssumption`), that every property of the run `HashTable_use` is a theorem:

* `TypeCorrect` and `PartitionHolds`, whatever happens to the chains.  `Sane` is the invariant: the nodes in
  use are below `avalid`, `avalid` is within `max`, and they are as many as `total` says (`Counted`);
  there are ranks on the removed nodes that decrease along `next`, that no two
  share and that none exceeds the head's (`Listed`).  So the walk from `undef` meets every
  removed node once (`RemovedIsFree`), a node taken from it was free, and a table with
  `undef` empty has no free node below `avalid`, which is what growth relies on.
* `WalksEndHolds`: until a key is removed, every link leads from a node to an older one
  (`Ordered`); a walk therefore is shorter than the table.
* `FaithfulHolds`: until the table grows, a lookup that ends finds what was put.  Removals
  join the chains of buckets and close them to circles, so no statement about whole
  chains survives.  The invariant (`Right`) is what does: keys are unique among the nodes in use
  (`Keyed`); each node in use is the first of its bucket or the `next` of a node in use of its own
  bucket, which is nearer to the first (`Chained`, a rank again); the nodes in use hold the
  callers' map (`Stores`).  A key that was put is hence met by the walk from
  its bucket, and one that is met is the right one; a removal links the predecessor of the
  node to its successor, and a head that it leaves behind is not in use, where a walk ends.

`Worker_proofs` proves, for any number of clients, commands per client and commands in
flight (`Window`), every pool that `SizeAssumption` allows and every `Env` without transactions
(`NoTransactions`: no MULTI and EXEC):

* `TypeCorrect`: `Spec => []TypeOK`;
* `RepliesHold`: `Spec => []RepliesAwaited`.  The invariant counts commands per connection
  (`Counted`): those waiting, at Redis, coming back and read in part are at most
  `rNum`, exactly as many while Redis has not closed the connection, and none when it has no
  client.  A part of the argument is about the clients: a client that `malloc` left in block state
  never gets a connection (`Idle`), and without MULTI no batch ends in block state (`Sent`,
  `NoMarks`, `GoodIsPlain`), so a connection that is handed commands is mapped to their client.
  With MULTI it does not hold: readC then hands commands to a connection that it maps to
  nobody (TLC finds it in four steps), whose replies readR drops with the connection.

It goes on from that invariant, for any number of clients, commands and
commands in flight, whatever fails:

* `OwnRepliesOnly`: `Spec => []OnlyOwn`, without transactions and for `min <= 2` (`SmallPool`): whatever
  a client receives was sent for itself or for a client in `was[c]`, whose struct it was given, and is
  received once.  Both conditions are needed: number 26 of section 5 and `Worker_mixup` are the counterexamples without.

The invariant, `OwnInv`, adds two things.  `Lending` is about the pool: a connection that getRedis
returns has no client (`GetsUnused`).  That `redises` names no connection in use is not
inductive, since delRedis makes the `next` of any struct the head; `NotLent` therefore speaks of
the links of lent structs too, and only while `avalidNum > 0`, when the head is used.  With
`min <= 2` the first grant is the only one that leaves a listed connection behind, and
`Untouched` says what the list is until then: as initPool made it, but for deletions.
`Placed` is about commands: each is in one place, at its owner's.  Nothing is twice on a
connection (`LineOnce`) or with a client (`HasOnce`), no two places share anything, and what is on
a connection was sent by the client that `rToC` maps it to, or by one whose struct that client was given
(`Owners(c)` is `{c} \cup was[c]`).  When `c` is given the struct of `d`, which is gone, all that was still
on `d`'s connections becomes `c`'s, and `Owners(d)` goes over to `c` with it (`AcceptOwn`); a client that
has just come has nothing else anywhere, and one that is gone has nothing in its buffers.  Numbers up to `Passed` are those
that readC has taken, and the rest follow in order (`Numbered`), so what a batch
adds is new everywhere.  `rToC` is never wrong about who is waiting, though `cToR` may be:
without transactions readC finds no connection to use there.

Its last part proves the rest of `Worker_session`, for clients that wait for each reply
(`OneAtATime`: `Window = 1`; a second command overwrites the entry in `cToR`), and again
without transactions and for `min <= 2`:

* `MapsStayInverse` and `NothingDangles`, `MapsInverse` and `NoDangling` as the run checks them;
* `SessionKept`: `Spec => KeepsSession`, the refinement of `Session`, with every failure.

The invariant, `SesInv`, is `OwnInv` and `Ses`.  `ClientOne`: what a client has sent and not been
answered - in its socket, in the buffers, on a connection - is one command at most, and it is
the last (`Out`).  `LineOne`: a connection carries that command and no other, and `cToR` maps its client
back to it, so `rToC` names no client that is gone and there is no struct to take over (for clients that
wait for each reply `was` stays empty); the converse, `MapsTo`, ends with the first connection that Redis closes, when writeR
leaves an entry behind.  `FreedLinks`: a freed struct links to nothing, which keeps
a head taken from it from naming a mapped connection.  For the refinement, what
writeC sends is the reply to the client's last command, and the replies before it have been
received, each once, so it is the next one (`NextReply`); all other steps close the
client or change nothing that `Session` sees (`SessionStep`).

With these, every property of the run `Worker_session` is also a theorem.

`RBTree_proofs` is about the operators of `RBTree`, for trees of any size (`NodeAssumption`: the
number of addresses is a natural number).  `Sound` is what a red-black tree is, said without walks, so that a rotation
can be reasoned about: `sub[n]` names the nodes at or below `n` and `h[n]` its black height,
and one condition per node relates them to its children's (`Shape`, `Tinted`; `Calm`: no red node has
a red parent).  Left and right are mirror images: the lemmas about shapes speak of `near` and `far` links
and of an order that may run either way (`Mirrored`), so each is proved once.

* `PutSound`: a put that is not refused adds one node with the key, and the tree is sound again, or a
  left child was turned.  Between two turns of fixAfterInsert's loop only one thing is wrong: the current node may be
  red below a red parent (`Mid`).  A red uncle moves the current node up two levels, with more
  nodes below it; a black uncle ends the loop (`SettledMid`).  So the loop ends within as many
  turns as there are nodes, and the bound on the iteration in `RBTree` cuts nothing off (`FixDone`).
* `RemoveSound`: a removal leaves a sound tree with all other keys, or an empty one, and turns no left
  child.  The proof found that the body of fixAfterRemove's loop is dead code as long as the
  tree is sound: a node that is replaced by its child has no other, so it is black and the child
  red, and the loop does not start; for one without a child the tree is emptied
  instead (tree.c:267).  `BlackSib`, `RedFar` and `Lifted` are therefore never reached there.
* lookups: every way from the root is defined and ends (`WayDefined`), it finds the node with
  the key if there is one (`FoundKey`), FOREACH_TREE meets exactly the nodes in use
  (`TidyKeys`), and no rotation, of a left child or not, leads to a node that was
  not led to before (`RotateHeld`).

`TreeUse_proofs` proves from these that every property of the run `TreeUse_churn` is a theorem, for
any number of keys and addresses and any limit (`UseAssumption`): `TypeSafe`, `StaysRedBlack`, `KeysStay`,
`NeverStale` and `CountHolds`.  The invariant (`Kept`) has the tree sound and, until a removal empties
it, complete while no left child has been turned; what remains after such a turn is that links
lead to nodes in use, which needs no shape (`Held`).  For `RedBlack`, which counts the black nodes on the ways to the
leaves, `Walked` relates a way to the heights.

`Master_proofs` proves for any number of forks, commands, clients and restarts, and every `Env`
(`MasterAssumption`):

* `TypeSafe`: `TypeOK`, with at most two workers and at most two places for clients in each;
* `TrackedHolds`: `Tracked` (which speaks of one worker);
* `EndsAfterWorkers`: `EndsLast`, with at most two workers (and for two until a restart, as the
  property itself says).

`Small` is what makes these possible: a tree that may have two keys at most is never
turned below a left child, since its root is black and its second node hangs below it; it is sound for ever, and its
count is at least the number of its nodes.  `Single`, for one worker: the tree of children is exact - empty
while the worker is replaced, otherwise the worker's pid, or 0 for one that was not forked - and
while it is empty no process is left.  `Pair`, for two: the tree may be emptied by
a removal, but its count never is below the number of processes, until a restart replaces the
tree.  The argument needs that a pid is put once: it is no key of the tree when its put comes, so it counts.
A new tree that SIGHUP builds holds one pid of the old (`LeastIs`), or stays empty.

Only model-checked, and why:

* liveness under fairness (`Answered`, `StopEnds`, `NoIdleMaster`, `RestartRenews`) is out of the
  prover's reach, and so is ENABLED;
* `OnlyOwn` with transactions and two commands at a time: handlers may then use connections that
  are mapped to nobody, and the awaited replies are not counted right (see above), so
  it needs another invariant than `OwnInv`;
* `Master` with more than two workers, or workers with more than two clients: their trees may turn
  a left child, and then lose nodes that the count still includes, or close to a cycle.  `Small` says nothing
  of such trees, and `Tracked` and `EndsLast` say nothing of more than one worker after a
  restart, so this is where the theorems end;
* `Relay`, whose parsers are recursive operators, and `ParseInt`, whose result is defined by
  recursion over the digits.

## 5. Known divergences

Where code and its own documentation or evident intention differ.  Numbers 2 and 4
have a run of their own (`findings` in `PROJECT.json`).  The others were
seen with the same models, by stating the property or changing the setting named here.

Pool, worker, maps and master:

1. putRedis does not restore the counters: an idle pool answers "Server is
   Busy" for ever (`PoolUse`: a pool whose users hold nothing refuses; pool.c:187).
2. delRedis relinks through a stale `next`: two clients share a connection
   (`Worker_mixup`; pool.c:226).
3. hashRemove joins a bucket and the list of removed nodes: a lookup never returns
   (`HashTable`: `status` becomes `"hung"` with 2 keys; hash.c:268).
4. treeRemove of a leaf empties the tree: the master stays after its last worker
   (`Master_stop`; tree.c:267).  For the same reason one worker with two clients
   stays after the last has left (`Master_live` with `MaxFd = 2`).
5. A table that grows finds none of its old keys but the first (`Faithful` without its
   premise; hash.c:201-205); one of 16 nodes with more than 8 entries crashes on its
   next removal (`status`; hash.c:137-141).
6. A rotation below a left child attaches the subtree on the wrong side
   (`RedBlack` without `~tree.bent`; tree.c:82, 108).
7. A client in a transaction has no connection of its own after MULTI, as `isBlock`
   is set before the maps are (server.c:499); its next command closes it.
8. A client that breaks the protocol is closed without the error message
   (server.c:474-482).  One whose connection to Redis fails on a write is neither told nor
   closed (server.c:544-551): its entry in `rToC` is removed before the client is looked up there.
9. A second command before the first reply takes a second connection and
   overwrites `cToR` (server.c:514): `MapsInverse` fails with `Window = 2`.
10. Writing to a client that has gone may raise SIGPIPE, which ends the worker
    (`BrokenPipe`; client.c:168, against the error handling of client.c:180).
11. With several workers, "restart" leaves the master with one pid
    (cmd.c:113-116): `RestartRenews` fails with `Sizes = {2}`.
12. A "stop" that reaches a replacement worker before it installs its handlers is
    lost (server.c:1206): `StopEnds` fails in `Master_live` with `"early"`.  So is one that comes when
    restartWorker has found `isExit` unset (server.c:1254) and the new pid is in no tree yet (1270): the
    replacement is born with `isExit` set, but is not signalled, and looks at it only after a client
    (`StopEnds` fails with `"anytime"`).
13. With several workers, the second replacement in a row is given the contents of a
    pipe as its pipe (server.c:1267): `arg` becomes `"wild"`.

Bytes (`Relay`, `ParseInt`):

14. parseInt accepts no digit 0 after the first (types.c:297): a string of length 10, an
    array of 10, or the reply `:10`, is a protocol error that closes the client
    (`EndsOnly` without `HasInnerZero`).
15. "内容不足也直接复制到命令中，不用再等待所有数据传输完成" (multibulk.c:15: incomplete
    content is copied at once, without waiting for the rest) is not what happens: nothing
    of a pending command leaves (types.c:412), and when a complete one precedes it,
    srangeArrayBuff clears the pending one with it (types.c:161-213), so that its
    beginning is lost (`AllThrough` for more than one message).
16. A reply whose first line is cut before its CR leaves `pendding` set with an empty array;
    mvArrayBuff then moves 2^64 - 1 buffers (types.c:412) and the worker crashes
    (`EndsOnly` without `"head"`).
17. A read that ends between two elements of an array, or between CR and LF, is a protocol
    error (multibulk.c:68, 230), and in processRedis, which skips the LF unseen, leaves a
    byte that later counts as a reply or gets the connection deleted
    (`CleanReturn` without `"crlf"`).
18. The reply `$0` (an empty string) leaves its second CR LF in the buffer, which is taken
    for the next reply (multibulk.c:84-95; `EmptyString`).
19. baseWrite sends at most PER_IOBUF_SIZE of a buffer and takes it for sent, as `over` is
    always true (client.c:187): longer buffers are cut off (`AllThrough` without
    its bound).
20. Memory is overwritten by srangeBuff (types.c:116: clears as much as the whole buffer behind
    what is left), resizeBuff (types.c:64: continues at the old address), addBuff
    (types.c:366: rounds down) - `"smashed"` - and newBuffArr and clearArrayBuff clear 60
    bytes, not 60 pointers (types.c:42).
21. An error that addReplyCmd queues for a client is in the array to Redis
    (client.h:96) and never reaches the client.

Accept thread and overload (`Accept`):

22. The event thread closes a descriptor before it takes it out of the tree
    (server.c:574); accept() may hand it out at once, and the removal then hits the
    new client, which is served uncounted: the limit may be exceeded, and a stopping worker may end under it
    (`Registered` without `raced = {}`).
23. newClient registers the events before it sets `isQuit` (client.c:57-61): the event thread
    may free the struct before acceptC puts it into the tree, where it stays: a
    worker told to stop then waits for ever (`StopEnds` without `raced`). An `isQuit`
    set meanwhile is overwritten.
24. A worker that is alone and has its load crashes, as `socks` is NULL (server.c:688); one of
    several parks the listening descriptor and leaks the client's (server.c:686-704),
    five times, and then refuses.

A fork that fails (`Master` with `"fork_fails"`):

25. The replacement is put into the tree of children as pid 0 (process.c:42,
    server.c:1271): the master neither forks again for it nor ends (`NoIdleMaster` and
    `StopEnds`), and a stop or restart signals the whole process group, the master
    itself included, for ever (cmd.c:119); a restart becomes a stop.

Transactions (`Worker` with `"multi"`):

26. When a write to Redis fails, writeR removes the entry of `rToC` before it looks the client up
    through it (server.c:544-545): the client is not closed, and `cToR` goes on naming the freed
    struct.  A client that has sent a plain command, MULTI and EXEC has its EXEC put on that
    address (server.c:456) and mapped to it (515).  If `malloc` has given the struct to another
    client's connection meanwhile, it gets that client's reply (`OnlyOwn` in `Worker_pipelined` with `MaxCmd = 3` and
    `Window = 3`, after 16 steps).

Others:

27. A client that leaves with commands under way on two connections has one of them removed from the maps
    (server.c:436-446); `rToC` maps the other to its freed struct.  If the next client is given that struct
    (client.c:29), readR sends it the replies of the one that left (server.c:370-379); if not, it
    follows a freed pointer (`OnlyOwn` in `Worker_pipelined` with `= c` in the place of
    `\in {c} \cup was[c]`; the counterexample has 13 states).
28. A reply that is an array of anything but bulk strings - `*1 :5`, the `+OK` within the reply to an EXEC,
    a nested array - is a protocol error that closes the client (multibulk.c:68; `EndsOnly` without
    `InArray`).
29. `errno` is tested after reads that succeeded (server.c:389, 449): after one send that found a socket
    full, commands and replies are read and lie in their buffers until more arrives and `errno` has
    changed, so a client may wait for ever (`Answered` without `Stalled`).

## 6. Not modelled

* **Set-up and configuration** (`main.c`, the part of `run` before the loop,
  initPool failing half way): pure I/O; the checks of rp.ini are assumptions.
* **readS, updateMin and the sending part of writeS**: no message is ever sent.
  writeS returns before it sends as `socks->min` is NULL, and only readS, on a message that
  another writeS sent, would set it.  The readme's exchange of connection counts
  between workers does not take place.
* **Arrays beyond their first size, lines beyond MAX_INLINE_SIZE, `argc` and the command
  names**: `Relay` bounds messages below them; `Worker` has what MULTI and EXEC change.
* **Handlers that interrupt tree or allocator code**: signal handlers run
  between the steps of the master's loop only.
* **Failing `malloc`, a fork that fails at start-up**, stopped children reported as dead
  (process.c:126-134), and the pid-file commands.
* **libevent's own state** under two threads that use one base without its locks.
* logging, crc32, map values, stack, event wrapper: no state a property is about.

## 7. Plan

Done, in this order: `Pool`, `PoolStack`, `PoolUse` with their proofs; `Worker` with
`Session`; `RBTree`/`TreeUse` and `HashTable`; `Master`; `ParseInt` and `Relay`; `Accept`
with its proofs.  The order was by how much of the system rests on a module.

What could follow: stopped children in `Master`; the walk with the
stack (FOREACH_TREE) under a handler that interrupts it; `Relay` in place
of the whole commands of `Worker`, for which both would need to be smaller.

Proofs to come, in the order of what they would say: that `ParseInt` never exceeds its width, for which
its recursion would have to be a function; `OnlyOwn` with transactions and two commands
at a time; the order of the bytes in `Relay`, whose parsers are recursive operators as well; `EndsLast` with
more than two workers, for which it would have to be known what a bent tree can still lose.
