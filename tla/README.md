# Formal model of YAMemcached

YAMemcached is a multi-threaded memcached clone in C++: a listener thread hands
accepted connections to worker threads, each worker runs an edge-triggered epoll
loop over its sessions, and all workers share one hash table with per-thread LRU
lists.  The concurrent data structures are hand-written, without mutexes.  This
directory models them, the worker's event loop, the text and the binary protocol and the
command matcher in TLA+, checks the models with TLC and proves the safety of the session
pool's queue, the lock-free lists, the hash table, the UDP worker and the server thread with
TLAPS.

Paths are relative to the repository; the program is in `src/src/`.

## Inventory

| Part | Source | State | Operations | Users |
|---|---|---|---|---|
| Session pool queue | `LFSPSCQueue.h` | two ring buffers (lanes) with head and tail, `laneSwitch` | `push`, `pop` | worker pushes, listener pops |
| LRU and free lists | `LFLRUHashTable.h` 150-311, 530-574 | one 64-bit word `links` per element; per thread `head`, `tail`, `freeListHead` | `unlinkElement`, `linkHead`, `unlinkTail`, free-list push and pop | the hash table's operations |
| Hash table | `LFLRUHashTable.h` | slots `elementLinks` (element number, free mark or lock mark), `elementStorage`, a `locks` array per thread | `get`, `set`, `insert`, `insertOrSet`, `remove`, `removeFromHashPos` (eviction), `removeFromHashKey`, `processHash` | both protocols, on the worker's thread |
| Worker thread | `ServerThread.cpp` | session pool, `sessionBacklog`, epoll set, UDP socket | constructor, `addSession` (called by the listener), `threadProc`, `stop` | listener, main |
| Listener | `Server.cpp` | listening socket, `nextThreadIdx` | accept loop, `start`, `stop` | main |
| Session | `Session.cpp` | input and output buffers, `state`, `requestInfo`, `postponedEpollFlags` | `process(events)` | worker thread |
| Text protocol | `RequestProcessor.cpp` | `requestInfo.state` and offsets into the session's buffers | `processRequest`, `parseMemcachedHeader` | session |
| Binary protocol | `YAMBinaryProtocolProcessor.cpp` | none between datagrams | `processBinaryRequest` | worker's UDP path |
| Command matcher | `FastSubstringMatcher.*` | a table of matchers, built once | `SetKeywords`, `MatchSubstring` | text protocol |
| Start-up, vendored code | `YAMemcached.cpp`, `xxhash.*`, `string.hpp`, `trbtree.hh` | | | |

How they interact.  The listener and a worker share only the worker's session pool
and epoll set: `addSession` pops a session and adds the socket to the worker's epoll
set; the worker pushes the session back when the connection ends.  Workers share only
the hash table.  Within it, an operation locks slots, works on elements, unlocks the
slots, and *then* works on the LRU lists with the element number it found.

What is hard here:

- the queue swaps its lanes under both sides, on data that is plain memory;
- `unlinkElement` takes three word locks in any thread's list while the owner works
  on the two ends without locking;
- the table unlocks a slot before it touches the LRU list, so element numbers are stale;
- deletion in a linear-probing table moves entries while others probe;
- callers ignore results (`push`) or skip tests (the free list's end mark), relying on
  invariants that nothing in the code checks;
- edge-triggered epoll: a session that forgets pending input, or a batch of datagrams that
  leaves some behind, is never woken again;
- CAS holds slot locks from one operation of the table to the next;
- the UDP path uses one buffer for the request, the reply and the next request.

What makes each part correct: the pool hands out every session at most once, never
loses one and refuses only when it is empty; the lists stay doubly linked and every
element is in one place; a key that was stored is found until it is evicted or removed,
and answers are those of a map; every operation returns; a session answers every
complete request; a worker returns a session to the pool once.

`PROJECT.json` lists the hazards line by line with the properties that cover them.

## Modules

| Module | Models | Checked by |
|---|---|---|
| `SessionPool` | abstract: what the pool promises | refinement in `LFSPSCQueue` |
| `LFSPSCQueue` | `LFSPSCQueue.h`, one action per atomic access | `MCLFSPSCQueue` |
| `LFSPSCQueueProofs` | theorems about `LFSPSCQueue` | tlapm |
| `LRULists` | the `links` words and the list ends | `MCLRULists` |
| `LRUListsProofs` | theorems about `LRULists` | tlapm |
| `Cache` | abstract: a linearizable map with eviction | refinement in `LFLRUHashTable` |
| `LFLRUHashTable` | slots, slot locks, elements; lists as sequences | `MCLFLRUHashTable` |
| `LFLRUHashTableProofs` | theorems about its locks | tlapm |
| `HashTableElementsProofs` | theorems about its elements and lists | tlapm |
| `HashTableProbingProofs` | theorems about its contents | tlapm |
| `HashTableCacheProofs` | it implements `Cache` | tlapm |
| `Session` | `Session::process` and the sockets it works on | through `ServerThread` |
| `ServerThread` | the worker's loop, the listener and the clients, on `Session` | `MCServerThread` |
| `ServerThreadProofs` | theorems about `ServerThread` and `Session` | tlapm |
| `RequestProcessor` | the text protocol on input that arrives in pieces | `MCRequestProcessor` |
| `Numbers` | the conversions of `Common.cpp` between numbers and numerals | through `RequestProcessor` |
| `HashTableCas` | `LFLRUHashTable` with compare-and-swap | `MCHashTableCas` |
| `FastSubstringMatcher` | the command matcher | `MCFastSubstringMatcher` |
| `YAMBinaryProtocolProcessor` | `processBinaryRequest`, as operators on a buffer | through `UdpWorker` |
| `UdpWorker` | the datagram side of a worker, and stopping | `MCUdpWorker` |
| `UdpWorkerProofs` | theorems about `UdpWorker` | tlapm |

Operators with a comment `mutant:` are deliberately wrong variants of the definition
that follows them; no specification uses them.  They record, for every property, a
slip in the code that the property would catch.

### LFSPSCQueue

Variables are the fields of the class (`laneSwitch`, `head`, `tail`, `ring`) and the
locals of the one `push` (`ppc`, `pcur`, `phead`, `pval`) and the one `pop` (`cpc`,
`ccur`, `ctail`, `cval`) that can be active, because only the worker pushes and only
the listener pops.  `held` is the set of sessions outside the queue; the constructor of
`ServerThread` pushes them all before the threads start (`built`).  An action ends at
each access another thread can observe; loads of an index that only the own side
stores are merged with the following access.  The CAS on `laneSwitch` has its failing
branch, including the reload.  `laneSwitch` has `SwitchWidth` values and wraps, as
`size_t` does.  `PushCheck` has the branch in which `push` returns false and its caller
drops the session; that it is never taken is a result.

### LRULists

`links`, `head`, `tail`, `freeListHead` are the program's; `th[t]` holds the locals of
a thread's operation; `lists` and `frees` are history variables: the lists as their
owners see them, changed at the instant an operation takes effect.  The hash table
above is external to this module: an operation may be called with any element number
that was ever put in a slot (`known`), because the table calls it after unlocking.  A
CAS that fails leads where the code goes (`retry`); the CAS loops that only rewrite
one half of a word (lines 234-256, 285-296) are one step.  The starting state is a
table in use: one thread has inserted all but one of its elements.

### LFLRUHashTable

`slot` is `elementLinks`, `key` and `val` are `elementStorage`, `lru` and `free` the
lists.  `th[t].locks` is the thread's `locks` array and `start` the first slot of its
range.  Each lock acquisition, each unlock, the access to the element, and each list
operation is an action; `abort()` is the label `aborted`, the read outside
`elementStorage` the label `wildRead`, and both end the process.  `Unlinkable` is
what `LRULists` says of `unlinkElement`, and `UnlinksInside` proves: it succeeds except on the
two elements at either end of a list.  The hash function is the constant `Home`.  `processHash` locks and
unlocks one slot after the other (`Visit`, `Leave`).  Not modelled: the move counters and
the expiration-time map, which nothing reads (and which therefore only grows).

`TheCache` maps the table to `Cache`: the map is what the slots hold, whoever has
locked them, minus the hole of a removal in progress; a request takes effect when
its element is read, written or entered under the slot's lock, or when its slot
becomes the hole.

### HashTableCas

CAS is `get` with `casLocks`, which returns with its slots locked, followed by `set` or
`unlockElement` with the same array.  The module adds these steps to those of
`LFLRUHashTable`.  `get` assigns the locked range to parameters it has by value, so its
callers continue with the range 0 to 0: `UnlockZero` stores the first locked content into
slot 0, and `CasEqual` is `set` with a lock depth of `hashSize`, which reads behind
`casLocks`: the process ends, or some element is overwritten.  Whether the tickets are
equal is the client's choice.

### Session and ServerThread

`sess` holds the fields of each `Session`, `sock` the kernel's and the client's side of
each socket, `call` the locals of the one active call of `process`.  Input and output
are counted in units: a request is some `part` units and a last unit that is answered
(`ask`) or not (`quiet`), a reply is one unit; `Threshold` is `EPOLL_READ_THRESHOLD` and
`Room` the size of a send buffer in such units.  A step ends at every `recv` and `send`,
because the client may send, read, close or reset in between.  The two switch
statements of `process` are the two values of `call.phase`; EPOLLIN is handled first and
may fall through to EPOLLOUT with the state it has left, as in the code.

Epoll is external and modelled after its use here: registration is edge triggered
(`edge`), an edge is set by new input, by the end of the stream, and by room in a send
buffer that was full, and the mask of an event is the state of the socket when
`epoll_wait` returns, so that it may be stale when the event is handled.  `epoll_wait`
takes all woken sockets in one batch, which is handled in any order.

`ServerThread` has the backlog loop, the epoll loop and what becomes of a session after
each result of `process` (`Dispatch`, shared by both loops), and the listener's accept
and `addSession`, with the failing branches: a failed `accept` goes on with socket
number -1, a failed `epoll_ctl` leaves the session nowhere (`lost`).  The pool is
what `LFSPSCQueue` implements; it counts the entries of a session so that returning
one twice is visible.

### RequestProcessor

The buffer is a sequence of symbols (words with the space in front of them, CR, LF,
units of data); it grows by any prefix of what has not arrived.  `req` is `requestInfo`
with `headerLen`, and positions are indices into the buffer.  Each case of the switch in
`processRequest` is an action, with one for "not enough" beside it;
`parseMemcachedHeader` is one step that succeeds or fails, and adds keys to
`getKeysList` in both cases.  The difference of unsigned numbers in the test for enough
data wraps at `SizeRange`.  Characters behind the input are whatever the buffer held
before, so a test of them has both outcomes.  Flags and lengths travel as numerals: `itoa`
writes them, `atous` and `atoull` read them (`Numbers`), and the properties read the replies
with a definition of their own.  `Finish` is what `Session::process` does after the loop: the leftovers
move to the front and are parsed again, a used-up buffer is emptied, anything else
aborts.  The table is a map from keys to data here; that it behaves as one is the
subject of `LFLRUHashTable`.  `Reference` answers the same requests one after the
other, each complete.  `stats` answers with the number of slots, because `processHash`
calls the counter for free slots too; this is what the reference answers as well.

### FastSubstringMatcher

`SetKeywords` and `solveMatchers` are recursive operators on groups of candidates;
`spotSelector` is the list of spots for each length that `MatchSubstring` walks, one spot
per action.  A keyword that is given twice would make `solveMatchers` recurse for ever and is
excluded by an assumption.  `BestPos` takes the leftmost of equally good positions, as
`std::sort` does on the up to 16 positions of a word.

### YAMBinaryProtocolProcessor and UdpWorker

A buffer is a sequence of cells, the first of which is the header.  `Request` is what one
call of `processBinaryRequest` works on: the buffer, the reply so far and the table.
`Overwritten` is the shared buffer: a reply replaces the cells of its request, so that what
SET finds when it falls through into ADD is the reply's header, with a key length of 0.
SETQ writes no reply and does fall into ADD.

In `UdpWorker` the kernel's receive queue and the edge of the registration are `rx` and
`edge`; `msg` are the messages with their buffer, `iov_len` and address, reused by every
`recvmmsg`.  `Recv` cuts a datagram to `iov_len`, `Process` sets `iov_len` to the length of
the reply.  Between the two table operations of a SET other workers may evict (`Evicted`).
`sendmmsg` may send any number of the messages.  `asked`, `whole`, `due`, `served` and `got`
are history.  Stopping: the handler of SIGTERM runs on the main thread, sets `shouldStop`
and joins the worker; then main deletes the server with the table.

### Memory model

Actions are interleaved, so memory is sequentially consistent.  The build targets
x86-64.  There the only reordering is of a store with later loads of other words; the
stores that publish a result are last in their operation, locked read-modify-writes
drain the store buffer, and `compare_exchange_weak` does not fail spuriously.

## Runs

| Run | Question | Bounds |
|---|---|---|
| `queue` | every interleaving of push, pop and swaps: types, races, conservation, no failed push, no false "empty", refinement of `SessionPool`; push and pop return | 3 sessions in lanes of 3 slots (2 usable): a lane fills up, swaps happen on both sides and from both causes; `SwitchWidth` 4, so it wraps |
| `lru` | list structure under all operations | 2 threads, 2 operations each; a list of 6 (unlinking needs 5) and one free element, so that the next insertion evicts |
| `hash` | locks, probe sequences, free elements, no abort; every operation returns; refinement of `Cache`, without removals | 2 threads, 2 operations each of get, set, insert, insertOrSet, processHash; 3 keys in one cluster with two homes, 2 elements per thread: every second insertion evicts; one value, so that answers tell keys that are there from keys that are not |
| `hash_remove` | conservation of elements, with stale element numbers and removals | 2 threads, 2 operations each of insertOrSet and remove, on a list of 5, the shortest from which an element can be unlinked, with one free element, so that an insertion evicts and the next one uses the evicted element again |
| `worker` | a session is in one place, edges are not missed, a session that waits to write has something to write, the worker closes no connection of a client that stays, every request is answered, a reset connection is returned | 2 sessions, 2 sockets, 2 accepted connections, 1 failing call; one client sends two answered requests and the start of a third, the other a request without answer; `Room` 1, so that the second reply blocks and input arrives while the session writes |
| `request` | replies in order, every request answered and carried out once, no abort, positions inside the buffer | all sequences of three out of eight requests (five storage, two retrieval with one and two keys, stats), cut anywhere but between CR and LF |
| `matcher` | every keyword is found as itself, other words are decided as by the decision tree, the walk stays in its list | the server's 16 commands, and all ordered lists of 1 to 4 of the 8 words of three letters over {a, b}, which include groups inside groups; looked up: all of these words and a few others |
| `udp` | no datagram is left behind, every client gets its own reply, what is stored is what was sent, every datagram is served, stop returns | 3 clients, batches of 2, so that a batch is full and a buffer is used again; 16 requests with every opcode, on a key that is there and one that is not; evictions and the signal at any time |

The `queue` run uses a view that ignores the content of free slots; nothing reads it,
so states that the view identifies have the same futures.  Larger instances of the
queue, the lists, the table, the worker and the UDP worker are covered by the proofs.  The homes of the
passing hash runs keep clusters from going around the end of the array, because of the finding
`hash_wrap` below, and the array of locks is long enough for every probe.

In `hash` the lists are too short for `unlinkElement` to succeed.  What happens when a
thread unlinks an element that has in the meantime been evicted and entered under another
key takes a list of five and four more insertions; it is covered by the proofs, for
`ElementsConserved` with removals (`HashElementsConserved`) and for `FreeNotHashed` and
`ImplementsCache` without (`HashFreeNotHashed`, `HashIsCache`).  With removals the last two are
not true of the code, as described below, and no run checks them there.

In the `worker` run `Threshold` is larger than what a client sends.  Reading up to the
threshold from the backlog breaks two of its properties: `postponedEpollFlags` is set
under EPOLLOUT only (`Session.cpp` 461), so a session postponed by EPOLLIN alone is
called without events and its connection closed, although `ServerThread.cpp` 151 says
that anything in the backlog restarts with a read; and a session that stays in the
backlog and fails in the epoll loop is returned to the pool twice (`ServerThread.cpp`
177).  With `Threshold` 1 and a client that sends three requests TLC shows both
(`ClosedByClientOnly`, `OnePlace`).  In the `request` run no request has `noreply`, an empty
value or three keys, and `NoCut` keeps CR and LF together: each of them breaks a
property for the reasons given in the hazards at lines 435, 44, 468 and 66 of
`RequestProcessor.cpp`.

Four properties have conditions that the code needs.  `KeywordFound` and
`DecidesAsTree` leave out lengths with a group inside a group: the skip count of a group is
its number of keywords, less than its number of spots if it has a subgroup, and with the
keywords aaa, aab, aba, bba the word bba is found as aba.  The server's commands have no
such groups.  `OwnReply` and `StoresWhatWasSent` are about datagrams that fitted into `iov_len`:
what the code does with the others is in the model, and without the condition TLC finds a
client that is answered for an older request of the same buffer.  `OwnReply` also leaves
out SETQ, which reports KEY_EXISTS for the entry it has just written, and
`StoresWhatWasSent` asks only that the stored value begins with the value sent, because its
length is computed with `+ keyLen` (`YAMBinaryProtocolProcessor.cpp` 125, 149, 187).
The values of the run fit into a message; the code does not compare them with
`UDP_BUF_SIZE`.

Fairness.  `FairSpec` gives weak fairness to the steps of a thread inside an
operation: operating-system threads are not stopped, and no step waits for
a condition that other threads withdraw again, except the spinning on locks, which the properties
are about.  Nothing obliges a thread to start an operation.  In `ServerThread` the worker's loop
and the listener's call of `epoll_ctl` after `accept` are fair for the same reason, and
clients eventually read their replies (`ClientRead`), because no server can answer one
that does not; no client has to send or to leave.  In `UdpWorker` the worker's loop and
the main thread are fair: `epoll_wait` has a timeout and the socket calls do not block.

`MaxOps` bounds the operations of a thread; `BoundReached` and `Stopped` let a run end
there.  `MaxAccepts` and `MaxFaults` bound the accepted connections and the failing calls of
the listener, `Streams` and `Scripts` what clients send; `SizeRange` stands for 2^64 and is
larger than any input, `Radix` for 10.  Deadlock is checked in every run but `hash_cas`,
where a thread that spins on a slot nobody will unlock has no step; elsewhere a worker without events
takes `EpollTimeout`, a connection without input `Waiting`.

### Disagreements between comments and code

| Run | Property | What it shows |
|---|---|---|
| `lru_livelock` | `OperationsReturn` | operations documented as wait-free are not: unlinkers of neighbouring elements can undo each other's locks for ever |
| `hash_wrap` | `NoAbort` | the backward shift compares slot numbers across the end of the table; a lost entry makes a later eviction abort |
| `hash_cas` | `CasReturns` | get with `casLocks` loses the range it has locked; after a CAS the slots stay locked and later operations spin for ever |
| `request_split` | `NoAbort` | a line cut between CR and LF ends the process |

Four more can be seen by changing the constants of a run:

- `remove` takes its key out of the hash and unlinks the element only afterwards (846, 848).
  A thread that stops in between has an element that is listed and not hashed.  Another
  thread's `insert` evicts it, ignores that `removeFromHashPos` does not find it (913), and
  its next one uses it for another key; after two more insertions it is far enough from the
  head of the list for the late `unlinkElement` to succeed, and `remove` puts it on a free
  list while the other key's slot refers to it.  The next insertion overwrites it there,
  without that slot's lock, so the table does not implement `Cache` with removals.
  `insertOrSet` aborts at such an eviction (776), unless the removed key has been inserted
  again: `removeFromHashPos` compares keys (330), takes the new entry out, and all else is
  as before.  On the instance of `hash_remove` with one more key, `MaxOps` 6 and a state
  constraint under which the second thread does nothing but one `remove` of the oldest key,
  TLC finds `FreeNotHashed` violated, with `insert` and with `insertOrSet`;
- `removeFromHashKey` does not walk on after it has moved an entry (436; the comment of 435
  says "move on") and so never returns: one thread, `HashSize` 6, `PerThread` 4, four
  operations out of insertOrSet and remove violate `OperationsReturn`;
- a request longer than the read threshold that has arrived completely is never answered
  (`Session.cpp` 153): with the stream part, part, ask and `Threshold` 2 `Answered` fails;
- a client that leaves in the middle of a request keeps its session (`Session.cpp` 208):
  with the stream part, part and `Closings` {"fin"} the formula of `ResetReturned` fails for
  "fin".

The same wrap comparison is in `removeFromHashKey` (436) and `removeFromHashIdx` (510).
The depth test of line 759 is made one increment early, so that a probe one slot longer
than `locks` writes the entry behind it; this is read off the code and listed as a hazard.
So is one more of removal: an absent key makes `removeFromHashKey` read `elementStorage`
at the free mark (401).  An element that was taken out of the hash but could not be
unlinked stays in its list and makes the eviction that meets it abort (859, 776).  No
text command reaches `remove`, because the parser aborts on `delete` (478); the binary
protocol does.

## Proofs

Eight modules hold theorems.  All are about every value of the constants that the named
assumptions of the models allow.  The inductive invariants were checked with TLC before they
were proved.

### LFSPSCQueueProofs

For every `BufferSize >= 2`, every even `SwitchWidth` and every finite set of at most
`BufferSize` sessions:

- `Inductive`: `Spec => []IndInv`;
- `TypeCorrect`, `Conservation`, `RaceFreedom`, `SwapFindsRoom`, `SwapFindsSession`: the
  invariants of the run `queue`;
- `Refinement`: `Spec => ImplementsPool`.

The argument.  Conservation and race freedom are not inductive by themselves: they need
that the index a side has loaded is still the current one, that the slot it is about to
access is free (for push) or occupied (for pop), and what a side knows of the *other*
lane when it swaps.  That is `ProducerInv` and `ConsumerInv`.  The last point is the
heart: a push that finds its lane full has `BufferSize - 1` sessions in that lane and one
in its hand, which are all there are, so the other lane is empty
(`FullLaneHoldsAll`, a counting argument with the cardinality theorems).  Hence after
its swap there is room (`PushNeverFails`), whoever won the race for the swap.  For pop, a
session that was in the pool when pop was called can only be taken by pop itself, so if
one lane is empty the other is not.  The lemmas on `Between` say what publishing a head
and advancing a tail do to the occupied slots of a ring.  `TypeStep`, `ConservedStep`,
`ProducerStep` and `ConsumerStep` treat one conjunct of the invariant each, one case per
action.  In the refinement only `PushPublish`, `PopCall`, `PopAdvance` and the failing
`PopCheck` are steps of the pool; all others stutter.

### LRUListsProofs

For any number of threads and elements, any number of operations and any element number a
caller may have kept (`known`): `ListsTyped`, `ListsStayLinked`, `ElementsStayConserved` and
`NoLockOrphaned`, the invariants of the run `lru`.  `MarkAssumption` says that the end mark and
the lock mark are no elements, `InitAssumption` that the table starts as the constructor and
earlier insertions leave it: every element once, in a list or a free list, and a free
element for every thread.

`ListInv` is about words.  `ChainInv` and `FreeInv` say what the words of neighbours and of the
ends hold, up to lock marks; `PlaceInv` that every element is in one list, one free list or one
hand.  `LockInv` says where a thread inside `unlinkElement` holds locks at each label, and what
it still knows of the words it has read: the neighbours it has in its locals are the
neighbours in the list from the moment it has locked its target.  `Exclusive`
and `Accounted` pair lock marks with threads, one to one; so a thread may rely on every word it
has locked (`Mine`) and on those it is going to compare (`Needs`), and `Undisturbed` says that a
step of another thread leaves these alone.  `HandInv` and `OpInv` follow the element in a
thread's hand from the free list to the list and back.  Each action has a lemma of its own, and
the ones that change a list rest on facts about sequences (`Consec`, `IsRemoved`,
`TakenOut`) in which no thread occurs.

The owner stores plain words at its two ends.  That this is safe is the argument of
`UnlinksInside`: whoever has locked a target and both its neighbours has locked three elements that
are neither the head nor the tail, because the words of the two ends are never marked.  So what
`unlinkElement` takes out is at a position from 3 to `Len - 2`, which is the condition
`Unlinkable` under which `LFLRUHashTable` lets it succeed.

TLC has checked `ListInv` on the instance of the run `lru` (587396 states).

### The hash table: four layers

`LFLRUHashTableProofs` is about locks and labels, with every operation, removals and
wrap-around included and without a condition: `HashTypeCorrect`, `HashLocksOwned` and
`HashFreeElementReady`.  `HashInv` says that a slot is marked exactly if it lies in the run of
one thread, a run being the `Len(locks)` slots from `start` on modulo `HashSize`; what a
thread has locked (`LocksAt`), which operations can be there (`OpAt`) and which elements it
holds (`ElementAt`) at each label; and that a thread whose free list is empty is inside an
insertion, which will give it one (`ListInv`).  The lemmas on `Run` say what taking the next
slot and giving back the last one do to a run that may go around the end.

`HashTableElementsProofs` adds that every element is in exactly one place, one position of
one LRU list, of one free list, or the hand of one thread (`PlaceInv`), again with removals
that unlink from other threads' lists: `HashElementsConserved`.  `ElementMoves` is the one
lemma all list operations are an instance of.

`HashTableProbingProofs` proves `HashProbing` (every entry is found from its home, no key has
two entries), `HashFreeNotHashed` and `HashNoAbort` under two conditions.

- `"remove" \notin Ops`.  A removal takes its key out of the hash and unlinks the element only
  afterwards, or not at all if it is near an end of its list.  A listed element need not be
  in the hash then, the eviction that meets it aborts, and a slot may come to refer to a free
  element (see Disagreements): on the instance of `hash_remove`, whose keys are far from the
  end, TLC finds `NoAbort` violated by one `remove` and one `insertOrSet`.
- `[]Fits`.  No cluster goes around the end of the array (`NoClusterWraps`), because the
  backward shift compares slot numbers as if there were no end (run `hash_wrap`); and no run
  is longer than `HASH_MAX_LOCK_DEPTH` (`LocksFit`), beyond which the code aborts.

`Fits` is about the load of the table: that it holds of a table in use cannot be proved from the
constants, because the program builds twice as many slots as elements and a key's home may be
any of them.  For the run `hash`, TLC shows it to be an invariant.

The invariant is `ProbingInv`.  `Probing` distinguishes what a slot holds (`RawSlots`) from what
it holds as an entry (`Entries`), which differ at the hole of an eviction in progress.
`RunInv` is what the owner of a run knows of it: a probing thread has passed only other
keys; a shifting one that no entry behind the hole belongs in front of it.  `HandInv` and
`UseInv` say which elements are in the hash: listed ones, and those in a thread's hands
between fill and find, although at `evict` another thread may be faster.  Only four steps
change the contents, and each has a lemma about arrays without threads in it: `FillCore`,
`HoleCore`, `MoveCore` and `CloseCore`; all others leave `RawSlots` and `Entries` alone
(`LockKeeps`, `ReleaseKeeps`).  TLC has checked `ProbingInv` on the instance of the run `hash`
(213606 states), on the same with 7 slots (240840 states), and on a table of 13 slots that
starts loaded (72198 states).

`HashTableCacheProofs` shows on top of it that the table implements `Cache`, under the same
conditions (`HashIsCache`).  `CacheNow` chooses an element
for each key; `Maps` says without a choice what it is, since no key has two elements
(`OneElement`).  A request takes effect in `Probe` at a free slot if it finds nothing to read or
set, in `Found`, and in `Fill`; `Find` empties the slot of the evicted element and is an
eviction of the map; every other step leaves the map and the requests alone.  `CacheInv` says
what this needs of a thread: whether it has a value, and that the element it stands on has
its key.  TLC has checked it on an instance of about 900000 states.  `MarkAssumption` also says that the absent value is no value and no request.

### UdpWorkerProofs

For every number of clients, batch size, buffer size and set of well-formed requests
(`UdpAssumption`), with evictions and the signal at any time: `NoDatagramForgotten` (the
invariant `NoMissedDatagram`), `StoresRight` (the action property `StoresWhatWasSent`),
`RepliedOnce` (no client is sent a second message) and `NoUseAfterDelete` (the table is not
deleted before the worker has left its loop).

`UdpInv` follows a datagram: while it is in the receive queue it is its client's only one
(`RxInv`); the messages of a batch belong to different clients with nothing in the queue
(`BatchInv`); a buffer not processed yet begins with its request, if it fitted (`BufInv`); and
only a client that has asked is answered, once (`ReplyInv`).

Three more theorems need `RoomForReplies`: every reply fits into a message.  A value that was
stored has `2 * keyLen` cells too many behind it, so a request needs more room than it has
itself; the code compares none of these lengths with `UDP_BUF_SIZE`.

- `UdpTypeCorrect` (`TypeOK`): `iov_len` stays inside the buffer.
- `SetCarriedOutOnce`: a SET that was answered changes neither the table nor the reply when it
  goes on into ADD.
- `OwnRepliesOnly` (`OwnReply`), which also needs `ProperRequests`, that
  `processBinaryRequest` does not skip the requests as incorrect: of a skipped one the client gets
  its own request back.

`FitInv` bounds the values of the table (`TableFits`) and says what is on top of a buffer: while
there is no reply, or the request was not looked at, the header of a request, also after an
older reply was partly overwritten by `recvmmsg`; in the fall-through either a reply without a
key, behind which ADD does nothing (`Replied`), or a SETQ.  `DueInv` says that a processed
message reads as the reply its client deserves, and so does what the client has got.  The
lemmas in between are about the operators of `YAMBinaryProtocolProcessor`: `ReadLemma` (a reply is read as
it was put together), `Answers` (it fits and lies over its request) for each command, and
`DeservedReply` (it is what the table gave).  TLC has checked `FitInv` and `DueInv` on the
instance of the run `udp` (260809 states).

### ServerThreadProofs

For every number of sessions, sockets, accepts and failing calls, and whatever clients send:
`ServerTypeCorrect`, `SessionsInOnePlace`, `WakeupsNotMissed`, `RepliesToWrite` and
`ConnectionsKept` (the action property `ClosedByClientOnly`), all under `[]BelowThreshold`: no
call of `process` stops reading at `EPOLL_READ_THRESHOLD`.  Beyond the threshold two of them
are false, as described under Runs.  `ThresholdOutOfReach` proves the condition for a server
whose clients send less than the threshold over one connection, as those of the run do: what
a client has still to send, what has arrived and what the active call has read never add up
to it (`ReadInv`).

`ServerInv` pairs sessions and sockets (`SocketInv`), says which sessions are in the pool
(`PlaceInv`) and that the worker's call, batch and backlog are about registered sessions,
each in one of them (`WorkInv`); what the active call knows of its socket (`CallInv`); what an
event that may be stale still guarantees (`BatchInv`); that the backlog is empty below the
threshold (`BacklogInv`); and that a session nobody is about to call has an edge if there is
something to do (`QuietInv`), which is the case for a call only because it reads until the
socket is empty.  TLC has checked it on the instance of the run `worker` with one stream
more (366656 states).

### Only model-checked

- Liveness under fairness (`OperationsReturn`, `Answered`, `Served`, `StopReturns` and the
  others), which is out of the prover's reach.
- Everything about `HashTableCas`, whose one property is refuted.
- `FastSubstringMatcher`, which is recursive.
- `RequestProcessor`: its properties need that no line is cut between CR and LF, a condition on
  how input arrives, and what `Reference` computes is an induction over the input.

## Not modelled

- the listener after `Server::stop`, which neither stops nor joins it, and the round robin
  over workers;
- the expiration-time map of the hash table, which is written and never read, and the
  conversion of expiration times; `lockElement`, copying, `swap` and `packHash`, which the
  server does not use;
- byte order in the binary protocol, and the growth of the sessions' buffers;
- option parsing, socket set-up and construction of the objects;
- a client that closes its socket completely while replies are outstanding: its answer to the
  first of them is a reset, and as `send` is called without `MSG_NOSIGNAL` (`Session.cpp` 315) and
  SIGPIPE is not ignored, the next `send` ends the process.  The model's clients end
  their stream and go on reading, or reset the connection;
- a failure of `epoll_wait`, on which the worker aborts (`ServerThread.cpp` 201-206; in builds
  without NDEBUG also when a signal interrupts it);
- xxHash and the string class, which are third-party, and `trbtree.hh`, which nothing
  instantiates.

## Plan

1. Proofs: lemmas about the operators of `RequestProcessor` and `Numbers`, from the parser up,
   under the condition that no line is cut between CR and LF.
2. A composition of `RequestProcessor` with `Cache`: an abstract request stream that
   two connections on two workers implement.
