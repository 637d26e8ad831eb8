# A verification of lang-prep-for-ceph

The repository teaches the C++ that Ceph is written in: seven chapters of
exercises, each a small program with its own `main`, and notes. This directory
holds TLA+ models of the programs that have behaviour worth checking, the TLC
runs that check them, and TLAPS proofs of what matters most.

## The system

The programs share no code and do not talk to each other, except that the Asio
client is written for the Asio server. Paths are relative to `src/`.

| component | state | operations | who interacts | what makes it correct |
|---|---|---|---|---|
| `MPSCQueue`, `03-concurrency/exercises/mpsc_queue.cpp` | `head` (atomic), `tail`, a linked list with a sentinel | `push`, `pop`, `empty`, destructor | many producers, one consumer, no lock | no use after free although `pop` deletes nodes that pushes may still hold; nothing lost, doubled or reordered within a producer; `pop` fails only for a reason; no leak |
| its `main`, Test 5 | `count`, `all_done` | producer loop, consumer loop, joins | producers, consumer, main | the consumer leaves with everything counted |
| `BlockingQueue`, `03-concurrency/exercises/producer_consumer.cpp` | `queue`, `shutdown`, two condition variables | `push`, `pop`, `stop`, `size` | producers and consumers block on each other; main stops them | capacity, FIFO, no lost wakeup with `notify_one`, `stop` wakes everyone, nothing accepted is lost |
| `ThreadPool`, `03-concurrency/exercises/thread_pool.cpp` | `tasks`, `stop`, `cv`, workers | `submit`, worker loop, destructor | callers, workers, tasks that submit tasks, futures | each task runs once, every future becomes ready, the destructor drains and returns |
| `LockFreeStack`, `03-concurrency/exercises/lock_free_stack.cpp` | `head` (atomic), a linked list | `push`, `pop`, `empty`, destructor | any threads, compare-exchange | a stack; nothing lost or counted twice; no ABA, no use after free |
| CAS counter (same file), `AtomicCounter` (`atomic_counter.cpp`) | an atomic integer | `fetch_add`, compare-exchange loop | ten threads | no increment is lost |
| `MemoryManager`, `02-stl-containers/exercises/memory_manager.cpp` | `blocks`, `free_list` | `allocate`, `write`, `read`, `deallocate` | one caller; allocation may fail half way | ids are stable, never given out twice, and reused |
| `ObjectIndex`, `02-stl-containers/exercises/object_store.cpp` | `objects`, `locator_index` | `create`, `remove`, `get`, listings | one caller | the two maps agree |
| Asio server and client, `06-boost-library/exercises` | sessions, buffers, pending operations | accept, read, write, connect, stop | completion handlers, peers, the event loop's thread | one operation per buffer at a time; sessions live as long as a handler needs them |
| Boost examples, `06-boost-library/exercises/boost_examples.cpp` | the reference count of `Worker`, list hooks | copy and destroy an `intrusive_ptr`; push, pop | threads that share a Worker | deleted once, with the last pointer, and never lost |
| Seastar examples, `07-async-programming/exercises/seastar_examples.cpp` | continuations, per-core counters, a semaphore | chains, `invoke_on_all`, `with_semaphore` | cores, the reactor | what a continuation captures outlives it; everything waited for is done; the semaphore is exclusive and fair |
| `MyString`, `01-cpp-foundation/exercises/string_class.cpp` | `data`, `length` | constructors, assignments, destructor | one caller; `new` may throw | a buffer has one owner and is deleted once; a copy is a copy |
| `Optional`, `05-templates-advanced/exercises/optional.cpp`, `my::swap` | `value_`, `has_value_` | the same, `value`, `value_or`, `swap` | holds a `MyString` | `has_value_` tells whether there is a value |
| `File`, `01-cpp-foundation/exercises/raii_file.cpp` | `handle` | constructor, moves, destructor | stdio | each stream is closed once |
| language exercises of chapters 01, 04, 05 | none that outlives a statement | | | |

What is hard in this code is concentrated in chapter 03: unlocked interleavings,
a queue whose links lag behind its order, nodes deleted under other threads'
feet, condition variables signalled one thread at a time or outside the lock, a
shutdown that crosses blocked calls. `PROJECT.json` lists each hazard at its
line with the properties that cover it.

## The plan

Done first, because it is where the hazards are: the four programs of chapter
03, each against an abstract specification of what it promises.

1. `FIFOQueue`, `LIFOStack` (abstract), `MPSCQueue`, `MPSCQueueTest`,
   `BlockingQueue`, `ThreadPool`, `LockFreeStack`; proofs about `MPSCQueue` and
   `BlockingQueue`. *Done.*
2. `AtomicCounter` and `CASCounter`, `BlockStore` and `MemoryManager`,
   `ObjectIndex`: counters under races, partial failures, two structures that
   must agree; proofs about `CASCounter` and `MemoryManager`. `EchoStream`,
   `EchoServer`, `EchoClient`: a session as a chain of completion handlers over
   an external event loop, and the client composed with the server. *Done.*
3. The lifetime exercises: `MyString`, `Optional` over it with `swap`, `File`,
   `IntrusivePtr`; the Seastar examples `SeastarSemaphore` and `SeastarApp`;
   `Exercises`, which puts the small programs side by side. *Done.*
4. The theorems: every safety property of a passing run for every value of the
   constants, every refinement, and deadlock freedom stated over explicit guards
   (what of progress needs no liveness proof). *Done.*

## The modules

### FIFOQueue and LIFOStack

What a queue and a stack promise: a value enters once; the value that leaves is
the oldest, or the newest. `items` are the values inside, `delivered` those
that have left. `MPSCQueue`, `BlockingQueue` and `ThreadPool` (tasks queued,
tasks taken) implement the first, `LockFreeStack` the second; each states it as
`Queue!Spec` or `Stack!Spec` under a refinement mapping, has it checked by a run,
and has a theorem `ImplementsQueue` or `ImplementsStack`.

### MPSCQueue

One action per access to memory that another thread may touch:

| code | action |
|---|---|
| push, 33 | `PushNew`: `new` returns any address not allocated, also one just deleted |
| push, 34 | `PushExchange` |
| push, 35 | `PushLink` |
| pop, 39 and not null | `PopLoad` |
| pop, 39-40 null | `PopFalse` |
| pop, 42-46 | `PopTake`: one step, for `tail` is the consumer's alone and `Inv` says that no producer can reach the two nodes |
| destructor, 28-29 | `BeginDestroy`, then the same pops, then `DeleteTail` |

`head` and `tail`, `next` and `data` per address, and the set `live` of allocated
addresses are the code's memory. `chain`, the nodes from tail to head in the
order of the exchanges, and `popped` are history variables: no guard reads them.
A producer's value is the pair of its name and its index, for
`t * PER_THREAD + i`.

### MPSCQueueTest

EXTENDS `MPSCQueue` and composes it with the threads of Test 5 (143-180): the
consumer's loop test, pop, flag and drain are steps of their own (`ctl`), main
joins, stores the flag, joins, and the destructor runs. Test 3 and the loop of
Test 4 are special cases.

### BlockingQueue

A critical section is one step, from the moment the lock is taken to its
release by return or by `wait`. A condition variable is the set of threads
blocked on it, `notify_one` removes any one of them, and `SpuriousWakeup` any
one at any time; a thread that was removed runs its section again from the
predicate. `stop` is three steps, because it notifies after releasing the lock
(`SetShutdown`, `NotifyAllNotEmpty`, `NotifyAllNotFull`), and main then joins.

### ThreadPool

The same conventions. `submit` is two steps: the critical section (`Enqueue`,
or the exception) and the notification (`Notify`), between which workers and
the destructor may run. Main calls `submit` and the destructor one after the
other, so that 106-108 never happens in the repository's `main`; the class
allows a task to submit tasks, also while the destructor waits, and `Child`
models that use. `future` is the state that `packaged_task` and `std::future`
share.

### LockFreeStack

`push` is `PushNew`, `PushLoad`, and an exchange that succeeds (`PushCAS`) or not
(`PushCASFails`); `pop` is `PopLoad`, `PopRead` (the argument `old_head->next`,
evaluated before the exchange), `PopCAS` or `PopCASFails`, and `PopTake`, which
deletes. The weak exchange may fail spuriously. A read through a deleted node
returns any pointer. The threads are those of `test_concurrent_push_pop`, of
which any of the poppers take part (`Init`): without one they are those of
`test_concurrent_push`, where main drains what was pushed.

### AtomicCounter and CASCounter

`CASCounter` is the second method of `test_cas_counter`: `Load` (262), the
exchange that succeeds (`CASSucceeds`), or fails, also spuriously, and brings
the counter's value back (`CASFails`). `AtomicCounter` is the increment by
`fetch_add` of the first method and of `atomic_counter.cpp`, and `AtomicSpec`
says that the loop implements it.

### BlockStore and MemoryManager

`blocks` and `free_list` are the vectors, `Nullopt` an empty optional. Each
operation is an action, each way it can throw another: `AllocateReuseThrows`
(`emplace` after the id was taken off the list), `DeallocateThrows`
(`push_back` after the reset), `WriteThrows`. If `emplace_back` throws nothing
has changed, and there is no action for it. `Accepts` is the range test of
`copy_from` and `read`, modulo `SizeMod`. `Write` puts the bytes where `memcpy`
puts them, inside the block or not; `NoWrapAssumption`, that no offset and length
wrap when added, is what keeps them inside. `BlockStore` is what a user sees: the
contents of the blocks in use, by id.

`lost` is history: the ids that an exception took out of circulation, free but in
no list. Without it the free list could only be said to hold free ids; with it
it is exactly the rest.

### ObjectIndex

`objects` and `locator_index` as they are in the code, with an empty list for
a locator that has none. `Create` and `Remove` change both. `CreateThrows` is a
`create` that runs out of memory: the object is stored (42), with an empty
locator if its info could not be copied, and not listed (45). `unlisted` is
history, the objects whose last create did that, until a `create` of them returns
or they are removed. If the insertion at 42 throws, or the one at 54, nothing has
changed, and there is no action for it.

`create` does not refuse an oid that exists, and `again` is history and remembers
the oids that this happened to, for which the index is no longer exact. `IndexInv`
is what the two maps still promise each other. `Kept(list, S)`, the elements of a
list that are in a set, is defined by counting positions and not by recursion, for
the sake of the proof; the run compares it with `SelectSeq` (`KeptIsSelectSeq`).

### MyString and Optional

The member functions of `MyString` are operators from the memory before the
call to the memory after it, or to the set of memories if `new` may choose an
address, so that `Optional` and `swap` can be composed from them as the template
composes them. `mem.heap` is the text at every address, `mem.str` the object in
every slot, `Raw` where none has been constructed; a variable is a slot, and so
is the storage of an `Optional`, whose `has_value_` is `mem.has`. `Deleted` frees,
and the address may be the next that `new` returns, in the same assignment too.

The programs are all programs: in each step any variable is declared, copied,
moved, assigned, swapped or goes out of scope. A constructor that throws leaves
nothing, and is no step; a copy assignment that throws has deleted the buffer
that `data` still points to (`HalfAssigned`, `AssignFails`, `OptAssignFails`).
`torn` names the object this happened to. No program here catches the exception,
so nothing runs after it. `Swapped` and `OptSwapped` are the three moves of
`my::swap` through `Temp`, which is destroyed.

### File

`handle` per variable and the set of `open` streams. `OpenFile` is the constructor
if `fopen` succeeds, and a closed stream's address may come back; `MoveAssignFile`
closes what was open. `nullptr` (`NoStream`) is what a File moved from holds,
`NoFile` stands for a variable with no object in it.

### IntrusivePtr

Creating, copying and destroying an `intrusive_ptr<Worker>` is a step each up to
the call of `intrusive_ptr_add_ref` or `_release`; the access to the count is a
step (`AddRef`, `ReleasePtr`), and so is `delete` (`DeleteWorker`). Each pointer
belongs to a thread; `doing` is what that thread does with it, `from` the pointer
a copy is made from, which is in scope in the copying thread and is not destroyed
meanwhile. The repository's `main` has one thread; the count is atomic for the
use modelled.

### SeastarSemaphore

`demo_semaphore` called any number of times on one reactor. `with_semaphore` finds
a unit (`CallTakes`) or not (`CallWaits`); the sleep inside ends (`SleepEnds`),
which hands the unit to the call that has waited longest; its lambda runs later
(`Resume`), and prints an `id` that was a parameter of a function that has
returned. The source calls `with_semaphore` with two arguments; the model takes
the one unit that the comment at 86 and `sem{1}` mean. The semaphore itself is
Seastar's, hence external; that it serves calls in their order is assumed of it
(`SleepEnds`), and `SemaphoreInv` and `EveryCallServed` say what the code keeps of
that: the lambda holds the unit until its sleep is over, and gives it back.

### SeastarApp

`run_app`: the chain of `demo_chain`, whose future is discarded, and the local
`sharded<PerfCounter>`. `step` is the call on `counters` that is awaited, `pending`
the cores that have not run its message, `frame` whether `run_app` has not
returned. What uses `counters` afterwards may work or crash (`Uses`), and so may
its destructor, by its assertion (`Return`). `Exit` ends the reactors.

### Exercises

The small programs side by side, so that one run checks them and one module
holds their theorems: `program` says which one a behaviour is of, `Init` chooses
it, and the others stand still. `SeastarApp` is not among them, because its
run shows a violation.

### EchoStream, EchoServer and EchoClient

A completion handler is one step, for one thread runs them all, and the
operation it completes is taken into the step: `AcceptHandler`, `ReadHandler`,
`WriteHandler`, with `AcceptFails`, `ReadFails`, `WriteFails` for an error, and
`AcceptThrows` for the exception of `remote_endpoint`. `session[c]` is the
operation whose handler holds the session, `closed` when none does and it is
destroyed. `async_write` is a composed operation: `WriteSome` sends a part, and
its handler runs when all is written. `up` and `down` are the bytes in the two
directions of the connection. Peers are any program (`PeerStep`); `Close` and
`Reset` are the two ways in which a connection ends.

`EchoClient` EXTENDS `EchoServer` and puts the client's handlers in the place of
`PeerStep` for the peers in `Programs`; the other peers remain any program.
`AtOnce` says how many bytes `async_write` may send before it returns; what it
sends later comes from memory that has been freed, and may be anything
(`Garbage`). `EchoStream` is the promise: what comes back is a prefix of what was
sent.

`StreamExact` and `ReplyIsPrefix` are parts of `Inv`; the proofs strengthen them to
`StreamInv` (below).

## What the runs check

| run | instance | what it shows |
|---|---|---|
| `mpsc_queue` | 2 producers of 2 values, 4 addresses, the threads of Test 5 | `Inv` (with `NoLeak`), `NoUseAfterFree`, `FalseOnlyWhenDrained`, refinement of `FIFOQueue`, the assertion of line 177 (`AllCounted`), and that a value pushed is popped |
| `mpsc_false` | 3 producers of 2 values, 5 addresses, symmetric | *violated*: a failed pop does not mean an empty queue |
| `blocking_queue` | 2 producers of 3 values, 2 consumers, capacity 2 | `Inv` (with the capacity, `ProducersNotStranded` and `LeavesOnlyDrained`), no deadlock of the threads (`NeverDeadlocked`), nothing left behind or pushed after stop, refinement of `FIFOQueue`, and liveness |
| `thread_pool` | 3 workers, 3 tasks of main, a chain of 2 more | `Inv` (each task once, `WorkersNotStranded`, `DestructorDrains`), refinement of `FIFOQueue`, and liveness |
| `lock_free_stack` | 2 pushers of 2 values, at most 1 popper, 4 addresses | `Inv` (no use after free, no ABA, `NoLeak`), the assertions of lines 162 and 227, refinement of `LIFOStack`, each push completes |
| `lock_free_stack_aba` | 2 pushers, 2 poppers, 4 addresses, symmetric | *violated*: the assertion of line 227 |
| `cas_counter` | 3 threads of 2 increments | the assertion of line 286, refinement of the atomic increment, termination |
| `memory_manager` | 3 blocks of 1 or 2 bytes, any ids and ranges, the heap may fail | `Inv` (`FreeListExact`), `GrowsOnlyWhenFull`, refinement of `BlockStore` |
| `exercises` | the small programs, see the bounds | `NothingLost` and `ValueSemantics` of strings and optionals, `StreamsOwned` of files, `PtrInv` of the reference count, `SemaphoreInv` and `EveryCallServed`, `IndexInv` (`IndexExact`, `IndexComplete`) of the object store |
| `object_index_stale` | 2 objects, 3 locators | *violated*: an object is listed under a locator it has left |
| `seastar_exit` | 2 cores | *violated*: the program ends with tasks not done |
| `echo` | a client process and any other peer, 2 bytes each, a buffer of 2 | `Inv` (`StreamExact`, the reply), refinement of `EchoStream`, every client is served, every byte comes back, every session and the client end |

### Bounds, and why they are enough

- `MPSCQueueTest`. Two values per producer let one producer have a completed push
  and one in progress behind the other's; four addresses for four values and a
  sentinel force reuse of deleted nodes, also while a push holds its
  predecessor. Two producers, because liveness needs the whole graph without
  symmetry; the safety properties are proved for any number. In `mpsc_false`
  there are three, so that two can be between exchange and link while the third
  has completed behind them. The number of addresses is a bound of the model: a
  producer waits in `PushNew` when none is free, where the code would have one.
- `BlockingQueue`. Two threads on each side, so that `notify_one` can wake the
  wrong one; capacity two, so that the queue can be partly full, which is where
  notifying only on the first value or only from the full state goes wrong;
  three values per producer to go round.
- `ThreadPool`. Three workers, so that one can be blocked while one runs and
  one submits. Tasks 1 to 3 are main's, task 2 submits 4 and 4 submits 5, so
  that a submission can meet the destructor.
- `LockFreeStack`. ABA with two poppers needs a node popped, deleted, allocated
  and pushed again: four values suffice, as the violation shows. `Drain` stops
  counting one beyond what was pushed, because a corrupted stack may be cyclic.
- `CASCounter`. Three threads, so that one can lose its exchange to two others,
  and two increments, so that a thread can come round with an old value.
- `MemoryManager`. `MaxBlocks` = 3 lets two ids be on the free list beside one in
  use. `SizeMod` = 8 stands for 2^64: sizes of blocks are far below it. Offsets
  and lengths are at most 3 (`Args`), so that their sum does not wrap
  (`NoWrapAssumption`): what a range that wraps does to memory is undefined.
- `Exercises`. Two strings, two optionals and `Temp` with three addresses: every
  operation has a source, a target and a bystander, and an address deleted in
  an assignment is the one allocated next. The two texts differ in length and
  one is empty. Three files and three streams; four pointers, so that two can
  copy while two are destroyed, and two Workers, so that an address is used
  again. Three calls: one holds the unit, one has been granted it or waits, one
  comes. `CHECK_DEADLOCK FALSE`, because a program whose assignment threw is over
  and so is one whose calls have all been served. It is set for `SeastarApp` too,
  where the program exits.
- `SeastarApp`. Two cores: the one that runs `run_app`, and one whose answer comes
  late.
- `ObjectIndex`. `MaxListed` = 3 bounds a list that grows with each repeated
  `create`; one of the locators has the name of an object, because an empty locator
  stands for the oid. In `exercises` there is one more, in `object_index_stale`
  two. An object can be in the lists of all its former locators, twice in one, and
  beside another object.
- `EchoClient`. A message of two bytes is read and written in one piece or in two;
  `MaxSent` bounds what a peer sends, `SockBuf` what the connection holds. Two
  connections, of which one can hold up neither the other nor the accepts.
  `EarlyReset` lets a peer go before it is accepted. Liveness over the whole
  graph is what keeps the bounds this small.

Symmetry is used only where no liveness property is checked.

### Fairness

Threads are started by `std::thread` and scheduled by the operating system, so
each thread that can take a step gets to take one: weak fairness per thread. For
`BlockingQueue` and `ThreadPool` a step is a whole critical section, so weak
fairness also assumes that a thread waiting for the mutex obtains it in the
end, which the standard leaves to the implementation. Nothing is assumed of
spurious wakeups, of the choice `notify_one` makes, or of `stop` being called.
`PushesComplete` needs strong fairness of the exchange: weak fairness would
let a push lose every race, as the code does; so does `TestEnds` for the exchange
of `CASCounter`. In the Asio models the event loop runs the handler of what is
complete, of every session and of the connections that wait, and peers receive
what has come; `stop` may come at any time or never. In `Exercises` the reactor runs each
continuation that is ready and sleeps end (`SemStep`); calls need not be made.

### Memory model

The models are sequentially consistent. In `MPSCQueue` the exchanges are
acq_rel and the links are stored with release and loaded with acquire, so that
a consumer that sees a link sees the node; `head` is never read otherwise. In
`LockFreeStack` `pop` loads `head` relaxed and dereferences it before the
acquiring exchange; the model assumes what hardware with dependency ordering
gives, that the node's fields are seen as the releasing push wrote them.

### Findings

- `mpsc_false`: `pop` returns false while completed pushes wait behind one that
  has exchanged `head` and not stored its link. The chapter's notes comment the
  line "the queue is empty". What the tests need is weaker and holds:
  `FalseOnlyWhenDrained` and `AllCounted`.
- `lock_free_stack_aba`: with two popping threads the assertion of line 227 can
  fail, by ABA. The file's comments say that the problem is simplified away; the
  test nevertheless runs five poppers.
- `object_index_stale`: `create` of an oid that exists leaves it in the list of
  its old locator.
- `seastar_exit`: the comment at 128 and the chapter's notes say that Seastar waits
  for all tasks. `counters` is a local that is destroyed when `run_app` returns,
  while messages and continuations that refer to it are still to come (114),
  and the future of the chain is discarded at 39.

Other things met while modelling, which the models contain as steps but no run
states as a property:

- `memory_manager.cpp:39`: `allocate` takes the id off the list before `emplace`,
  which may throw, and loses it (`lost`); `deallocate` at 71 likewise. Nothing
  worse happens, as `FreeListExact` says.
- `memory_manager.cpp:22` and 61: the sum of offset and length wraps in `size_t`,
  and the test passes; `len > size() - offset` after a test of `offset` would not.
  This one the model excludes (`NoWrapAssumption`); without the assumption
  `StoreSpec` is false.
- `object_store.cpp:42-45`: a `create` that runs out of memory leaves an object that
  `get` finds and `list_by_locator` does not (`CreateThrows`, `unlisted`). A new
  object to which this happened can be removed and leaves nothing behind; one that
  existed stays in the list of its old locator, as in `object_index_stale`.
- `asio_server.cpp:30`: `remote_endpoint()` throws for a peer that has gone, and
  nothing catches it (`AcceptThrows`): the process ends.
- `asio_client.cpp:43`: `msg` is destroyed while `async_write` may still need it
  (`WriteMore`). The message is short and the connection new, so that it is sent
  at once in practice. No property catches it: what is sent then counts as sent.
- `string_class.cpp:49-52`: the copy assignment deletes `data` and then calls `new`;
  if that throws, the string has a pointer to freed memory, and its destructor
  deletes it again. `NothingLost` holds of everything but that string (`torn`).
- `seastar_examples.cpp:91`: the lambda refers to `id`, a parameter that is gone
  when a call had to wait (`Resume`); `with_semaphore` lacks the number of units.
- `06-boost-library/README.md:298-299`: the log shown has the whole reply, which
  one `async_read_some` does not promise (`ReplyIsPrefix` allows any prefix, so
  that no property catches a short reply either), and has it after the line that is
  printed when `run()` has returned, which cannot be.

## What is proved

The theorems hold for every value of the constants that satisfies the `ASSUME`s of
the module, each of which a run evaluates on its instance.

`MPSCQueueProofs`, for any set of producers and addresses and any `PerThread`:
`Spec => []Inv`, and from it `NoUseAfterFree`, `NoLeak`, `FalseOnlyWhenDrained`,
`HiddenByOnePush` and `QueueSpec`. `NoUseAfterFree` is not inductive: that the node
a producer is about to link still exists depends on its being in the queue, next to its successor,
with a link that is still null, so that the consumer cannot have passed it.
`Inv` says where every node is: `ChainShape` (no repetition, from tail to
head), `LinksFollowChain` (each adjacent pair is linked, or a push is about to),
`Linking`, `Exchanging`, `Taking`, `InLoop`, `RunsAlone`, and `NoLeak` itself; and
`Accounted` says that the values exchanged are in the chain or popped, and that
nothing else is. When no push is between exchange and link, a null link at the
tail means that the chain ends there; when it does not end there
(`mpsc_false`), it is one push, the one that holds the tail, that the consumer
waits for (`HiddenByOnePush`).

The same module composes this with Test 5: `UsesTheQueue` says that every step of
the test's threads is a step of the queue or invisible to it (`TestSpec => Spec`),
so that the above holds there too, and `TestCountsAll` proves the assertion of
line 177 for any finite set of producers. That no value is popped twice comes
from the abstract queue (`OnceStep`); a count that reaches the number of values is
then all of them, and a pop that fails in the drain comes after the joins.

`BlockingQueueProofs`, for any finite disjoint sets of threads, at least one
consumer, any positive capacity and any number of items: `Spec => []Inv`, with
`ConsumersNotStranded`, `ProducersNotStranded`, `LeavesOnlyDrained`,
`NothingLeftBehind`, the action property `ClosedToPushes`, and `QueueSpec`. The
argument for the wakeups is a count: while a consumer is blocked, the values
queued are at most the consumers awake; a push adds one of the first and, by
notifying, one of the second; a pop takes one value and leaves its consumer
awake; and a consumer blocks only on an empty queue. The same for producers and
free places. For the refinement, `OnlyPushed`: what is in the queue or received
is what its producer has counted, so that the next value is new.
`NoDeadlock` (`NeverDeadlocked`) puts the two counts together. If all threads that
run are asleep before `stop`, nobody is awake on either side, so that a blocked
consumer means an empty queue and a blocked producer a full one; the capacity is
positive, so not both; no consumer has left before `stop`, so it is the first; and
then the producers have returned with all their items pushed (`LeavesComplete`,
inductive beside `Inv`) and, the queue being empty, all are received. TLC's own
deadlock check cannot see this, for `stop` and spurious wakeups are always
possible.

`ThreadPoolProofs`, for any finite set of workers, any number of tasks and any
tasks submitted by tasks: `Spec => []Inv`, which contains `EachTaskOnce`,
`WorkersNotStranded` and `DestructorDrains`, and `QueueSpec`. The count of
`WorkersNotStranded` includes the notifications that a submitter still owes, for
`submit` notifies outside the lock. A worker leaves only if the pool is stopped
and nothing is queued, and a stopped pool refuses what is submitted (`Stopping`),
so that nothing is queued after the joins. `NoDeadlock` needs besides how far main
has come (`MainProgress`): the future main waits for is pending, its task is held
by a worker that runs it, or is queued, and then the count says that a worker is
on its way; and in the joins nobody is asleep. It also shows that main has every
result before the destructor starts, so that only a task's own task can meet it.

`LockFreeStackProofs`, for any pushers, pushes and addresses, under the
hypothesis `OnePopper`: `Inv`, `AllCounted` and `StackSpec`. The hypothesis is what
the code needs: a node leaves the stack only by a pop, so that the node the one
popper has seen stays there until it pops it, and a head that is the same node
has the same successor. `lock_free_stack_aba` shows that two poppers break it.

`CASCounterProofs`, for any finite set of threads and any number of
increments whose total an `int` holds: `Inv`, the assertion on the total, and
`AtomicSpec`, safety refinement of the atomic increment. The increments made are
counted as a set of pairs of a thread and a number, so that the total is the
cardinality of a product.

`MemoryManagerProofs`, for any sizes, bytes and bounds, whatever the heap
does: `Inv`, which is inductive, the action property `GrowsOnlyWhenFull`, and
`StoreSpec`. An id taken from the list is one of an empty block that was not
lost, and no other entry of the list is the same; a new block is appended when
the list is empty, and then no block is empty but those lost. Every operation
fills a slot of the store, empties one, or rewrites one. The last rests on
`NoWrapAssumption`: a range that is accepted is then inside the block
(`RangeInBlock`).

`EchoClientProofs`, for any clients and other peers, any size of the buffer and
of the sockets and any messages: `Inv` (`StreamExact` and `ReplyIsPrefix`) and
`StreamSpec`. The invariant `StreamInv` says of each connection that what was
received, what is on its way back, what is in the buffer and not yet written,
and what is on its way there are, one after the other, what was sent (`Exact`);
when the session or the connection is gone, the part that remains is a prefix
(`Arriving`, `Arrived`).

`NoMutualWait` is about the two ends waiting for each other: the client writes its
whole message before it reads, the session writes back what it has read before it
reads on, and sockets are finite. Under the hypothesis `MessageFits`, that the
message has at most `2 * SockBuf + 1` bytes, one of them can always go on: if
neither can, both directions are full, a byte is in the buffer and one is still to
be sent, and by `Exact` these are distinct bytes of the message. The hypothesis is
the weakest: with one byte more (4 bytes, `SockBuf = 1`) TLC finds a state in which
both write and nobody reads. The message of the client has 33 bytes.

`ExercisesProofs`, for any variables, threads and calls:

- `Counted`: `PtrInv`. The count is the number of pointers past their `add_ref` and
  before their `release`; whoever adds copies one that counts, or is the first;
  so the one that takes the count to zero is alone.
- `FilesOwn`: `StreamsOwned`.
- `SemaphoreFair`: `SemaphoreInv`, because the calls are those served, those
  granted the unit and not run yet, and those waiting, in this order.
  `UnitNeverIdle`: a call that waits, waits for exactly one other.
- `MapsAgree`: `IndexInv`. Inductive is `IndexInductive`: an object that is not
  `unlisted` is listed where it is located (`LocatedIsListed`), and an id that is not
  in `again` is listed nowhere else, once, and not when it is removed or its create
  threw (`ListedWhereLocated`, `ListedOnce`). What
  `Kept` returns is found without induction: the positions of a finite set of
  numbers are numbered by how many of them come before (`Numbered`), so that `Kept`
  has the elements of the set, each as often as the list (`KeptElements`).
  `StrayWasCreatedOver` is the converse of the finding `object_index_stale`: an id
  listed where its object is not was created over itself.
- `NothingIsLost`: `NothingLost`, for any heap, texts, strings and optionals. The
  lemmas are about any memory in the middle of a call: `OwnedBut(X, m)` says that
  buffers have one owner each but for the slots of `X`, and each member function
  takes one such memory to another; the three moves of a swap, an assignment
  that reuses the address it has deleted, and the torn one are compositions.
- `ValuesBehave`: `ValueSemantics`, of every call, those that throw included. A copy
  is equal and an other buffer, a move hands over, `swap` exchanges, and no other
  variable's text changes. `Reads(m, n, X)` says that what is read outside the slots
  `X` is the same before and after; each member function has a lemma that gives it
  for its slots and the text that results, from the ownership of the buffers above.

`Inv` of each of these modules is an invariant of a run as well, but for
`CASCounter`, where it says little more than `TotalIsExact`, and for the
strengthenings `StackInv`, `StreamInv`, `LeavesComplete`, `MainProgress`, `WroteAll` and
those of `ExercisesProofs`, which are stated beside the proofs.

## What is only model-checked

- Liveness, because the prover does not handle fairness and `ENABLED`: `EveryPushIsPopped`,
  `StopEndsAll`, `EveryFutureReady`, `MainReturns`, `PushesComplete`, `TestEnds`,
  `EveryCallServed`, `EveryClientServed`, `EverythingEchoed`, `SessionsEnd`,
  `ClientsEnd`. The theorems `NoDeadlock` and `NoMutualWait` are the part of it that is
  about states: that a step remains to be taken, by one of those who are not waiting.
- That `Kept` is `SelectSeq`, which is defined by recursion over the list.
- The violations are counterexamples, and need no proof.

Each property of a passing run has a mutant: the module holds, beside the
definition it changes, a variant with a bug that could have been written, and
the run finds the property violated when it takes the definition's place.
These variants are marked "Bug variant" and are no part of the specifications.

## What is not modelled

- `AtomicCounter::decrement` and `fetch_add(n)`, `BlockingQueue::size`, which no
  program calls; operations that only read a single structure (`get`, `list_all`,
  `count`, `block_count`, `total_size`).
- `io_context`, sockets, condition variables, the heap: external, modelled as
  far as the code depends on them.
- Boost's `small_vector` and intrusive list, which are used in straight lines: two
  objects are linked and unlinked before they go out of scope. `swap` of arrays,
  which does the same to each element.
- The language demonstrations of chapters 01, 04 and 05 (`smart_pointer.cpp`,
  `modern_cpp.cpp`, `template_specialization.cpp`, `variadic_templates.cpp`):
  straight-line code without state to speak of, with one possible output each.
- Hazards that no property settles: an id freed by a caller that no longer
  owns it (`memory_manager.cpp:69` cannot tell owners apart), a range that wraps
  (`memory_manager.cpp:22`), the memory that `asio_client.cpp:43` sends from, what the
  lambda at `seastar_examples.cpp:91` prints, and the value that `optional.cpp:36`
  does not destroy: `Optional` is modelled over `MyString`, which keeps nothing after
  a move, so that the leak of a type that does cannot show.
- Chapters 00, 08, 09, 10: notes, no code.
- Logging, sleeps and timing measurements everywhere.
