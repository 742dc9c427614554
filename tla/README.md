# A TLA+ model of libnax

libnax is a C library for network programs: TCP and UDP links served by epoll
threads, with the handle table, events, queues, logging and file facilities
they are built on. This directory holds TLA+ modules for the core of its POSIX
implementation, TLC configurations that check them on small instances, and
TLAPS proofs. Paths below are relative to the repository; `posix/` stands for
`src/posix/`.

## The system

| Part | State | Operations | What is hard about it |
|---|---|---|---|
| Handle table, `posix/wosi/object.c` | AVL buckets handle -> object, per object status, count, unloader | `objallo*`, `objrefr`, `objreff`, `objdefr`, `objclos` | closing while referenced; everything is looked up again by handle |
| Events, `posix/wosi/threading.c` | `pass_`, `effective`, a condition variable | wait, awaken, block, uninit | timeout against awakening, spurious wake-ups, destruction under waiters |
| Ring buffer, `cfifo.c` | free-running 32-bit counters | put, get | wrap-around of counters and of the buffer |
| Reference counter, `refs.c`, and the pool managers in `posix/wpool.c`, `posix/io.c` | a slot per protocol, count and status per pool | init, uninit, retain, release | initialisation and closing against use |
| Transmit queue, `posix/fifo.c` | list, size, overflow flag, epoll mask | queue, top, pop | the mask is changed outside the lock |
| TCP transmit, `posix/tcp.c`, `tcpio.c`, `wpool.c` | kernel queue, tasks, set-up state | `tcp_write`, `tcp_tx`, `tcp_tx_syn`, `_wp_exec` | three kinds of threads share one queue |
| UDP transmit, `posix/udp.c`, `udpio.c` | as above | `udp_write`, `udp_tx` | two layers pop |
| TCP reassembly, `posix/tcpal.c` | receive buffer, parse buffer, large block | `tcp_parse_pkt` | any segmentation, size boundaries |
| Accepting, reading, closing: `posix/io.c`, `tcpio.c`, `ncb.c` | descriptors, epoll sets, collected events, links | `_iorun`, `_io_rdhup`, `tcp_syn`, `tcp_rx`, `ncb_deconstruct`, `ncb_uninit`, `tcp_destroy` | edge triggering, stale events, hang-up during set-up, failures between two steps |

An application thread calls `tcp_write`; what the kernel does not take goes to
the link's transmit queue and EPOLLOUT is armed. The epoll thread of the link
turns EPOLLOUT into a task of the writer pool, whose thread sends the queue.
Reading, accepting and hang-ups are handled on the epoll thread directly. All
threads reach a link through its handle, hold a reference while they work on
it, and close it with `objclos`; the last reference runs `ncb_deconstruct`.

`PROJECT.json` lists every other part (connect, UDP receive, pipes, logger, AVL
tree, evfs and the rest) with the reason why it has no module yet.

## Modules

A locked region, a system call or a callback is one action; whatever the code
does between two of them is reachable by other threads. Program counters name
the place inside a function. Definitions whose name begins with `Mut_` are
deliberate mistakes; each stands in front of the definition it spoils and says
what the mistake is. `MC*` modules give constants their values. Two of them put
several components side by side, so that one run asks one question of all:
`MCLifetimes` (what keeps memory alive: ObjectTable and PoolSlot) and
`MCDataPaths` (what becomes of data: TcpTx, UdpTx, TcpParser, Ckfifo). There
`part`, chosen in the initial state, says which component a behaviour is about;
the others do not move.

* **ObjectTable** models `object.c`. A *user* is a call frame: allocating,
  holding one reference, or unloading. `AllocBegin`, `AllocInitFail`,
  `AllocInstall` are `objallo3/4` around the initializer, which runs outside
  the lock; `Refr`, `Reff`, `Defr`, `Clos` are the locked functions; `Unload`
  is `_objtagfree`. The AVL tree is a function from handles. **ObjectLife** is
  what the table promises: an object is created, acquired, closed, and
  destroyed once nobody holds it.
* **LwpEvent** models the event functions. A waiter is `idle`, `blocked` in the
  condition variable, or on its way out (`woken`, `expired`). The initial state
  chooses between a synchronous and a notification event. Destruction has two
  steps, as in the code: the locked one, and the end of the mutex.
* **Ckfifo** models the ring with counters modulo `Modulus`; **ByteQueue** is the
  bounded queue of bytes it implements. ByteQueue leaves open how much of a
  request is moved; what the header says about that is `AllOrNothing`.
* **PoolSlot** models one slot of a manager: `InitPublish` (compare-and-swap),
  `InitLocked`/`InitFailed`, `Retain`/`Release`, and the three steps of uninit.
  `wp_uninit` and `io_uninit` pass the pool where the address of the expected
  value belongs: the exchange compares the slot with the eight bytes of
  `ref.count` and `ref.status` and, when they differ, overwrites them with the
  slot's value, an address (the status is then the block it leads to) or zero.
  A second uninit finds the address and succeeds; one that read the slot before
  that and exchanges after it finds the slot empty and leaves a counter that is
  zero and `NORMAL`. It is assumed that the high half of an address is none of
  the three statuses, and that load, exchange and store are one step;
  `LowPositive` says which sign the low half has. What a thread finds in a block
  that was freed is undefined: it goes on, returns or faults. `Retain` returns a
  pool also when `ref_retain` fails, because `unlikely()` makes 1 of its -1.
  The history variables `overwritten` and `emptied` name the pools this happened
  to, for the properties.
* **TxFifo** holds the queue operations and the epoll mask that the two transmit
  modules share. **TcpTx** adds `tcp_write` (begin, test, send, queue), the
  worker (`_wp_run`, `_wp_exec`, `tcp_tx`, `tcp_tx_syn` with all its exits), the
  epoll thread and the end of the link. `nonblock` is LINKATTR_NONBLOCK, without
  which `fifo_tx_overflow` always answers no; the initial state chooses it from
  `Nonblock`. It belongs to the link from its creation; attributes that change
  while a link works are not modelled. **UdpTx** does the same for datagrams, on
  a link that has the attribute.
* **TcpParser** models `tcp_rx` and `tcp_parse_pkt` over a stream that is cut
  anywhere. A byte is `<<packet, index>>`, so losses and repetitions show.
  `split` records that a large block was begun with part of its header in an
  earlier piece. `Misread` is what the application's parser makes of bytes that
  are no header, `Refused` the payloads whose header it fails on; a template
  may also come without a parser.
* **TcpAccept** composes the epoll threads with the accept loop, the receive loop
  and the end of links. Link 0 is the listener; a link's thread is its handle
  modulo `nprocs`. `Wait` takes the whole ready list, so events can be stale when
  `RunEvent` gets to them. The `Syn*` actions are the stages of `_tcp_syn`;
  `NoMemory` lets accept, allocation and registration fail.

Two macros deserve a word. `ILLEGAL_PARAMETER_CHECK` and `..._STOP`
(`include/compiler.h:164-174`) return when their condition is *false*, but all
callers pass the condition under which they want to return: as written,
`ncb_deconstruct` releases nothing and no event is posted. `TcpTx` therefore has the switch
`ChecksInverted`: the run `tcp_tx_inverted` sets it, all others and all other
modules use the check the callers intend. Likewise `tcp_listen`
(`posix/tcp.c:837`) passes the link instead of the descriptor to
`io_set_nonblock` and fails before it attaches the listener; `TcpAccept` starts
from a listener that was attached.

## Runs

| Run | States | Checks |
|---|---|---|
| `tcp_accept` | 450 thousand | end-of-link events come once and last, every descriptor has an owner, data is cleared before an orderly close, accepted before data, the backlog is emptied, every link that ends is reported |
| `tcp_tx` | 2.6 million | queue bookkeeping, the head the worker sends outside the lock, order of bytes, accepted packets are sent or queued, a closed link releases its resources |
| `lwp_event` | 85 thousand | one pass per awakening, no missed wake-up, destruction releases all, signalled events do not keep waiters |
| `data_paths` | 690 thousand | TCP: one writer's packets leave whole and in order, accepted ones are sent or queued, an armed queue drains. UDP: queue bookkeeping with two poppers, no datagram sent twice or sent after a refusal. Reassembly: nothing lost, repeated, reordered or left in a buffer, one packet per callback, no link closed without cause. Ring: implements ByteQueue, its capacity included, while counters and buffer wrap |
| `lifetimes` | 59 thousand | objects: counts equal holders, a held object stays and is found by its handle, one unload, refinement of ObjectLife (no reference after a close, dead exactly when closed and unheld), closed objects are freed. Pools: the count is the number of users until an uninit overwrites it, no pool is freed in use unless its counter was zeroed, the slot never leads to a freed pool |
| `tcp_parser_split` | violation | one packet per callback, for large packets whose header arrives in two pieces |
| `tcp_tx_unarmed` | violation | EPOLLOUT is armed while the overflow flag is up |
| `tcp_tx_inverted` | violation | closing releases the link, with the parameter check as written |
| `tcp_tx_order` | violation | packets keep their order on an accepted link without LINKATTR_NONBLOCK |
| `ckfifo_short` | violation | put and get move all that was asked for or nothing |
| `event_timeout` | violation | an awakening is used up only by a wait it lets through |
| `pool_uninit` | violation | no pool is freed while it is in use |

Bounds. Two objects and three users give every pair of racing calls on an
object and a third frame that sees the result; handles include a caller's
choice that automatic numbering reaches. Three waiters let one be signalled,
one time out and one stay. The ring has four places and counters that wrap
every eight bytes. Three threads with seven calls between them initialise a
protocol, use it, uninitialise it three times, initialise it again and use that,
in every order. The parser has a header of two bytes, a buffer of five and
payloads of zero, small, exactly one buffer, large, largest and too large, three
in a row. The transmit queue holds two nodes and the kernel takes one unit, so
that full queues, partial sends and refusals all happen with three packets of
two units: `tcp_tx` divides them in any way between two writers, `data_paths`
has one writer, who may also write before the set-up of the link has ended. For
UDP the kernel takes one datagram and two writers write two each. Two connections on two epoll
threads put one link beside and one on the listener's thread; one of them sends
data that is refused, and the application gives one order (destroy a link,
destroy the listener, close down) at any time.

Deadlock is not checked: with bounded calls the systems come to rest. Symmetry is used in safety runs only.

Fairness. `ObjectTable`: who has a reference gives it back and who removed an
object frees it, which is straight-line code. `LwpEvent`: a thread that left
the condition variable gets the mutex. `TcpTx`: the worker wakes every 10 ms,
the epoll thread runs while its ready list is not empty, a thread inside
`tcp_write` goes on, a live peer acknowledges (but it need never send what makes
`tcp_rx` fail). `TcpAccept`: every epoll thread
goes on, and so does the thread that ends a link. Nothing is assumed of when
applications call, peers send or memory runs out.

## Proofs

`ObjectTableProofs` proves for every set of objects, users, known handles and
every numbering bound: type correctness, that the count is the number of
holders, that held objects stay, that a closing object has a holder, that the
unloader runs once, that closes are final, and that the table implements
ObjectLife. (`ClosingIsHeld` and `CloseIsFinal` have no line of their own in
`Lifetimes.cfg`: ObjectLife has both, and the run checks the refinement.) None of these is inductive alone. The invariant `IInv` is `Shape`
together with the count: `Shape` ties the two maps together (an object is live
exactly when the table has it under its own handle), says for each place of a
user what its object and handle are, and gives an object under construction or
removal to one user only. With it, `objdefr`'s second search is
seen to find the object the reference was taken from, and the count then
follows by removing or adding one holder. The constants are assumed to be what
their declaration says: `NoObj` is no object, users are finite, known handles
are integers, `Unloader` is a set of Booleans and `MaxAuto` a natural number.

`LwpEventProofs` proves for any number of waiters, with or without timeouts,
spurious wake-ups and destruction: types, at most one pass per awakening, no
missed wake-up, and that destruction releases everybody. Where no wait has a
timeout (`~Timed`) it also proves `AwakenSpentOnce`, that an awakening of a
synchronous event is used up only by a wait it lets through; the run
`event_timeout` shows that the assumption is needed. The strengthening says that
while the flag of a live synchronous event is up one more awakening than passes
has happened, and that a notification event with its flag up has nobody blocked;
`Untimed` adds that without timeouts nobody is `expired`.

Only model-checked: all liveness properties, the ring and its refinement, the
parser, the pools, both transmit paths and accepting.

## What the checks show

The properties of the passing runs hold. Disagreements between the code and
what it says of itself have a run where noted:

* A large packet whose header arrives in two pieces is assembled without the
  first piece, and takes the first bytes of the next packet instead
  (`posix/tcpal.c:116`; `tcp_parser_split`).
* `fifo_pop` disarms EPOLLOUT after releasing the lock, so a packet queued in
  between waits for an event that does not come (`posix/fifo.c:119`;
  `tcp_tx_unarmed`).
* The parameter check is inverted (`tcp_tx_inverted`).
* `tcpio.c:27-29` retains the listener after a resource error of `accept4`;
  `_iorun` closes it for any status but EAGAIN. A failed set-up of one
  connection closes it too.
* Data of a peer that sends and closes at once can be posted before the
  accepted event when the link is on another thread (`tcpio.c:103`).
* When the listener is shut down while its thread is in the accept loop,
  `tcp_syn` repeats forever and the links of that thread are not served.
* The `fifo_pop` after `tcp_tx_syn` frees a packet that was written in the
  connected callback (`posix/wpool.c:148`).
* `wp_init` publishes a pool before it is initialised (`posix/wpool.c:274`).
* `wp_uninit` and `io_uninit` overwrite the reference counter instead of closing
  the pool. A first uninit closes nothing, and from then on users are not
  counted; a later one closes the slot but finds a status that is not NORMAL, so
  the pool stays; two at once can free it under a user (`posix/wpool.c:237`,
  `posix/io.c:436`; `pool_uninit`). `ref_close` writes the status of the pool
  after `on_closed` has freed it (`refs.c:69`).
* `ckfifo_put` and `ckfifo_get` move a part of what was asked for when the rest
  does not fit or is not there; `include/cfifo.h:12` and `:14` have all or
  nothing (`cfifo.c:22`, `:34`; `ckfifo_short`).
* A timed-out wait on a synchronous event clears an awakening that arrives
  before it has the mutex again, and reports the timeout
  (`posix/wosi/threading.c:600`; `event_timeout`).
* `lwp_event_uninit` destroys the mutex that the waiters it has just woken need
  on their way out (`posix/wosi/threading.c:508`).
* An accepted link has no LINKATTR_NONBLOCK unless the listener hands its
  attributes on, although its socket is non-blocking. `fifo_tx_overflow` then
  never reports the queue, and packets overtake those that are queued
  (`posix/fifo.c:145`, `posix/tcpio.c:97`; `tcp_tx_order`). `PacketsContiguous`
  is stated for links with the attribute and holds for one writer; with two,
  packets interleave, and one of which a part was sent may be refused when the
  other fills the queue.
* `tcp_write` on a link that is not established returns the success of
  `tcp_save_info` and drops the packet (`posix/tcp.c:913`), where
  `include/nis.h:123` lets success mean sent or queued.
* `udp_tx` and `_wp_exec` both pop after one datagram was sent; the next one is
  freed unsent (`posix/udpio.c:159`, `posix/wpool.c:148`).
* The end of an accept or connect set-up writes the epoll mask without looking
  at it: a packet queued in the callback loses its EPOLLOUT
  (`posix/tcpio.c:115`, `:361`). It shows when `TcpTx_unarmed.cfg` is run with
  `EarlyWrite = TRUE`.
* Automatic numbering that meets a handle a caller has chosen leaves the new
  object outside the table (`posix/wosi/object.c:108`).

The properties of the passing runs name these cases as exceptions or do not
speak of them; the hazards of `PROJECT.json` say which.

## What is left out, and the plan

Descriptor numbers and their reuse, socket options, addresses, log text, file
contents and memory of tasks are abstracted away. The Windows port, the C++
classes, the redis sources and the pure byte computations are not modelled.

Seen while reading and not modelled or not stated as a property:

* `objallo3` calls the unloader without testing it when the initializer fails
  (`object.c:223`), and frees a block whose handle is taken without it (`:230`).
* A link accepted while `ncb_uninit` collects handles is not closed
  (`ncb.c:45`); its last link is read after the lock (`ncb.c:59`).
* Writers may use a descriptor number after the hang-up path closed it
  (`io.c:84`); a lost task allocation loses an EPOLLOUT (`io.c:204`).
* `io_uninit` reads a block that a failing `io_init` frees (`io.c:436`); a task
  taken after deactivation is neither run nor freed (`wpool.c:177`).
* `tcp_connect2` whose connect succeeds at once (`tcp.c:695`), attributes set by
  two threads (`ncb.c:442`) or while a link has a queue.
* Logger: a pending record that is never counted down (`logger.c:408`), an event
  that is never blocked again (`:240`).
* evfs: lost blocks and stale results (`cache.c:316`, `:1034`, `:539`), entry and
  descriptor references (`entries.c:620`, `evfs.c:210`), writes into the middle
  of an element (`entries.c:826`). mesgq: deadlines (`mesgq.c:128`).

Next, in this order:

1. The start and stop of the epoll threads with the pipes that wake them: which
   thread an awakening reaches, and whether `io_uninit` can join.
2. `tcp_connect` and `tcp_connect2` from the first call to the connected event,
   with attributes.
3. The logger: node pool, pending counter, two flushing threads.
4. evfs, from below: cluster allocation; the block cache against an abstract
   disk, with failing I/O; the task queues; entry heads and descriptors with
   their references.
5. The AVL tree against an ordered set, for TLC.
6. Proofs: `QueueConsistent` and `WorkerOwnsHead` of TcpTx, `RefCountsHolders`
   and `AliveUnlessEmptied` of PoolSlot, `DescriptorsOwned` and `CloseIsLast` of
   TcpAccept.
