# Verification of the Linux-Server programs

TLA+ models, TLC runs and TLAPS proofs for the concurrent, signal-driven and
networked programs of this repository.

## The system

The repository is a course on Linux server programming. Its own code is in two
places:

* `src/Linux/lesson*/`: C and C++ programs, about 1250 lines;
* the fenced code blocks of `src/note/*.md`: complete programs, each with its
  `main`. They are source, not prose. For some lessons only the compiled
  program is under `src/Linux` (lesson24 has the binaries `chatA` and `chatB`,
  whose text is in note 10). Models are translated from these programs, never
  from the text around them.

`src/Linux/lesson07/redis-5.0.10` is third-party code and is not modelled.

The programs are independent of each other. Inside each one there are several
actors: threads around a shared list, a parent with its children and signals, a
server with its clients, a process with a timer. The parts:

| Part | Source | Module | Status |
|---|---|---|---|
| producer/consumer, semaphores | note 16, 327-405 | `SemQueue` | modelled, proved |
| producer/consumer, mutex only and condition variable | note 16, 31-108 and 169-256 | `CondQueue` | modelled, partly proved |
| SIGCHLD reaping | note 12, 746-806 | `SigChild` | modelled, proved |
| wait / waitpid loops | lesson21 | `WaitLoop` | modelled, proved |
| multi-process TCP server | note 19, 661-762 | `ForkServer` on `EchoClient` | modelled |
| multi-threaded TCP server | note 19, 857-967 | `ThreadServer` on `EchoClient` | partly |
| select, poll, epoll LT servers | note 20, 163-776 | `MuxServer` on `EchoClient` | partly, proved |
| one-to-one TCP echo | lesson32 | `EchoPair` on `EchoClient` | modelled, proved |
| daemons | lesson28 | `Daemon` | partly |
| sorting | lesson08 | `Sort` | modelled, proved |
| the rest | see the end | | not modelled |

`PROJECT.json` has the complete list, the map from definitions to source
lines, and the hazards each property is aimed at.

## The modules

An action is one call that other actors can observe (a lock, a semaphore
operation, a read, a fork) together with the local assignments around it. What
a program does before its actors start (socket, bind, listen, sem_init) is in
`Init`. Printing is left out unless a property is about it. Definitions that
sit just before another one and have a telling suffix (`LockNotTaken`,
`WaitpidOnce`, `ReadKeepsData`...) are deliberately wrong variants of it; no
specification uses them. Each property is violated when its variant, listed
under `mutants` in `PROJECT.json`, replaces the real definition.

**`BoundedStack`** is an abstract specification: a stack of distinct elements
with at most `Capacity` of them, pushed and popped in one step each. The two
producer/consumer modules are shown to implement it.

**`SemQueue`** (semaphores). `psem`, `csem` and `mutex` are those of the code.
The list `head` is a sequence of node addresses, a pointer is the sequence of
the nodes reachable from it, and `heap` is the set of nodes malloc'ed and not
yet freed. Per thread there is `pc` and the local pointer `ptr`. One action per
line of `producer` and `customer`: `PWait`, `Lock`, `PAlloc`, `PLink`,
`Unlock`, `PPost` and `CWait`, `Lock`, `CTake`, `CPop`, `CFree`, `Unlock`,
`CPost`.

**`CondQueue`** has both other versions; the variable `blocking`, chosen in
`Init`, says which one runs. `pthread_cond_wait` is `CWait` (releases the mutex
and sleeps in one step) and `CRelock`. `PSignal` wakes one or more waiting
customers, and `CSpurious` wakes one without a signal, as POSIX allows both.

**`SigChild`**: `main` (block, fork loop, sigaction, unblock, sleep loop), the
children, delivery of SIGCHLD, and the `waitpid` loop of `myFun`. A pending
SIGCHLD is one bit, so deaths merge. While the signal is neither blocked nor
handled it is discarded. Any fork may fail; when the last one does, main is in
neither branch and returns.

**`WaitLoop`**: both parents of lesson21, the program chosen in `Init`. Children
end only by `Kill`. `reported` collects the deaths the parent has printed.

**`EchoClient`** is the client program of notes 19 and 20 and its TCP
connection. A connection (`link`) is `none`, `open`, half-closed by the client
(`fin`) or reset by it (`rst`), closed by the server (`shut`), reset by it
(`reset`), or `dead` (the client has written after the close). These follow
Linux: a process that ends with unread data sends a RST, otherwise a FIN; the
first write after a close goes unnoticed, the second raises SIGPIPE; read gives
-1 after a RST and 0 after a FIN. `inbox` and `outbox` count whole messages. The
operators in the second half (`Receive`, `AtEof`, `AtReset`, `Answer`,
`TakeConnection`, `CloseAll`) are the kernel's side and are marked external in
the map. The user may stop a client at any moment (`Kill`).

**`ForkServer`**: every process runs the same accept loop. The process forked
for client `c` is called `c`. `recycleChild` is a handler per process, with a
pending bit per process; `Return` gives EINTR to the call it interrupted, if
there is one. The test of `errno` (note 19:722) is a step of its own, `Test`: a
signal may come between the two, and a `waitpid` that finds no child left then
overwrites `errno` with ECHILD (`KeepErrno`). `Exit` is exit(-1), with what the
kernel closes: the connections the process accepted itself, and with the first
process, which ends last, everything.

**`ThreadServer`**: `main` searches `sockinfos` (of `MaxLen` elements) for one
with `tid = -1`, fills it in and creates a thread; `working` reads its
descriptor from the shared element at every call, as the code does.

**`MuxServer`**: the three level-triggered servers, the program chosen in
`Init`. `watched` is rSet, fds or the epoll instance. `ready` is the copy of the
last report (tmpSet, revents, events), worked off one by one. After a close the
round is abandoned (`break`). poll tests `revents` of the element it has just
filled in; for the first connection of all that is an uninitialised value, so
both outcomes are allowed (`unset`). Which of several ready connections comes
first is left open. This covers the ascending loops of select and poll and the
kernel's order in epoll.

**`EchoPair`**: the lesson32 server, which accepts once, and the lesson32
client, which sleeps between write and read and stops when the server has
closed. It uses the connections of `EchoClient` with a client program of its
own.

**`Daemon`**: both programs of lesson28, a timer with its interval, and a
terminal that may be closed at any moment. `work` is the handler of daemon.c,
`demo_work` that of demo.c, which only prints. The process that reaches the loop is the forked child, or
the original process when fork fails, because -1 is not tested.

**`Sort`**: `bubbleSort` and `selectSort`, one step per turn of the inner loop.

## The runs

Twelve runs; all pass except the two marked as violations. The type
invariants of `ForkServer`, `ThreadServer` and `Daemon` are checked in their
runs; those of the other modules are proved (see The proofs).

| Run | Instance | Shows |
|---|---|---|
| `sem` | 2 producers, 2 customers, 2 places, 3 nodes | `MemorySafe`: the unguarded `head = head->next` never meets NULL or a freed node. `NoLeak`. `BoundedHeap`: psem bounds the memory in use. `IsBoundedStack`: refinement. `Progress`: nodes are produced and consumed for ever |
| `cond` | 2 producers, 3 customers, 3 nodes, both versions | `MemorySafe`, `NoLostWakeup`, `IsStack` (refinement), `Consumed` |
| `sigchild` | 4 children | `ZombieNoticed`, `HandlerOnlyInLoop`, `EveryChildReaped`, `HandlerReturns` |
| `wait` | 4 children, both programs | `ExitsLast`, `EveryChildReaped`, `ParentEnds` |
| `fork` | 3 clients | `ReadUninterrupted`: SIGCHLD never reaches a process in read, whose EINTR is not handled. `ZombieNoticed`, `NoOrphan`: a process that ends leaves no child behind. `Answered`, `ZombiesReaped` |
| `fork_reclaim` | 3 clients | violation of `ChildReclaimed`, see Findings |
| `thread` | 3 clients, 2 elements | `OwnsElement`: no thread's element is taken over. `Answered`, `ClientsEnd` |
| `thread_reuse` | 3 clients, 2 elements | violation of `ElementReused`, see Findings |
| `mux` | 3 clients, three programs | `NeverBlocks`: a report is still true when it is used, except the uninitialised `revents` of poll. `Answered`, `Released` |
| `pair` | 3 clients | `OneInFlight`, `NoSigpipe`, `ServerEnds`, `ClientsEnd` |
| `daemon` | both programs | `Quiet`, `Survives` (of a fork that succeeded), `TimeWritten`: daemon.c writes to its file for ever |
| `sort` | all arrays of length 0 to 4 over 4 values | `Sorted`, `Permuted`, `Returns` |

### Bounds and why they are enough

* Queues: two threads of each kind give every race between two threads of the
  same kind and of different kinds. The third customer of `cond` gives a signal
  that wakes more than one customer while another one is still awake. With one
  node more than places in `sem` the list can be full while malloc still has an
  address. In `cond` the list of the code has no bound; `PLock` bounds it by
  waiting for an address before the mutex is taken.
* Children: four allow two deaths to merge while a third happens inside the
  handler and a fourth lives on.
* Servers: three clients give one that is served, one that is stopped and one
  that waits. Two elements of `sockinfos` with three clients reach the full
  array. A client has one message under way because its program writes once
  and then reads. Each client connects once, so a stream of ever new
  connections, which might keep a server from the others, is outside these runs.
* Sorting: four values on four places give every order pattern, with and
  without duplicates.

The proofs below remove these bounds for safety.

### Fairness

Weak fairness is given to each thread, process, signal delivery and handler
that can run: the scheduler runs it eventually. None is given to what the
environment need not do: a client connects, a user stops a program, a terminal
closes, a child is killed. The children of `SigChild` exit by themselves in the
code, so they are fair.

Fairness is weak also where threads compete for a mutex: a customer of
`CondQueue` that finds no node locks again without sleeping (note 16:74-77), so
it may keep others out. `Consumed` needs no more, because every customer that
gets the mutex while there is a node takes one. That producers leave it the
mutex is the bound in `PLock`, which stands for their `usleep(100)`.

Some properties exempt a failure the code has no branch for: a last fork that
fails in `SigChild` and `WaitLoop` (the parent skips its loop, init reaps),
the fork for a connection in `ForkServer` (its client waits), the fork of a
daemon (it stays in the foreground). The models contain these failures; nothing
is claimed of what follows.

Deadlock is checked in `sem` and `cond`. It is switched off where the program
may really stop: a function or a parent returns, or a server waits in accept
with no client left.

## The proofs

Each `*_proofs` module extends its component. Safety is proved from an
inductive invariant `IInv` for every value of the constants. The assumptions
are those named in the component modules: finite sets of threads, distinct
special values, a positive number of children.

* **`SemQueue_proofs`**: `TypeCorrect`, `MemorySafety`, `NoLeaks`, `HeapBound`
  and `Refinement` (the program implements `BoundedStack`). `MemorySafe` alone
  is not inductive: that `head` is not NULL at `head = head->next` depends on
  the value of csem and on where all other threads are. `IInv` adds an equation
  per semaphore (`Tokens`: its value plus the threads holding one of its units
  plus the length of the list, or of the free part, is constant), mutual
  exclusion (`Exclusive`), what each local pointer is at each place
  (`Locals`), and that the list has distinct live nodes (`ListOK`).
* **`CondQueue_proofs`**: `TypeCorrect`, which includes mutual exclusion across
  `pthread_cond_wait`, and `WakeupSafety`. `IInv` adds `Tested`: what a
  customer learned from its test of `head` still holds when it acts.
* **`SigChild_proofs`**: `TypeCorrect`, `NoUnnoticedZombie`, `HandlerInLoop`.
  `IInv` adds `Masked`: until the handler is registered the signal is blocked.
* **`WaitLoop_proofs`**: `TypeCorrect`, `ParentLast`. `IInv` adds that the loop
  is entered only after the last fork succeeded (`Phases`) and that every
  reaped child is printed or about to be (`Printed`).
* **`EchoPair_proofs`**: `TypeCorrect`, `InStep`, `SigpipeFree`. `IInv` adds that
  a client that has not connected is unknown to the server (`Fresh`) and that an
  answer waits only for a client that will read it (`Expected`).
* **`MuxServer_proofs`**: `TypeCorrect`, `NonBlocking`, `InStep`. `IInv` adds
  `StillReady`, which extends `NeverBlocks` to the time between a read and its
  write.
* **`Sort_proofs`**: `TypeCorrect` (indices in bounds), `Sorting`,
  `Permutation`, for every length and all integers. `IInv` holds the two loop
  invariants.

Only model-checked: all liveness properties; the safety of `CondQueue`'s memory
and its refinement; `ForkServer`, `ThreadServer` and `Daemon` as a whole.
Liveness under fairness is beyond the prover used here. The others are planned.

## Findings

* **A child of the multi-process server is not reclaimed** (`fork_reclaim`,
  note 19:760). After `close(connfd)` the child does not exit. It continues the
  accept loop, accepts connections itself, and is never reaped. Lines 634-635
  say that the resources of a child are reclaimed with the signal handler once
  its client disconnects, and line 626 that the parent accepts connections.
* **Elements of `sockinfos` are never given back** (`thread_reuse`, note
  19:951). Nothing sets `tid` back to -1, so after 128 connections the search
  never ends, even when all threads have finished. The comment at line 955 says
  that the search sleeps and starts again, as if an element could become free.

Seen while modelling, without a run of their own:

* **An interrupted accept may end the multi-process server** (note 19:719-726).
  The comment at line 721 says that the test handles an accept interrupted by
  the signal. `recycleChild` does not save `errno`: when a second child dies
  after accept has returned and before the test, and it was the last child,
  `waitpid` leaves ECHILD in `errno` and the process exits. `EndsOnlyOnReset` in
  `ForkServer` states what the comment promises; TLC refutes it when it
  is added to `ForkServer.cfg`: Main goes from accept through `Test` to exit.
  `NoOrphan` and `Answered` show what remains true: nothing is left on the port,
  and no client waits because of it.
* Moving the `sleep` after the `read` (note 19:819) makes `Connection reset by
  peer` rarer and does not remove it, since a client stopped between the arrival
  of the answer and its read still resets the connection.
* `work` of lesson28/demo.c prints to a descriptor that is /dev/null, while its
  comment (line 13) says that it writes a disk file. `TimeWritten` is therefore
  stated for daemon.c only.

## What is not modelled, and the plan

In `ThreadServer` a failing `pthread_create`. In the servers descriptor numbers,
and so the descriptors that the parent in `ForkServer` never closes, the limit
of 1024 in `MuxServer`, and accept failing for another reason than a signal. In `Daemon` umask, chdir and a
failing open of /dev/null or time.txt.

Planned, in this order:

1. `EdgeServer`: the edge-triggered epoll server and its keyboard client, where
   the `break` at note 20:996 drops events that are not reported again.
2. Proofs of `ReadUninterrupted`, `ZombieNoticed` and `NoOrphan` for
   `ForkServer`, and of
   memory safety and the refinement for `CondQueue`.
3. A table of descriptors for `ForkServer` and `MuxServer`.
4. `Tickets`, `TwoLocks` and `RwLock` (note 15); `FifoChat` and `Pipe`
   (note 10).
5. Shared memory and memory mapping (notes 11, 13), UDP and local sockets
   (note 21), the other signal programs of note 12.
6. `getFileNum` and the mode string of `ls-l` as operators checked against
   reference definitions.

Left out for good: redis (third-party), single system calls without state of
their own (stat, access, chmod, truncate), and the build exercises of lesson07
and lesson08.

## Running

    tlc -config SemQueue.cfg MCSemQueue
    tlapm SemQueue_proofs.tla

and likewise for the other runs (module and cfg are listed in `PROJECT.json`)
and the other `*_proofs` modules.
