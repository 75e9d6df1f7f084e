# Verification of the systems-programming projects

The repository holds six C programs, each built around one problem of process
or thread synchronisation. This directory holds TLA+ models of them, TLC
configurations that check the models on small instances, and proofs checked
by TLAPS for instances of any size.

    tlc -workers 4 -config WorkQueue.cfg WorkQueue.tla
    tlapm WorkQueue_proof.tla

## 1. Inventory

Paths are relative to `src/`. Line numbers refer to the files there.

### Final: the city-transaction system (`Final/source_code`)

Three programs: one server, several servants (nine in `script.sh`), a client.

| part | state | operations | talks to |
|---|---|---|---|
| request queue (`Server/server.c` 86-93, 311-332, `Server/queue.c`) | linked list, `size_queue`, `mutex_queue`, `cond_queue` | `offer_int`, `poll_int`, wait, broadcast | main appends, workers remove |
| worker and servant table (`server.c` 95-206) | `servantInfoList`, `servantCount`, the worker's locals | register a servant, find the servant of a city, sum over all servants, reply | servants (connect, send, read), clients (read, write) |
| start-up and shutdown (`server.c` 43-84, 346-354) | `arrived`, `available`, `sigintcaught` | barrier that never waits, SIGINT handler that kills the registered pids | servants |
| servant protocol (`Servant/servant.c` 35-129, 205-315) | the port file, a named semaphore | draw a port, register, listen, answer | server |
| servant data (`servant.c` 323-488) | arrays of cities, files, transactions | load the data set, count the transactions in a range of dates | |
| client threads (`Client/client.c` 29-93, 285-375) | `arrived`, `mtx`, `cond` | barrier, request, print the response | server |
| client parsing (`client.c` 147-333) | request list | tokenize the request file | |

Hard: workers share `servantInfoList` and `servantCount` without a mutex; a
servant registers before it listens; `exit` in any worker ends the server with
requests open; a city nobody has gets no reply; the queue pairs a list with a
counter and a condition variable that is broadcast to all.

Correct means: no accepted connection is lost, duplicated or reordered on its
way to a worker; no worker sleeps while there is work; a registration stays in
the table; an answer comes from the servant of the city, a total covers every
servant once; every request is answered.

### hw5: parallel product and DFT (`hw5/source_code/threads_synchronization.c`)

M threads multiply two matrices by rows, meet at a barrier (97-101) and compute
the DFT of the product by rows. State: the matrices, the first row of each
thread, the barrier's counter, the flag of the SIGINT handler. Hard: the
barrier, the partition, SIGINT at any time. Correct means: nobody reads an
unfinished product, nobody touches a row of another thread, nothing is freed
in use, the program ends.

### hw3: wholesaler and chefs (`hw3/source_code/named.c`, `unnamed.c`)

A wholesaler puts pairs of ingredients on a two-byte table in shared memory,
six chef processes poll it under one semaphore, each takes its own pair, and
returns its number of desserts as exit status. The two files differ in where
the semaphore lives. Hard: polling processes, a sem_wait that a signal
interrupts, exit statuses of eight bits, SIGINT. Correct means: each pair
becomes one dessert of the right chef, the total is right, all processes end.

### hw4: supplier and consumers (`hw4/source_code/threads.c`)

A detached supplier posts two System V semaphores as the input file says; C
consumers take one of each, atomically, N times. Hard: the pairwise operation,
the removal of the set while the supplier may still run, SIGINT in `semop`.

### Midterm: matrix service (`Midterm/source_code`)

Server Y makes a FIFO and forks one worker and server Z. The worker reads the
requests of all clients from the FIFO and answers each through a FIFO of the
client; Z and its own worker wait at a second FIFO nobody writes to. State: the
two FIFOs and what is in them, the FIFOs of the clients, the flag of each
process. Hard: a request is longer than a pipe holds, so it is written and read
in parts; SIGINT to any of five processes; broken pipes; `kill` with its
arguments swapped (`serverY.c` 573). Correct means: no request is mixed with
another, every client is told the verdict on its own matrix, everybody is
answered. `become_daemon.c` is a fixed sequence of system calls.

### hw2: covariance (`hw2/source_code`)

The parent forks a child per thirty bytes of input; each appends a line to one
file under a record lock; the parent waits for all, reads the file back and
looks for the closest pair of matrices. State: the file, the offset that all
processes share, the lock, the flags of SIGINT. Hard: a seek before the lock, a
line and its newline written apart, a failed fork, SIGINT to everybody. Correct
means: lines stay whole, each child's line is there once, the pair printed is
the closest, all processes end.

### hw1: file editor (`hw1/source_code`)

Replaces strings in a file under a record lock, by way of a temporary file that
is copied back over the original. State: the file, its lock, the temporary
file. Hard: two editors of one file, a death between two writes, patterns that
overlap or whose replacement contains them. Correct means: edits exclude each
other, and each replaces what the usage text says.

The data set, the reports, the slides and the functions that turn `errno` into
text hold no logic of interest.

## 2. Plan

Done, in this order:

1. `ConnectionHandoff`, `WorkQueue`, `TransactionServer`; `Rendezvous`,
   `PosixBarrier`, `DftThreads`; `DessertTable`; `SupplierConsumers`.
2. `ServantProcesses` (ports, signals, servants that go away), `DateRange` and
   `TransactionData` (what a servant loads and counts), `MatrixService`
   (Midterm), `CovarianceProcesses` (hw2), `FileEditor` (hw1).
3. Proofs of every invariant and every action property that a run checks, and
   of the two refinements, in eight proof modules.

Left, the most useful first:

4. The threads of the client, with their creation and their SIGINT; the start
   of hw3 with a semaphore that an earlier run has left.
5. The pointers of `queue.c` as a refinement of the sequence in `WorkQueue`.

## 3. Modules

| module | models | composed with |
|---|---|---|
| `ConnectionHandoff` | abstract: connections are accepted in an order and handed to workers in that order | |
| `WorkQueue` | the queue of the server, down to the mutex and the condition variable | implements `ConnectionHandoff` |
| `TransactionServer` | the loop body of the workers, servants, clients | extends `ConnectionHandoff` |
| `ServantProcesses` | processes and signals of the city-transaction system: ports, listening threads, calls, ends | |
| `TransactionData` | a line of the request file, the data a servant loads, its count | extends `DateRange` |
| `DateRange` | the test of a date against a range | |
| `Rendezvous` | abstract: threads leave when all have entered | |
| `PosixBarrier` | the barrier of hw5 and of the client | implements `Rendezvous` |
| `DftThreads` | hw5: main, threads, SIGINT | extends `PosixBarrier` |
| `DessertTable` | hw3: wholesaler, chefs, SIGINT | |
| `SupplierConsumers` | hw4: supplier, consumers, main, SIGINT | |
| `MatrixService` | Midterm: Y, its worker, Z, the clients, their FIFOs, SIGINT | |
| `CovarianceProcesses` | hw2: parent, children, the output file, SIGINT | |
| `FileEditor` | hw1: editors, the file and its lock | |

`MC...` modules hold instances for TLC, `..._proof` modules the theorems about
the module whose name they begin with. Three of them are about more than one
module: `DftThreads_proof` also about `PosixBarrier`; `Servant_proof` about
`ServantProcesses`, `DateRange` and `TransactionData`; `FileLock_proof` about
`CovarianceProcesses` and `FileEditor`, the two programs that write a file under
a record lock.

A definition whose name begins with `Faulty` is not the code: it is a version
of one step with a plausible mistake, kept to show that a property depends on
the step. `PROJECT.json` lists which property each one breaks, and gives for
every other definition the lines it stands for.

### WorkQueue

`mainPc` and `pc` say where main and each worker are; each lock, unlock, wait,
test and update is a step of its own. The list of `queue.c` is a sequence:
`offer_int` appends, `poll_int` removes the head or returns -1 (`None`).
`pthread_cond_wait` releases the mutex and joins the wait set in one step,
a broadcast empties the set, and `SpuriousWakeup` takes a thread out for no
reason. Serving a connection is one step, `Finish`. A connection stands for
its descriptor; the server never closes one, so numbers do not come back.

`accepted` and `taken` record the order of `accept` and of `poll_int`. The
refinement mapping to `ConnectionHandoff` says that a worker serves the
connection in `fd_server` from `poll_int` on. The tests of `sigintcaught` are
in `ServantProcesses`.

### TransactionServer

Takes the queue at its abstract level and opens up what a worker does with a
connection. Reading `servantCount` in a loop test, storing the port and pid,
storing the cities, reading and writing the counter in `++servantCount` are
separate steps, because nothing guards the table. Cities are members of a set
and "the city is in the string" is membership; the last match wins, as in the
loop at 138. An answer is a count of which servant's answers went into it: the
right answer for one city has a single 1, the total has a 1 for every servant.

`oneAtATime` is chosen once: the servants are started one after the other, each
when the registration of the one before is over, or together, as `script.sh`
does. Registrations that overlap store into one slot and lose each other, so
`RegistrationKept`, `RightServant`, `TotalCovers`, `ExitOnlyOnUnready` and
`KnownCityAnswered` speak of the first case. `NoServantTwice` and the type
invariant hold in both: a lost count makes the table short, never long, and no
servant is in two slots.

Merged: port and pid are stored in one step; connect, send and the acceptance
by main are one step; reading a request is one step. A servant registers, then
listens; a call to one that does not listen yet is refused, and `openSocket`
ends the server (`exited`). So does a lookup that matches a slot another
registration has named but not yet given a port: it calls port 0. That needs
overlapping registrations; for servants started one by one `ExitOnlyOnUnready`
says that the servant a worker calls when the server exits is registered and
not listening. After that a client's `read` returns 0 or the
connection is reset; the first is `ReadEof`.

### ServantProcesses

The same system seen from its processes. A servant opens a named semaphore,
draws its port from a file under it (when the file does not open it posts,
unlinks the semaphore and exits, `OpenFails`), connects and registers, creates
a thread that listens, polls its flag, joins the thread, closes and unlinks the
semaphore. `value` holds every semaphore that was ever created: unlinking takes
the name away from a semaphore that others still have open, and the next
`sem_open` makes a second one. A servant's socket listens until its process
ends, also after its thread has returned, so a call can still connect and then
waits in the backlog.

A SIGINT is pending until its process catches it; a handler that runs inside
`sem_wait` makes it fail (EINTR), and no result is checked. The server's handler
goes over the table slot by slot (`told`, `PassOn`). When it returns, an
`accept` of main, or a `read` of a request or of an answer that it interrupted
in a worker, may fail and end the server (`HandlerReturns`); else main notices
the flag after the next `accept`.

A call to a servant that ends stays unanswered: the worker's `read` returns 0
and adds what its buffer held before (`Stale`). Here a registration is one step
and so is the reading of a request; the races between them are in
`TransactionServer`. A second SIGINT and a SIGINT to a client are left out.

The promises that the code keeps have conditions that show its limits:
different ports need one semaphore and no interrupted wait; a servant whose
thread sits in `accept` needs one more call to end; the server, one more
connection.

### TransactionData and DateRange

`ParseRequest` is the second parse loop of the client: `strtok` on blanks for
the type and the dates, and the rest of the line for the city, with its further
blanks. A servant takes the range of cities of its argument from the
sorted directory, opens their directories and reads their files in the order
`readdir` gives, whichever it is, into arrays of `FILE_COUNT` files per city,
each of `TRANSACTION_COUNT` lines. The code compares neither index when it
stores. From the first store outside its array (`overrun`) the model leaves
open what happens: the process is killed (`Fault`), a directory is passed over
because its name was overwritten, or any count comes out, and the names the
servant has sent may match anything. `FitsIn` says that the data of a servant
fit; the properties are about such servants. The count goes over the first
`TRANSACTION_COUNT` lines of what is in memory: a cell of zeros has a date that
no request asks for. It is over all cities of the servant, not over the one
asked for. The server's `strstr` finds the city in the string of the names a
servant sent: a city whose name is part of another's is found there too, and
the last match wins. Lines are shorter than their buffer.

`DateRange` has the cascade of comparisons, year, month, day for each end, and
the order of dates it stands for.

### PosixBarrier

Counter, mutex, wait set, one label per thread. `Arrive` locks and increments;
`Wait`, `Wake` and `Pass` are the loop and the broadcast; `Unlock` leaves. The
counter is never reset: the barrier is used once, in hw5 as in the client.

### DftThreads

`mainPc` follows main from the assignment of rows to its end, `pc` each thread.
A row of the product goes from "zero" over "partial" to "product"; a row of the
result is "right" if every row of the product was finished when it was computed.
`Sigint` is the handler: it sets the flag, and crashes if `threadsArray` is
still NULL. Every test of the flag is a step. The assumption is what main has
checked, and at most 128 rows, because `matrixHalfSize` is a `uint8_t` and 256
becomes 0. `Writing` is the row a thread works on, in either phase; `RowsApart`
says that it is a row of the matrix and nobody else's. The tests of the flag at
461 and at 507 are one step. Spurious wakeups are left to the run of
`PosixBarrier`; the `pthread_kill` of a thread that main has already joined,
which POSIX does not define, is left out.

A thread that sees the flag before the barrier leaves, and the others wait for
it without end; `Finishes` promises an end in every other case.

### DessertTable

`addr` is the table, `sp` the value of the semaphore. A chef compares one byte
of the table per step, in the order of its chain of ifs, copies the second byte
(`ReadSecond`) and writes the table twice; the wholesaler too looks at one byte
per step. Among processes that hold the semaphore this granularity makes no
difference. But `CatchSigint` runs the handler in one process: a `sem_wait` that
is blocked at that moment returns and the process goes on to the table without
the semaphore, since no result is checked (a blocked `waitpid` ends the
wholesaler). From then on (`interrupted`) bytes of two pairs can be put
together: a chef may make a dessert that nothing was delivered for, or a pair be
lost. So `EachPairOneDessert` holds until the first interrupted `sem_wait`; a
SIGINT that interrupts none leaves it in force. A chef ends with its count
modulo 256, or with 1 after SIGINT. The input is a sequence of pairs, each
wanted by some chef; the wholesaler's memcpy of two bytes is one step. The
wholesaler that finds its table full never tests its flag, so after a SIGINT it
may poll for ever: `AllServed` promises its end without a signal only, and the
end of every chef with one.

### SupplierConsumers

`sem` holds the two System V semaphores; `Consume` takes one of each in one
step, as a single `semop` does, and is not enabled until both are there.
`removed` and `closed` say that main has removed the set or closed the file:
a later `semop` fails and ends the process, a later `read` fails and ends the
supplier. `pos` counts the bytes dealt with; the byte in the supplier's hand is
the next one. Any byte but '1' and '2' is "other".

The handler sets the flag and signals the consumers one by one (`pending`,
`Interrupt`); one that sleeps in `semop` ends the process, one on its way there
goes on. Before main has filled `consumerThreadsArray` the handler reads
through NULL, unless `C` is still 0. A second SIGINT changes nothing. Left out:
the messages, a failing `malloc` or `pthread_create`, and what is undefined (a
signal to a joined thread).

### MatrixService

A request travels in `Parts` parts through a pipe that holds `Capacity` of them.
`pipe` is what is in it, `req` what the worker has read of the current request.
A `read` takes what is there up to the rest of the request and may come back
short; the code does not read on, so from then on its requests are shifted
(`WorkerShort`). A process at the label of an `open` has called it and counts as
an end of the FIFO; a write without a reader raises SIGPIPE. The worker holds a
writing end of its own FIFO, so its `read` never returns 0. SIGINT sets the flag
and makes a blocked call fail; each process then does what its code does at that
place. `kill` with swapped arguments reaches nobody.

The verdict is computed as the code does it, with its own notion of a cofactor
and of a determinant, for matrices of one and two rows. For two rows that is
not the determinant (section 4), so it is not used as an expectation:
`response` and `told` carry, next to the verdict, the parts it was computed
from, and `OwnVerdict` says that those are the client's own whole request, and
that for a matrix of one row the verdict is the mathematician's. A buffer that
mixes two requests can give either verdict. Y may end at its start when its log
cannot be written, and so may Z. `clean` records that no
read was short, no request cut off and no two written at once; without it
nothing is promised, as nothing in the code tells requests apart.

### CovarianceProcesses

Each `write`, `lseek`, lock and unlock is a step. Parent and children share the
offset of the output file, because they share its open description. The file is
a sequence of lines and newlines, and a line stands for the group of bytes it
was computed from. When `fork` fails the parent goes into the branch of the
child, writes the line itself and ends. When `execv` fails the child exits with
status 0 and has written nothing; the parent does not look at the status, and
`CollectedOnce` promises the line of a child that ran to its end (`MayFail`
turns both failures on). SIGINT goes to a set of processes at once, as a
terminal sends it; a parent that has seen its flag passes it on to one child
after the other. It sets the flag of a child that is running, makes one that
waits for the lock return 1, and may end one that has no handler yet. The search
for the closest pair follows the loop with its strict comparison and its initial
minimum; norms are given.

### FileEditor

An editor takes the write lock, and for each edit reads the file, writes the
replaced text to a temporary file, copies that back from the start and never
truncates: a text that became shorter keeps the old end. It may die at any
step, which releases the lock. `original` is the file, `holder` who has its
lock, and `before` keeps the file as it was when the edit began. `Jobs` are the
command lines: a kind, the patterns, the replacement, the flag 'i' for each
edit; between brackets there is at least one character. Patterns in brackets
are tried in turn; the second starts at the offset
where the copy of the first has ended, and appends what it finds from there to
the same temporary file. '\n' and '\r' both end a line (`LineEnds`). Whether '^'
sees a match at the head of the file depends on the byte in front of the
buffer, so the model allows both. The flag 'i' lowers the whole file. The copy
back is one step, since only the editor that holds the lock touches the file.
The file is read with one `read`; the byte behind it is not looked at.

What an edit should do is written down from the usage text, not from the loop:
`Wanted` are the places it promises to replace, `FirstOf` those that do not
overlap an earlier one, `Expected` the text with these replaced. `Kept` names
the edits for which the code keeps that promise, and `EditReplacesAll` compares
the file with it there; section 4 lists the others.

## 4. Runs

| run | cfg | instance | shows |
|---|---|---|---|
| queue | `WorkQueue` | 3 workers, 3 connections | no lost wakeup; the queue is the handoff, with its order and its fairness |
| server | `Server` | 2 workers, 2 servants together or one by one, 2 clients | no servant twice in a total; the table and the answers are right for servants started one by one; when the server exits |
| servants | `Servants` | 2 servants, 1 client, SIGINT to a servant or the server | ports, totals, the end of every process and of every call |
| data | `TransactionData` | 5 cities, 2 servants, arrays of 2 files and 3 lines, data that fit and data that do not | the count over the loaded files, the servant of a city |
| barrier | `PosixBarrier` | 5 threads | nobody early, nobody asleep, all pass, each step is one of the rendezvous |
| dft | `Dft` | 4 threads, 8 rows, SIGINT or none | rows apart and within the matrix, no unfinished product is read, what is written is complete; without a signal no use after free; the end |
| dessert | `DessertTable` | 3 chefs, 4 pairs, SIGINT to a chef and the wholesaler or none | one dessert per pair until a wait is interrupted; without a signal the right total; the ends |
| pairs | `SupplierConsumers` | 3 consumers, 2 rounds, 5 files, SIGINT or none | the amounts are conserved; the removal of the set cuts nobody off; with enough in the file the program ends |
| matrix | `Matrix` | 2 clients, requests of 3 parts, a pipe of 2, SIGINT to four processes | requests stay whole, each client's verdict is computed from its own request, all are answered |
| covariance | `Covariance` | 3 children, a line of an earlier run, SIGINT to all or one, failed forks and execv | lines whole and there once, the closest pair, all end |
| editor | `FileEditor` | 2 editors, 3 texts, 4 command lines, death at any step | edits exclude each other; a simple edit does what the usage text says |

Bounds. Three workers and three connections: several workers sleep, are woken
for one connection and find the list empty or longer than one; a worker that
has served one comes back for another. Two workers and two servants are enough
for every race over the table, which is between two steps of two workers; two
clients let a request meet a registration in each loop. Two servants share the
port file, and one may come when the other has unlinked the semaphore. One data
set has a city with one file more than `FILE_COUNT`, one a file with one line
more than `TRANSACTION_COUNT`, one fills the arrays exactly. With two rows
per thread a thread can be between its own rows. The chefs of
`dessert` want pairs that overlap (one shares a letter with each of the others);
its input uses each of them, and one pair in both orders. A request
of three parts is longer than the pipe of two, so two clients can mix their
parts and the worker can read one or two. Three children let one line come
between the seek of a second and the lock of a third. The files of `pairs` are
an exact one with other bytes in between, an exact one that brings all of one
kind first, one with more than is taken, one that passes the limit of a
semaphore, and one with less; the limit, 32767 in Linux, is 7. A user sends
SIGINT once.

`CHECK_DEADLOCK FALSE` stands where the program ends, all requests are served,
or everybody waits for the next one. The queue run checks deadlock: even when
all is served a sleeping worker may wake up.

### Where the code contradicts its own text

| run | what TLC finds |
|---|---|
| server_unknown_city | The worker writes nothing for a city no servant has; the client's thread, which has a branch for the answer -1, waits forever. |

In other places the code does not do what a text of the repository says of it.
The models have them as the code does them, and the properties say only what
remains:

- Midterm: the determinant of two rows is computed from elements that are not
  those of the matrix (`serverY.c` 60: the first of a row plus the column). The
  matrix 2 1 2 7 has determinant 12, and its client prints that it is not
  invertible (`client.c` 181-184, `serverY.c` 491-495).
- hw1: the usage text (`helperfunctions.c` 315-320) promises to replace all
  occurrences, with 'i' the same but case insensitive. The flag 'i' lowers the
  case of the whole file; after a replacement that makes the text shorter the
  old end of the file stays; '$' does not match at the end of the file, '^' at
  its head depends on the byte in front of the buffer; an anchored occurrence
  that overlaps an earlier one that is not at the anchor is missed.
- hw2: a child whose `execv` fails exits with success and without a line
  (`parent.c` 171-172); the parent prints its pair as if the group had not been
  there.
- Final: the arrays hold 10 lines of a file and 10 files of a city
  (`servantUtil.h` 3-33), the shipped data set has 100 of each. The eleventh
  line overwrites the date of its own file and further ones the files behind it
  (`servant.c` 425-430), so the counts the program gives for this data set are
  not those of the files.
- hw3: a chef or the wholesaler whose `sem_wait` is interrupted works on the
  table beside the others (`named.c` 44, 702): desserts without a pair, or pairs
  without a dessert.

Other limits of the code are conditions of the properties, stated in section 3:
overlapping registrations, a thread that leaves before the barrier, the
wholesaler's busy path, a second semaphore, a short read of a request.

## 5. Fairness

- Weak fairness of each thread or process: the scheduler runs it when it can
  step. `Finish` in `WorkQueue` stands for a worker that is done with a
  connection some time; `TransactionServer` shows when that is not so.
- A mutex is taken by a thread that waits for it: for `WorkQueue` and
  `PosixBarrier` weak fairness is enough, as the others go to sleep or move on,
  provided that spurious wakeups stop. That is the conjunct `<>[][...]`: POSIX
  allows a spurious wakeup, not an endless stream of them, which would keep
  the mutex busy.
- In `DessertTable` all processes poll, so the semaphore is taken and posted
  without end. Strong fairness of `sem_wait` says that a process that polls it
  gets it some time. POSIX does not promise that to processes of the default
  scheduling class; the program relies on it all the same.
- In `MatrixService` a client that waits for room in the pipe competes with the
  others each time the worker has read; strong fairness of its `write` says
  that it gets its turn, as the kernel wakes the writers in order.
- In `SupplierConsumers` weak fairness of each thread is enough: what one
  consumer takes, another need not compete for when the file has enough. In
  `ServantProcesses` and `CovarianceProcesses` a process asks for a semaphore or
  a lock once. `TransactionData` and `FileEditor` state no liveness.
- No fairness is assumed of peers that connect, of clients' requests, nor of
  SIGINT, failed forks and deaths.

## 6. Proofs

The proof modules prove their theorems for any set of threads, workers,
servants, connections or clients (finite where the code counts them), any
numbers of consumers, rounds, rows or children, and any input files.
They assume what the code or its input guarantees, each by name in its module:

- `None`, `Main`, `Server`, `Stale` and the words that stand for "nobody", "end
  of file" or "reset" are not members of the sets of processes;
- what the programs check of their options; that the ranges of `-c` count the
  cities from 1;
- a directory has finitely many files, and a date is a triple of integers, in
  the files as in the requests;
- the texts, patterns and replacements of the editor are over one set of
  characters, which `to_lower` does not leave, and no pattern is empty;
- hw3 has at most six chefs, and every pair of the input has a chef that wants
  it; hw5 has 4 to 128 rows and a number of threads that divides them;
- a matrix of the Midterm has one or two rows, and a request is longer than the
  pipe.

Every proof of an invariant has the same shape: an inductive invariant as a
conjunction of named parts, one lemma per part with one step per action, and
under it what this action can disturb. What a step leaves alone is dealt with
once, in lemmas about the frame (`Far`, `QuietStep`, `Unmoved`,
`OthersUnchanged`).

**WorkQueue_proof.** The inductive invariant is `IInv` of `WorkQueue`, proved
in parts. `Typing` comes first. `MutualExclusion`: the threads at a label
inside the critical section are the holder of the mutex. On it rests
`Counting`: how far `size_queue` is from the length of the list at each point
inside the section; "equal when the mutex is free" is not inductive, because
the list and the counter change in two steps. `CountIsExact` is its case with
no holder. `WakeupsReach` needs the mutex: a worker that enters the wait set
has just tested the counter, so main is not between its increment and its
broadcast. `Conservation` says that `accepted` is `taken`, the list and main's
hand, in this order, so `poll_int` takes the next connection (`NextIsHead`).
`Unique` and `Serving` give `ExclusiveService`; `Counting` gives `PollFinds`.
`ImplementsHandoff` maps each step to a step of `ConnectionHandoff` or to a
stutter, from the invariants.

**TransactionServer_proof.** `HandoffInv`, what the abstract queue gives: no
connection comes to two workers. `Basic` adds the types, what a worker serves
at each step (`Roles`), and `Counts`: the counter is at most the number of
registrations processed, which keeps it, and every index, inside the table
however registrations overlap (`TSTyping`). For `EachServantOnce` two parts
join: a servant's port is stored in one slot only, as its one registration
stores it once (`PortInv`; a slot may be overwritten, but only with a servant
that is in none), and the loop over the slots has passed the slot of everybody
in its total (`ScanInv`). `Focus` splits a step into one of the worker in
question and one that leaves its locals alone. For servants started one after
the other, `Serial`: at most one is accepted and not yet registered, its worker
owns the slot behind the counted ones (`HalfDone`), the counted ones are the
registered servants (`Kept`); hence `RegistrationsKept`. `FoundInv` and
`CoverInv` then say of a worker that it asks registered servants only, the
right one, and that those it has seen are in its total or still ahead; hence
`RightServantAnswers`, `TotalsCover` and `ExitsOnUnready`.

**Servant_proof**, `ServantProcesses`. `PInv`: while there is one semaphore and
nobody has passed it unasked, its value and the servants between wait and post
are one together (`OneInside`), and a servant's port is below the number in the
file or about to be replaced there (`PortsBelow`). All steps that have nothing
to do with the port file are dealt with at once (`Far`); a servant that could
not open the file leaves as one that has written it does (`OpenFailsKeeps`).
`PortsAreDistinct` follows. `CInv` is about the calls. "The total has the
servants of the table in order" is not inductive: between two servants of a
total the worker waits, the servant may be at work, have answered, or end by
SIGINT with the call in its backlog. So a call is with one servant, once, until
it is answered (`HeldOnce`, `OneHolder`), and with one at the port that was
dialled (`Dialled`); that it is *the* servant needs different ports, or a signal
as the excuse. `CallsInOrder`, and with it `TotalsAreOfTheTable`.

**Servant_proof**, `DateRange` and `TransactionData`. `AtMost` is a linear order
on dates; `RangeTest` says that the cascade is "from at most the date at most
to"; `EmptyRange` follows. `Lookup` and `CitiesAreTheShare` say what the server
finds and what a servant loads; `CityIsFound` joins them. `DInv` is the loading,
of a servant whose data fit: no file lands in a cell that already holds one
(`Fresh`), no store leaves the arrays (`Contained`), and what the array counts
is what the loaded files count, city by city (`Tally`); that every line of a
file is counted is `AllLinesCount`. Without `FitsIn` the parts say nothing, as
the model leaves the outcome open. Sums over finite sets have no library here:
`SumsExist`, `SumTake`, `SumMore` and `SumNull` are proved by growing the set
one element at a time. `CountsAreExact` follows, for any order in which
`readdir` gives the directories and their files.

**DftThreads_proof**, `PosixBarrier`. `BTyping`, `BExclusion`, and `BCounting`:
the counter is the number of threads that have entered. `FullMeansAll` turns a
full counter into "all have entered", by the cardinality of a subset of a finite
set; hence `BarrierHolds`. `NobodySleepsOn` needs the mutex again.
`ImplementsRendezvous` is the refinement.

**DftThreads_proof**, `DftThreads`. Its steps are steps of the barrier
(`StepsOfBarrier`), so what is proved there holds here. `Shares` is the
arithmetic of the partition: the rows t * gap up to (t + 1) * gap - 1 lie in
turn, do not overlap and cover all rows when the number of threads divides
theirs. `DInv` says where each thread is relative to the barrier (`Places`), how
much of its share is done (`ProductGrows`, `ResultGrows`), and whom main has
joined (`Joins`). Behind the barrier everybody's share is multiplied
(`AllMultiplied`): hence `ProductIsFinal` and `OutputIsComplete`; `SharesApart`
gives `RowsAreApart`, `Joins` gives `FreedAfterUse`.

**SupplierConsumers_proof.** `Typing` includes that no semaphore leaves its
range. `Stages` says how far the program is: all consumers have left when main
closes the file and removes the set, and only a SIGINT leads to the other
removal. `ConservationHolds` counts two sets: the bytes delivered of a kind,
and the pairs (consumer, round) taken. `HowItFails` then shows that without
SIGINT only a delivery to the removed set can end the process; at that moment
all have left, which is `NobodyIsCutOff`. If the file is exact, C * N pairs are
taken (`AllTaken`) and the byte in the supplier's hand is one too many
(`OneMoreToCome`), which is `NothingFails`.

**DessertTable_proof.** Until a `sem_wait` is interrupted, at most one process
is between wait and post (`OneInside`), so what it has read of the table, byte
by byte, still lies there (`Seen`), and what was brought for a chef is what it
has made, what it is taking and what lies on the table for it (`NoneLost`):
hence `Desserts`, for every behaviour up to that point, SIGINT included. For
`Total`, every pair is for one chef (`PairsShared`), the wholesaler says "no
more" to an empty table only (`Announced`), and it adds what the chefs exit with
(`Collected`). An exit status has eight bits, so `Total` assumes an input with
fewer than 256 pairs for each chef; with more the total the wholesaler prints
is too small. Sums over the chefs are written out for six, the number in the
code.

**MatrixService_proof.** `Stream` is what the worker holds followed by what is
in the pipe. `StreamAligned` (a part that is not the first comes behind the one
before it of the same request) is preserved by a write only if an open request
is the last thing in the stream (`OpenRequestIsLast`), and by a read because it
moves a part within the stream. Dropping a finished request takes a whole
request off its head (`DropWhole`). Every step moves the stream in one of these
ways or not at all (`StreamStep`). Hence `Alignment`; then the buffer that is
answered is one client's request (`WholeRequest`), and `Verdict` follows, its
second half from the determinant of one row.

**FileLock_proof**, `CovarianceProcesses`. The seek is outside the lock, so "the
offset is at the end of the file when a process writes" needs that whoever moves
the offset leaves it at the end: `AtEnd`, for every process from its seek on,
with `Exclusive` for the writers and `LastIsOpen` for the line without its
newline. `LinesAreIntact` and `LinesAreAppendedOnce` follow. What the parent
takes apart is a recursive function of the file: `TokensCount` says that each
line comes out as often as it went in, and `AllCollected` that the parent reads
the file when no child is left; hence `LinesAreCollectedOnce`. The search is a
recursive function too. `SearchFinds` follows its loop: after k rounds the best
is the closest of the first k pairs (`BestOf`, `Seen`); hence
`TheClosestIsPrinted`, when some pair is within the initial minimum.

**FileLock_proof**, `FileEditor`. `EInv`: who is at its edits holds the lock
(`EditorHolds`), which gives `Isolation`; the first pattern is looked for in the
whole file as it was (`FromTheHead`), and before it is copied back the temporary
file has the expected text (`TempIsEdited`); hence `Replacing`. `ReplaceIs`
carries the weight: the code goes over the text once and jumps over each
occurrence, `Expected` replaces the places `Wanted` by the usage text that do
not overlap, character by character. That the places the code replaces are those
is `WantedIs` and `ChosenIsWith`. There is a set of such occurrences
(`LeftmostExists`), the places the loop stops at are those outside them
(`Skipping`), and the text put together up to each of them is the same (`Scan`,
with `Copied` and `Erased` for what is between). The edits outside `Kept`,
patterns with a bracket and texts that become shorter are excepted, as in
`EditReplacesAll`.

Induction over data. The library's induction rules take an operator as their
parameter, which the provers cannot instantiate. Where a proof needs one it
takes a *set* instead: the set of numbers for which the statement fails has a
least member (`Least`), or a set that contains 0 and with each number the next
contains all up to a bound (`Climb`). A recursive function is, by definition,
some function that satisfies its equation, so each has a lemma that there is one
(`TokensExist`, `SearchExists`, `FromOnExists`, `JoinedExists`, `SumsExist`) and,
where it matters, only one (`FromOnUnique`, `SumsAgree`). What they compute is
then proved for every input.

Only model-checked: liveness, since fairness is outside the prover's reach. These
are `AllPass`, `KnownCityAnswered`, `Finishes`, `AllServed`, `Ends`,
`AllAnswered`, `AllEnd`, `SigintEndsServant`, `SigintEndsServer`, `CallReturns`
and the fairness in `HandoffSpec`, whose safety part is `ImplementsHandoff`.

## 7. Not modelled

- Messages, error texts, formatting; the log of the Midterm with its lock, which
  nobody reads; the fields of a transaction that no request asks for.
- The numbers in the matrices of hw5 and hw2: the models follow who computes
  which row from what.
- `getCofactor` for matrices of three rows and more: it reads elements of its
  buffer that were never written.
- What stores outside an array do: after one in a servant the outcome is left
  open; lines and texts longer than their buffers, and `matrixHalfSize` at 256
  rows, are outside the models.
- The byte behind what the editor has read, where its buffer is not initialised.
- The first parse loop of the client and its threads' creation and SIGINT.
- The pattern '*' of hw1, with which the program does not come to an end.
- The start of hw3: shared memory, the semaphore, one left by an earlier run;
  input lines that are not a pair.
- The limit on open descriptors: the server closes none.
- `become_daemon.c`, the functions that turn `errno` into text, the data set.

`PROJECT.json` lists each part and each hazard with the property that covers
it, or with the reason why none does.
