# A TLA+ verification of the aesdchar driver and the aesdsocket server

The repository holds a Linux character driver, `/dev/aesdchar`
(`aesd-char-driver/`), that keeps the last ten newline-terminated write commands,
and a TCP server, `aesdsocket` (`server/`), that appends each line it receives to
the device and sends the device's contents back.  Built without
`USE_AESD_CHAR_DEVICE` the server keeps a file instead, into which a timer writes
timestamps.  `examples/` has two small libraries, for child processes and for
threads.  This directory models all of them, model-checks them with TLC on small
instances, and proves their safety properties for every size with TLAPS.

## 1. Inventory

| Component | State | Operations | Hard behaviour | What makes it correct |
|---|---|---|---|---|
| Circular buffer (`aesd-circular-buffer.{c,h}`) | `entry[10]`, `in_offs`, `out_offs`, `full` | `init`, `add_entry`, `find_entry_offset_for_fpos`; `get_buffer_size` of the driver | wrap, full flag, entries without bytes, offsets at the boundaries | a FIFO log that hands back what it drops; the lookup is a lookup in the concatenation |
| Driver, file operations (`main.c`) | the buffer, `tmp_buff_ptr`/`tmp_buff_size` (the unfinished command, shared by all writers), `lock`, the heap, one offset per file | `open`, `release`, `read`, `write`, `llseek`, `ioctl(AESDCHAR_IOCSEEKTO)` | concurrent callers, interrupted waits, failing allocations and copies, eviction under a reader's offset | one linearizable log; every copy inside a live block; no block lost; the lock released on all paths |
| Driver, load and unload (`main.c`) | region, buffer, cdev | `aesd_init_module`, `aesd_cleanup_module` | failure at each stage, reload | everything released once |
| Server, main thread (`server/main.c`) | `is_running`, the two descriptors, the list of threads | start up, accept loop, reaping, clean up with goto labels | threads that end at any time, error labels | list, args and descriptors in step; everything released at exit |
| Signal handler | `is_running`, the listening socket | SIGINT/SIGTERM | arrives at any step of any thread | the server stops |
| Client threads (`sock_thread.c`) | `finished`, `file`, the connection | read a line, append, read back, send | mutex, two open files, failures, a client that is silent, does not read or is gone | each client gets a snapshot that ends with its own line |
| One connection's bytes (`sock_thread.c`) | line buffer and its size, the line being sent, `errno` | `readline_from_socket`, `parse_ctrl_line`, `send_file` | pieces of any size, a buffer that is full, short and failing sends, a failing `getline` | the line, the numbers and the answer do not depend on how the bytes are cut |
| Timer (`itimer_thread.c`) | the timer, one thread and open file per expiration | `start_timer`, `timer_thread`, `timer_delete` and `remove` in `main` | nobody waits for its threads; what they wrote is flushed after the unlock | no line is torn apart; the file stays removed |
| Thread list (`queue.h` SLIST) | next pointers | insert head, iterate, remove | removal during iteration | no element lost, none used after it is freed |
| `examples/systemcalls` | the descriptor, the child's status, in two processes | `do_system`, `do_exec`, `do_exec_redirect` | each system call fails in the parent or the child | the result tells the outcome; one process goes on |
| `examples/threading` | `thread_data`, the caller's mutex | `start_thread_obtaining_mutex`, `threadfunc` | error paths that keep the mutex; the struct is shared with the new thread | one owner, success means released, threads return |
| `finder-app`, scripts, headers | | | | not modelled: section 7 |

The threads of the server, the timer's too, share the mutex, the list elements
(`finished`), the process's descriptor table and the output file; the handler shares `is_running` and the listening
socket with main.  Server and driver meet at the device: the server's threads are
callers of `open`, `write`, `ioctl` and `read`.  `CommandDevice` is the contract
between the two: `AesdChar` is shown to implement it, and `SockThread` uses a
device that behaves so (its own mutex makes each thread's uses consecutive).
`Connection` opens up the steps `ReadLine`, `SeekTo`, `SendNext` and `SendEnd` of
`SockThread`: what they take as one step, the outcomes of the loops, is checked
there byte by byte.

## 2. Modules

    BoundedLog         what the buffer promises                  (abstract)
    CircularBuffer     the struct and its functions              (operators)
      RingLog          a caller adds entries for ever; refines BoundedLog
      AesdChar         the driver; refines CommandDevice
    CommandDevice      what /dev/aesdchar promises               (abstract)
    ServerBase         state of the server, the kernel, the clients
      ServerMain       main.c: main thread and signal handler
      SockThread       sock_thread.c: client threads
      TimerThread      itimer_thread.c: the timer of the file configuration
        AesdSocket     the composition and its properties
    Connection         one connection of sock_thread.c, byte by byte
    SystemCalls        examples/systemcalls
    Threading          examples/threading
    MCAesdChar, MCAesdSocket, MCConnection, MCSystemCalls     constants for TLC
    InductionProofs                            least elements, concatenations, sums
    CircularBufferProofs, RingLogProofs, AesdCharProofs, AesdSocketProofs,
    ConnectionProofs, SystemCallsProofs, ThreadingProofs    TLAPS proofs

### The circular buffer

`aesd_circular_buffer(E)` is the struct.  The three functions keep their names;
`ReplacedPtr` is the pointer `add_entry` returns, `UInt8` the width of the
indices.  The lookup's loop is written as the (unique) entry in which the rest of
the offset falls.

### The driver

A call goes from `pc = "user"` through `Invoke` to the lock and back.  A handler
is one action per stretch that cannot block or fail:

| Code (`aesd-char-driver/main.c`) | Actions |
|---|---|
| `aesd_read` 52-91 | `Lock`/`Interrupted`, `ReadFind`, `ReadCopy`, `Unlock` |
| `aesd_write` 93-153 | `Lock`/`Interrupted`, `WriteAlloc`, `WriteCopy`, `WriteCommit`, `Unlock` |
| `aesd_llseek` 166-180 | `Lock`/`Interrupted`, `aesd_llseek`, `Unlock` |
| `aesd_ioctl` 225-276, `aesd_adjust_file_offset` 182-223 | `aesd_ioctl` (tests before the lock), `Lock`/`Interrupted`, `aesd_adjust_file_offset`, `Unlock` |
| `aesd_init_module` 302-331 | `InitRegion`, `InitBuffer`, `InitCdev` |
| `aesd_cleanup_module` 333-357 | `aesd_cleanup_module` |

The heap maps addresses to the bytes of a block or `FREE`.  `kzalloc` zeroes,
`krealloc` enlarges in place or moves and leaves the new bytes unwritten
(`JUNK`), `copy_from_user` that fails has stored a prefix and zeroed the rest
(as the kernel does).  `tmp_buff_ptr[-1]`, which a write of nothing reads, is any
byte of `StrayBytes`.  `mutex_lock_interruptible` gives up only while it waits.
The driver is modelled as built, with `AESD_DEBUG`.  Log messages are left out;
`%s` of a block is why `EntriesOwnTheirBlocks` asks for the NUL.

### The server

A thread is named after its client, and so is its `struct aesd_thread_args`.
Descriptors are numbers, a new one is the lowest that is free, so reuse of a
number is real.  `client_sock_fd` starts with any value, because the code does not
initialise it.  A line is abstracted to its kind (`line`, `ctrl`, `partial`,
`eof`) and to the client that sent it.  Appended bytes are in a buffer of the
thread's own until `fclose` writes them out, so appending takes no step of its
own (`AppendAndClose`, `TimerAppend`).  An answer is sent piece by piece: `send`
blocks, with the mutex held, until the client takes a piece (`SendNext`, in
`send_to_client`, which no fairness makes happen), and a `getline` that fails ends
the answer early (`SendEnd`).  The handler takes two steps and suspends the thread
it runs in.
`fclose(NULL)` and SIGPIPE end the process (`killed`).

`build` is the configuration: `"device"` with `USE_AESD_CHAR_DEVICE`, as
committed, or `"file"`.  The constants `Inputs` and `Faults` give each its own
inputs and failures.  `argv` is the command line, which `parse_args` looks at.

| Code | Actions |
|---|---|
| `parse_args` main.c 187-210 | `parse_args`, `should_daemonize` |
| start up, main.c 252-299 | `start_listening`, `set_signals`, `daemonize`, `InitMutexAndList`, `start_timer`, `StartRunning` |
| accept loop, main.c 300-332 | `CheckRunning`, `Accept`/`AcceptFails`, `init_thread`, `CreateThread`, `InsertThread` |
| `remove_joinable_threads` 225-243 | `ReapNext`, `JoinAndFree` |
| clean up, main.c 333-362 | `CloseClientFd`, `DeleteTimer`, `remove_all_remaining_threads`, `RemoveFile`, `DestroyMutex`, `CloseServer` |
| `sock_thread_func` 137-229 | the actions of `SockThread`, in the order of the code |
| `timer_thread` itimer_thread.c 18-69 | `TimerFopen`, `TimerLock`, `TimerAppend`, `TimerFclose` |

Each expiration of the timer is a thread of its own (`SIGEV_THREAD`); it starts
while the timer is armed and nobody joins it.  `fopen` with `"a"` or `"a+"`
creates the file (`exists`); a descriptor that is open when the file is removed
refers to an `unlinked` one afterwards.  A mutex that has been destroyed under a
timer thread is refused or taken for a free one: both are possible.

### One connection

`Connection` has the loops of `sock_thread.c` on bytes.  `Recv` delivers any
piece that fits into the room the code offers; a byte beyond the buffer would show
in `TypeOK`.  `bufsize` is an `int` of `IntBits` bits: once doubling overflows,
`reallocarray` is asked for more than there is and the thread gives up.  `atoi` is
`strtol` with the width `LongBits`, cut to `int` and then to `uint32_t`.  In
`send_file` a `send` that fails returns -1, which the code adds and subtracts like
any count, so the byte in front of the line's rest is sent again (`JUNK` when that
is outside the line).  `getline` may fail on a read or an allocation: it returns
what it has of the line, or -1, which ends the answer (`GetlineFails`).  `errno` is
never reset; the model keeps the call that set it (`atoi` does so for a number beyond
a `long`).  `Unfinished` are the bytes that an earlier client left without a newline:
the driver joins the line to them.  The device keeps all its commands here; eviction
is the subject of the driver's modules, and the failures between the two loops
(`fopen`, the mutex, `fclose`) are that of `SockThread`.

### The examples

`SystemCalls` has the variables of the parent and of the child apart, as after a
fork.  A child that returns from the function instead of running the command
(`cpc = "returned"`, after a failed `dup2`) goes on with the caller's program and
ends with any status.  In `Threading` each call of `start_thread_obtaining_mutex`
has a thread and a `struct thread_data` of the same name; `failed` remembers the
threads that returned with the mutex.

## 3. Runs

"Violation" runs check what a comment or header of the repository says and TLC
refutes it by what the code does; PROJECT.json quotes the line.

| Run | Expect | Shows |
|---|---|---|
| `ring` | pass | index discipline, lookup = lookup in the concatenation, size total, refinement of `BoundedLog` |
| `driver_log` | pass | `ImplementsCommandDevice` with partial and empty writes, reads, `lseek` and the seek by command, and with failing first allocations and copies; only written bytes are counted, the seek finds its command while the oldest is in slot 0, entries own their blocks, copies in bounds |
| `driver_faults` | pass | under every failure, with load and unload: lock held exactly inside the critical section, entries own their blocks, copies in bounds, blocks get lost in three known places only, every call returns |
| `driver_seek_to` | violation | after the wrap the seek by command lands in another command |
| `driver_empty_write` | violation | a write of nothing adds an entry without bytes when the byte in front of its block is a newline |
| `server_faults` | pass | in both configurations, under every failure: the echo is a snapshot (but for timestamps), descriptors stay with their thread, list and threads agree, exit releases everything, the file stays removed |
| `server_live` | pass | waiting clients are accepted whatever the others do; connections end unless a client does not read its answer; a signal in the loop stops the server unless a client stays silent or does not read |
| `server_early_signal` | violation | a signal between `set_signals` and `is_running = true` is lost |
| `connection` | pass | however the bytes are cut: the line is the first line, the control string means its numbers, the answer arrives (a prefix of it if `getline` fails), and `true` means it did |
| `systemcalls` | pass | what the result of `do_exec` and `do_exec_redirect` says about the command, who goes on after the fork, which descriptors stay open, `argv[0]` |
| `systemcalls_true` | violation | `do_system` returns true for a command that exits with 1 |
| `threading` | pass | who owns `thread_data`, what success means, every thread returns unless one failed with the mutex |

`ImplementsCommandDevice` and `CountedBytesAreStored` hold in `driver_log` because
`krealloc` may not fail there and `StrayBytes` has no newline.  A failed
`krealloc_array` (main.c:111) sets `tmp_buff_ptr` to NULL and leaves
`tmp_buff_size`: the next write gets a fresh block, copies its bytes behind that
many bytes nobody wrote, and the entry counts them; adding `"krealloc"` to `Faults`
of `AesdCharLog.cfg` shows it.  With a newline in `StrayBytes` a write of nothing to
an empty unfinished command tests the byte in front of its block (main.c:130), which is
no access that `AccessesInBounds` speaks of, and adds an empty entry:
`driver_empty_write` shows that.  The ownership of blocks and the bounds of the copies
are proved for both cases (section 5), and `driver_faults` has the failing `krealloc`.

What the code does and its comments or a reader may not expect; the model follows
the code, and the properties state the exceptions:

* `listen` (main.c:123), `fwrite` (main.c:137, where `false;` stands for
  `return false;`) and SIGPIPE (sock_thread.c:83) are not reported as failures,
  although `aesdsocket.h` says so of their functions.
* A silent client keeps the server from stopping, because nobody wakes up a thread in
  `recv`, and so does one that does not read its answer, because `send` blocks
  (sock_thread.c:83); the latter holds up all other connections too, since its thread
  has the mutex.  `ConnectionsEnd` and `StopEndsServerUnlessHeldUp` except them.
* main leaves three things behind when it exits: `/dev/null` of `daemonize`, the
  socket when `setsockopt` fails (`server_sock_fd` is -1 then, main.c:97-101), and
  what a timer thread under way has.  `ExitReleasesEverything` names them.
* A block of the driver gets lost when a first piece was not copied, or was empty, and
  another write or the unload follows (main.c:106, 342), and when `krealloc_array`
  fails (main.c:111).  `BlocksKeepAnOwner` says that these are all the places.
* `aesdsocket.h:25` says that the mutex synchronises reads and writes of the
  output file, but the timer flushes its timestamp in `fclose`, after the unlock
  (itimer_thread.c:58-63): it may appear in the file while an answer is read from
  it, and `EchoIsSnapshot` allows for that.  Likewise a timer thread that is under
  way when main removes the file may create it again; `RemovedForGood` is about
  the others.
* After a `send` that failed one byte too many is sent, and a `getline` that fails may
  end the answer early (`AnswerArrives`); `send_file`
  returns false after a success when `errno` was set before, so `TrueMeansSent`
  is an implication.
* `parse_ctrl_line` also accepts what has a comma behind the prefix and no number
  (`atoi` gives 0); only the documented form is promised its meaning.  A number
  that is too large for a `long` counts as the largest `long` (`strtol` stops
  there), any other one is taken modulo the width of `uint32_t`; `SeekAsDocumented`
  says both, because without the first half it does not hold for every length.
* `do_system` reports a failure only when `system()` itself fails: it compares the
  wait status, not the exit status, with 127, and a non-zero status of the command
  is a success, unlike systemcalls.c:13 says (`TrueOnlyOnSuccess`, refuted in
  `systemcalls_true`).  `do_exec` counts a killed command as a success, which
  refutes the same property; `ResultTellsOutcome` says what does hold of it.  `get_file_name` keeps the slash of `"/ls"`.

### Bounds and why they are enough

* Ring: 3 slots, two pointers and sizes 0, 1, 3: empty, partly filled, full and
  wrapped buffers at every index, with entries without bytes.  The theorems cover
  every number of slots.
* Driver: 2 processes (a lock, its holder and a waiter), 2 slots (wrap and
  eviction, with slot and command number different), 3 blocks (two entries and the
  unfinished command, with one to move to while there are fewer), payloads of 0 and 1
  byte with and without newline, so that a command is put together from several
  writes; an `lseek` to the byte in front of the end and a seek to the second
  command.  `MaxPos` and `MaxPartial` cap the offset and the unfinished command from
  which a write starts; both are reached after eviction.  `driver_faults` uses 1 slot
  and 2 blocks, as the fairness check is costly and allows no symmetry; with two slots
  the same safety properties but the lock's and the lost blocks' are in `driver_log`,
  and all of them are proved for every size.
* Server: 2 clients, one signal, every client connects once, a device of one
  command so that eviction happens at the second line, one expiration of the
  timer, which can fall anywhere, up to the end of the process, and 7 descriptors,
  so that nothing fails for want of one.  Two threads are enough for removal at
  the head and behind another element while main walks over the list; the faults
  of `device` and of `file` are split so that each configuration keeps to
  what it adds.  Processes, addresses and clients are interchangeable, so the
  safety runs use symmetry.  `server_live` has no failures and no timer.  A client
  that hangs up without a byte (`eof`) differs from one with an unfinished line
  (`partial`) only in that the device stays as it is; the instances leave it out,
  and `connection` has it.
* Connection: a buffer of 3 bytes that doubles to 6, where the 4-bit `int` (up to
  7) overflows at the next doubling; streams of up to 6 bytes over newline, comma,
  minus, two digits and a letter, with the prefix `A` for the 19 bytes of the code,
  so that control strings with numbers of up to two digits fit: 19 is more than the
  4-bit `int` holds, 91 more than the 6-bit `long`, so numbers both wrap and stop at
  the largest `long`; a failing `send` once, any number of failing `getline`s, and one
  byte left unfinished by another client.
* Systemcalls: one call, all paths of up to 4 characters, every end of the command.
* Threading: 3 threads (one with the mutex, two waiting), every failure.
* `CHECK_DEADLOCK FALSE` where the modelled program ends: the server exits, a
  connection is closed, a call returns, threads are joined.

### Fairness

* Driver: a process inside the driver runs on (weak fairness of `Step`), and the
  kernel's mutex, which queues its waiters in order, hands the lock to each of
  them (strong fairness of `Lock`).  Nobody has to make a call, and no signal has
  to come.
* Server: main, the handler and each thread are scheduled (weak fairness).  A
  thread takes the mutex once in its life, so weak fairness is enough for it.
  The same holds for the timer's threads.  Clients need not connect, send or
  read: a piece of an answer leaves `send` when the client takes it (`send_to_client`),
  so that action has no fairness, and the liveness properties say what a client that
  does not read holds up.  `PromptClientsSpec`, which `server_early_signal` uses so that
  its counterexample is not such a client's, adds that an accepted client sends
  something or hangs up, and reads its answer.
* Threading: each thread is scheduled (weak fairness of `threadfunc`).  A lock does
  not have to fail, so `ObtainFails` is outside it; each thread takes the mutex
  once, so nobody is overtaken for ever.

## 4. Properties

Each property's comment in its module names the code it is about.  PROJECT.json
lists the hazards of the code and the properties that would catch them, and for
each property of a passing run a mutant of the code that breaks it.

## 5. Proofs

The theorems hold for every value of the constants that the named assumptions
allow:

* 1 to 255 slots (`MaxOpsAssumption`, the width of the indices), any sets of
  processes, blocks, payloads and arguments of the right type, any `Faults`;
* any finite sets of clients and of expirations of the timer, and descriptors
  enough for two per client, one per timer thread and main's two
  (`FdAssumption`);
* any first size of the line buffer, any widths of the integers, any bytes and
  any commands in the device (`Connection`); `WidthAssumption` says that the powers
  of two are natural numbers, because the provers do not know exponentiation;
* any paths that do not end with a slash (`PathAssumption`: a path that ends so
  names no program);
* names of threads, clients and processes, null pointers and marks such as
  `FREE` or `NoOne` that differ from one another and from the values next to which
  they are used.

Every invariant of the passing runs, three action properties and both refinements (of
`BoundedLog` and of `CommandDevice`) are proved; section 6 has the rest.

* `InductionProofs`.  The induction theorems of the library cannot be used here,
  so the argument is the least counterexample: a non-empty set of natural numbers
  has a least element.  From that come the existence of what `Min` and `Max`
  choose, and the recursive functions behind `FlattenSeq` and `SumFunctionOnSet`:
  that the function each of them chooses exists and is unique, what one element
  adds to it, and at which position of a concatenation each part starts
  (`FlattenPositions`).
* `CircularBufferProofs`: lemmas about the functions.  `add_entry` keeps a
  disciplined buffer disciplined; it appends while the buffer is not full and
  otherwise drops the oldest entry, whose pointer it returns.  The size total is
  the length of the concatenation of the entries (`SizeIsUpto`), although it runs
  over the slots in their own order, and the lookup hits the one entry between
  whose first and last byte the offset lies (`FindLemma`).
* `RingLogProofs`: `IndexDisciplineHolds`, `RingLogImplementsBoundedLog`,
  `FindAgrees`, `SizeReachable`.  The inductive invariant is
  `TypeOK /\ IndexDiscipline`: only a disciplined buffer (unused slots null,
  reading starts at the slot written next once full) makes the step of `add_entry`
  a step of `BoundedLog`, and the total that of the reachable bytes.
* `AesdCharProofs`: `LockSafety`, `OwnershipSafety` and `BoundsSafety`.  One
  invariant `Inv` carries the three, with these parts beside the properties:
  - `ModuleInv` and `CallInv`: calls happen only while the module is live, so
    there is a buffer; what the label of a process says about its call (`Fits`),
    for instance that a process waiting for the lock in an ioctl asked for a slot
    number below the number of slots;
  - `FoundInv`: a reader about to copy has found a byte of an entry, which stays
    true because nobody else changes the buffer while it has the lock;
  - `BlockInv`: the unfinished command is allocated, and once a writer has its
    block there is room for the bytes and the NUL.

  They depend on one another: the ownership after `WriteCommit` needs the block to
  be in bounds and different from the block of each entry, the bounds need that
  nobody came between allocation and copy, which is the lock.  The interesting
  steps are `WriteAlloc` (`krealloc` may move the block; no entry's block is
  free, so the new address is nobody's) and `WriteCommit` (`AddOwnBlock`: the
  freed block is the replaced entry's alone).

  Three theorems about what the blocks hold stand on that invariant and on the
  effect of each of the writer's three steps (`AllocEffect`, `CopyEffect`,
  `CommitEffect`).  Their hypotheses are the ones under which the code keeps its
  promise, and each is needed (section 3): `CommandsAreTerminated` (no empty write, or
  no newline in front of a block), `CountedBytesStored` (`krealloc` does not
  fail; any other failure may happen), `NoBlockIsLost` (allocations and copies
  succeed and no write is empty).  `BlocksAreOwned` needs none: whatever fails, a block
  loses its last pointer in the three places of `BlocksKeepAnOwner` only.  Beside `Inv`
  it uses that nothing has an owner before the device is live (`FreshInv`).

  `DriverImplementsCommandDevice` is the strongest result about the driver: every
  behaviour of any number of processes, with interrupted waits, failing copies and
  a failing `kzalloc`, is one of the atomic command log, under the mapping
  `Commands`, `Unfinished`.  The hypotheses are the two failures that break the log
  (section 3): `krealloc` does not fail, and no write is empty or no newline lies in
  front of a block.  To `Inv` and `StoredInv` (what the counted bytes are) it adds
  `DeviceInv`:
  - `RingInv`: the buffer is disciplined, so `CircularBufferProofs` applies to it;
  - `CallerInv`: a call has an outcome exactly between the step that decides it and
    its return, so that step is the one that may be the atomic one;
  - `LookupInv`: what a reader has found is still what the lookup finds at its
    offset, because the lock is held from the lookup to the copy;
  - `TailInv`: the unfinished command does not end with a newline, so an empty write
    leaves it unfinished.

  Step by step: `WriteCommit` is `Write` (`CommittedBytes`: the block holds the old
  bytes and the new ones; `FinishedBy`: the last byte decides; `CommandsGrow`: the
  log gets one command and drops the oldest when full), `ReadCopy` is `Read`
  (`LookupMeans`, from `FindLemma` and `FlattenPositions`), `aesd_llseek` is `Lseek`
  (`DeviceBytes`: the size total is the length of the bytes), and
  `aesd_adjust_file_offset` is `SeekTo`; `krealloc` that moves the block and a copy
  that stops half way are stutterings of the log (`StoredSame`).

  `SeekLands`: while the oldest command is in slot 0, slot numbers are numbers of
  commands from the oldest (`OldestBytes`), and a successful AESDCHAR_IOCSEEKTO lands
  on the byte it names.
* `AesdSocketProofs`: `DescriptorsStay`, `ListIsRight`, `ExitReleases`,
  `FileStaysRemoved`, `TypeSafety`, for the composition of main, handler, client
  threads and timer threads.  The invariant says
  - at which labels of main the handler, the timer, the mutex and each descriptor
    exist (`PhaseInv` and the like): clean up is entered at several labels, and
    what has been set up by then differs;
  - who holds each descriptor.  A number is handed out only when it is free, so
    two holders differ; that there always is a free one is a count over all
    possible holders;
  - that the list is a chain without a cycle: a sequence of exactly the started
    threads, each once, spells out the links, so that the walk with removals
    neither repeats nor loses an element;
  - which threads may still use the mutex when main destroys it.

  `EchoIsRight` stands on that invariant and on `EchoInv`, which says of each client
  where its thread is, whether the line it stored is still the last one, and that
  the answer so far is what the log holds from the place it started at.  Another
  client's thread changes the log only with the mutex, and then no thread is at the
  labels the invariant speaks about (`EchoElsewhere`); main removes the file when no
  thread is left; a timestamp, which comes without the mutex, is no line
  (`EchoTimestamp`).
* `ConnectionProofs`: `TypeSafety`, `LineIsRight`, `TrueIsSent`, `EveryByteArrives`,
  `SeekIsDocumented`.  While the line
  is read, the buffer holds exactly the stream so far, without a newline and with
  room behind it (`Reading`): so a `recv` of 0 bytes always means the end of the
  stream, and the first newline of the piece is the first of the stream.  While
  the answer is sent and `errno` is 0, what the client has is the device from the
  place it asked for up to the rest of the current line (`Sending`,
  `SendingLine`).  Without that restriction, `DeliveryInv` is about how far the line has
  been sent at most.  A failed `send` moves `send_offset` back by one, so what is sent
  again below that mark are the extra bytes; their number and the distance from
  `send_offset` to the mark add up to the failures so far.  A `getline` that fails
  hands over a prefix of the next line, so that what is sent stays a prefix of the
  answer.  The bytes of one `send` are
  taken one by one (`ByteSent`, `BytesSent`): each is an extra one or moves the mark.
  That `parse_ctrl_line` yields two unsigned numbers for any line
  is part of the invariant (`ParseType`).

  `SeekIsDocumented` says which ones, for numbers of any length and integers of any
  width.  `SeekAsDocumented` has the number of a string of digits as the sum of each
  digit times its power of ten; `atoi` goes over the digits from the left and
  multiplies what it has by ten.  That the two agree is an induction over the digits
  read, again by the least counterexample: the powers of ten exist as a recursive
  function (`TenToIs`); one digit more multiplies each of the earlier weights by ten
  and adds the digit (`WeightedSum`), which is a step of `atoi` (`DigitsValue`).  A
  string of digits has neither white space nor a sign in front of it, so `atoi` reads
  all of it (`AtoiDigits`).  There is no comma among the digits of the first number,
  so the first comma behind the prefix is the documented one (`SeekLineComma`), and
  `parse_ctrl_line` cuts the line where the documented form has its parts
  (`ParseDocumented`).  Between `Parse` and the seek nobody changes what was parsed
  (`Parsed`).
* `SystemCallsProofs` and `ThreadingProofs`: the invariants relate the labels of the
  two processes, or of caller and thread, with the descriptors, the status, the
  mutex and `failed`.

## 6. Only model-checked

Liveness (`CallsReturn`, `ClientsAreAccepted`, `ConnectionsEnd`,
`StopEndsServerUnlessHeldUp`, `ThreadsReturn`): temporal reasoning under fairness,
and with it `ENABLED`, is out of the prover's reach.

## 7. Not modelled

* SIGCHLD (the serving process has no children), signals before `set_signals`
  (default action) and more than one signal.
* The C library's internal locks: `syslog` in the handler is listed as a hazard.
* Descriptors 0-2 and those of the C library; `daemonize` is one step.
* In the file configuration: a file left over from an earlier process that was
  killed, and what `exit` flushes of a timer thread's open file.  The text of a
  timestamp (its last digit is overwritten by the newline, itimer_thread.c:46).
* The rest of `queue.h` and `cdefs.h`: vendored, and unused but for the singly
  linked list.
* `finder-app`: `writer.c` is a create, a write and a close in a row, each with a
  return on an error, without state a property could relate to anything; the rest
  are shell scripts around `grep`.
* The load, start, build and image scripts and the course's tests.

## 8. Plan

1. Circular buffer, its refinement and proofs; driver with runs; server with runs
   (done).
2. `AesdCharProofs`: types, lock, ownership of blocks and bounds (done).
3. The inner loops of the client threads, the file configuration with the timer,
   the examples (done).
4. Proofs of the remaining invariants: contents of the driver's blocks, lookup and
   size total, the whole server, the connection, the examples (done).
5. The refinement of `CommandDevice`, and the seek by command while the oldest command is
   in slot 0 (done).
6. `AnswerArrives` and `EchoIsSnapshot` for every instance (done).
7. `SeekAsDocumented` for every length and width (done).
8. What is left is liveness, which TLC checks on the instances (section 6).
