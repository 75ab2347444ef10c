# A verification development for CS4400_ComputerSystems

The repository holds the programs of a computer systems course: a Unix shell, a
dynamic memory allocator, a concurrent web server, a processor simulator,
image-processing kernels, and many small exercises. This directory holds TLA+
specifications of the programs whose behaviour is hard to test, TLC
configurations that check them on small instances, and proofs that TLAPS checks
for every value of the constants.

    tlc -config Tsh.cfg MCTsh.tla          # a run; the table below lists them all
    tlapm TshProofs.tla                    # the proofs of one module

## 1. The system

| component | source | state it keeps | operations | how hard |
|---|---|---|---|---|
| shell: job list | `Shell/tsh.c` 56-102, 636-750 | array `jobs` of 16 slots, `nextjid` | `addjob deletejob maxjid fgpid getjobpid getjobjid`, state writes | job numbers wrap; main line and handlers share it |
| shell: control | `Shell/tsh.c` 112-620 | `jobs`, `fg_proc`, the signal mask, the kernel's processes | `main eval builtin_cmd do_bg do_fg waitfg`, handlers of SIGCHLD, SIGINT, SIGTSTP, SIGQUIT | a handler may run between any two steps of the main line; signals merge; pointers into slots that a handler empties |
| allocator | `Memory_Allocator/mm.c` | headers, footers and a doubly linked free list inside the heap itself; `home_pg`, `free_start` | `mm_init mm_malloc mm_free`, and below them `extend set_allocated coalesce push_free pop_free` | long histories; a wrong word does harm much later; sizes near the size of a page |
| page memory | `Memory_Allocator/memlib.c`, `pagemap.c` | the set of mapped pages | `mem_map mem_unmap mem_reset` | the kernel decides where chunks lie |
| allocator's driver | `Memory_Allocator/mdriver.c` | list of payload ranges | `add_range remove_range clear_ranges eval_mm_valid` | it is the oracle of all tests of the allocator |
| friend server | `Concurrent_Server/friendlist.c`, `dictionary.c` | `friends_graph`, a dictionary of dictionaries, and `sem` | `/friends /befriend /unfriend /introduce`, one thread for each connection | threads share the graph; a server calls another while it holds its semaphore; slow clients |
| friend server: connections | `friendlist.c` 66-440, `csapp.c` 830-1010 | descriptors, the buffers of each reader and their left-over bytes | `main doit read_requesthdrs serve_introduce` when connections end early or break; `rio_readinitb rio_read rio_readlineb` | `read` cuts lines anywhere; errors look like lines; a loop that asks the buffer, not the connection |
| processor simulator | `Simulator/simulator.c` | 17 registers, 1024 bytes of stack, program counter | `decode_instructions`, 22 instructions | flags of signed and unsigned comparison at the edges; undefined overflow; deep recursion |
| performance kernels | `Performance/kernels.c`, `driver.c` | two images; results of the versions tried so far | `complex motion`, `test_complex test_motion check_* fcyc_v` | blocked loops and sliding sums at the edges; a version is timed only if it is right |
| performance timing | `Performance/clock.c`, `fcyc.c` | the counter's reading at the start, the fastest runs | `start_counter get_counter get_comp_counter add_sample has_converged` | the counter's low word wraps; times scatter; the compensation may exceed the time |

The programs are independent of each other. Inside a program the parts interact
as follows.

* **Shell.** The main line and the signal handlers share the job list and
  `fg_proc` without any lock but the signal mask. The kernel turns ends and stops of
  children into SIGCHLD for the shell, the terminal turns keys into signals for
  the shell's process group, and the shell passes them on with `kill`.
* **Allocator.** The driver calls `mm_malloc` and `mm_free`, writes into the
  payloads, and checks each new payload against its range list; the allocator calls
  `mem_map` and `mem_unmap`.
* **Friend servers.** Clients open connections; each gets a detached thread, which
  reads the request, takes the semaphore, serves the request, writes the
  answer, and posts the semaphore. An introduction connects to another server
  as a client would, and holds its own server's semaphore meanwhile. Every line of a
  request or of another server's answer goes through the buffered reader.
* **Performance driver.** It runs every registered version of a kernel on images of its own,
  compares them with the naive kernel and with a copy of the original, measures
  the version with the sampler, which reads the cycle counter, and keeps the best.

What makes each of them correct:

* *job list*: no process twice; a listed job has a number and a state, an emptied slot has no number and
  no state but one that was written through an old pointer; the next number is above all in use until it wraps;
* *shell*: every listed process is a child, and every child is listed unless the list was full; no end
  or stop of a child is forgotten; the listed state is the real one; `waitfg` waits
  for its own job and returns when that leaves the foreground; keys do not reach background jobs
  once they have a process group of their own; zombies are reaped;
* *allocator*: payloads lie on mapped pages, apart from each other, and keep their
  contents; no byte is lost; free neighbours are joined; idle chunks go back;
* *driver*: what it accepts is disjoint;
* *server*: friendship is mutual; each request takes effect at one instant, and its
  answer is that of the instant; every request is answered;
* *connections*: lines come out whole and in order however they were cut up; an introduction
  adds the names as they were reported; descriptors are closed once and by their owner;
  whoever sends a request is answered or let go, whatever becomes of other connections;
* *simulator*: flags of `cmpl` are those of the subtraction, jumps decide
  the comparison they are named for, calls and returns nest, programs compute what their
  C sources do;
* *kernels*: the optimised kernels compute what the naive ones do; a version is
  timed in a round only after it was right in that round, on both sizes; the best is the fastest of those that were
  right in every round; what is kept of the measurements is their least; the driver ends.

`PROJECT.json` lists every component and its status, and the hazards of the code
by line, with the properties that guard against them.

## 2. The modules

| module | models | built on |
|---|---|---|
| `JobList` | the job list and its helpers | |
| `Tsh` | the shell: main line, handlers, children, kernel, user | `JobList` |
| `MCTsh` | instance for TLC | `Tsh` |
| `TshProofs` | theorems | `JobList`, `Tsh` |
| `RangeList` | the driver's range list and its checks | |
| `Allocator` | abstract: what `mm_malloc` and `mm_free` promise | `RangeList` |
| `Heap` | `mm.c` word by word, the pages, the driver's trace loop | `RangeList`; implements `Allocator` |
| `HeapProofs` | theorems | `Heap` |
| `FriendGraph` | abstract: every request takes effect at one instant | |
| `FriendServer` | the servers, thread by thread, and their clients | implements `FriendGraph` |
| `MCFriendServer` | instance for TLC: two servers, seven requests | `FriendServer` |
| `FriendServerProofs` | theorems | `FriendServer` |
| `LineStream` | abstract: a connection is a stream of lines | |
| `Rio` | the buffered reader, byte by byte | implements `LineStream` |
| `Sessions` | one server's threads, descriptors and introductions on connections that may break | `Rio` |
| `MCSessions` | instance for TLC: two clients | `Sessions` |
| `SessionsProofs` | theorems | `Sessions` |
| `Cpu` | the simulator: decoding, the loop of `main`, every instruction | |
| `MCCpu` | instance for TLC: the repository's test programs, assembled | `Cpu` |
| `CpuProofs` | theorems | `Cpu` |
| `ProgramProofs` | theorems about the test programs | `MCCpu`, `CpuProofs` |
| `Kernels` | `complex` and `motion`, loop step by loop step, and the naive kernels | |
| `Clock`, `Fcyc` | the cycle counter; the sampler | `Fcyc` on `Clock` |
| `PerfDriver` | the driver: check, measure, score | `Kernels`, `Fcyc` |
| `MCPerf` | instance for TLC | `PerfDriver` |
| `PerformanceProofs` | theorems | `PerfDriver` |

Some definitions come in a second form, marked *mutant* and named after the first
(`deletejob_compact`, `coalesce_short`, `Launch_unmasked`, ...): the code with a plausible bug.
No specification uses them. For every property of a passing run `PROJECT.json`
names a mutant under which TLC finds that property violated.

### JobList and Tsh

`jobs` is the array, a function from slots to records `[pid, state, jid]`; an empty
slot has `pid = NoPid`, as clearjob leaves it. The lookups return the first slot
that matches or NULL, like the loops of the code. The command line of a job is left
out: it is only printed. `Tsh` calls these operators from where the shell does; a state is
written through a slot's index, as the code writes it through a `job_t *`, whether the slot is still in use or not.

`Tsh` has one action for each stretch of the main line that no handler can
divide in a way that matters: `Fork1`, `Add1`, `Unblock`, `SetFg`, ... follow
the lines of `eval`, `WaitGet`, `WaitCheck`, `WaitLoop` and `Suspend` those of `waitfg`,
`Builtin` to `SetPtr` those of `do_bg` and `do_fg`. `pc` is the line about to run, `sh` says
whether the shell is up and, if not, what ended it. The handler of SIGCHLD is a loop
of `waitpid` steps, not one step, so children may end between two of them; the
handlers of SIGINT and SIGTSTP read and dereference `fg_proc`, a pointer to a
local, to a slot, or NULL. The kernel is external: processes that run,
stop, are continued, become zombies and are reaped; process groups, which a child
changes by a step of its own after `fork`; one pending bit for each signal, so
signals merge; the mask, inherited by the child. The user types any command
when the shell reads, and presses ctrl-c or ctrl-z at any time.

### RangeList, Allocator and Heap

`Heap` represents memory as a function from addresses of 8-byte words to values. It
reads and writes the words `mm.c` does: a free block is a block because its header
says so, the list exists only as `prev` and `next` words, and arithmetic on sizes wraps at
`SIZE_MOD`. `mem_map` chooses any free run of pages. `Fill` is
the driver's `memset`: it fills a payload with a value that looks like a prologue's
header, the worst case for the test by which `mm_free` recognises an idle chunk. A
write off the mapped pages makes `Segv` true. Words of fresh pages and of the
inside of free blocks are dropped from the function (`Settle`), because no code reads
them before writing them. One request is one action, since the allocator has one thread.

`Allocator` knows only ranges and pages: a payload is placed anywhere that is
aligned, mapped and free. `Heap` implements it under `mapped <- heap.mapped`.

### FriendGraph and FriendServer

Each server is its graph and its semaphore. A thread is named `<<c, "own">>` when
it serves client `c`, and `<<c, "remote">>` when it serves the request that an introduction
for `c` sends to the other server. The steps of a thread follow `doit`:
`Connect`, `Send` or `Hangup` (the reading of the request, as slow as the client
likes), `P`, then `Lookup`, `Gather` or `Fetch` according to the request, then
one `Add` or `Remove` for each friend followed by `Reciprocate` (the two writes of
a friendship are two steps), `Respond`, `V`, `Close`. The friends another
server reports arrive when it answers, and the introduction may add them while the
other connection is still open; it goes on to its own answer when
that connection closes. The friends in a list are added in any order.

`FriendGraph` serves a whole request in one step `Serve`. The refinement mapping
completes the graph with what the thread inside still has to write
(`Completed`), and lets an introduction from another server take effect when that server composes
its answer.

An asymmetry of the code is in both modules: an introduction on the same
server also befriends the friend itself (line 432), one from another server adds
only what that server reports, and not the friend (415-419).

### LineStream, Rio and Sessions

In `Rio` a reader is a `rio_t` together with the buffer its lines go to. `Refill` is `read`,
which returns any number of the bytes that have come; `Take` is one byte out of
`rio_buf`; `EndOfFile` and `Error` are a `read` that returns 0 and -1. An error leaves the
caller's buffer partly overwritten and without its NUL, as the code does.
How a connection ends is drawn when it is made: the other end
waits, closes, resets, or (for the descriptor -1 of a failed `open_clientfd`) never was there. A
`read` that is interrupted is called again and changes nothing, so there is no step for it.

`LineStream` has one step for one call: it hands out the next line, the last line without its
newline, 0, or -1. `Rio` implements it under `stream <- taken \o rio_buf \o coming`.

`Sessions` follows `main` and `doit` for one server with attention to what `FriendServer` leaves out: every
way out of `doit` and of `serve_introduce`, with what it closes and what it forgets.
Buffers on the stack start with anything that has a NUL (`Stale`), so an answer
without a status line is either refused or crashes the server (`NoStatus`: `split_string`
reads a second word that need not exist). An introduction collects names
instead of changing the graph, which is `FriendServer`'s. A request is a byte
for its line, a newline, and an empty line; the other server's answer is a status, an
empty line and names of one or two bytes.

### Kernels, Clock, Fcyc and PerfDriver

An image is a function from offsets to numbers, one colour for `motion` and the sum of three for
`complex`, as each reads it. `motion`'s code is written out for windows of three, two and
one rows; the model has it once with `Height`. `slide` and `edge` carry the
running sum from column to column; `next_pixel` moves through the blocks of
`complex`, whose side is chosen by the image's as in the code (`BlockSide`: `LARGE_SIDE` for an image of
side `LARGE`, 32 for 1024, and `SIDE`, 16, for every other). The naive kernels are predicates on a result.

`Clock` subtracts two readings of the counter word by word with the borrow of the code. `Fcyc` is the sampler:
an insertion into the `kbest` fastest runs, the test of convergence, the limit
`maxsamples`. A run takes one of a few `Costs`, begins at one of a few readings of the counter (`Starts`), and may be
interrupted by the timer (`Ticks`): within the run, which makes it longer, or between the readings of
`times` and of the counter at its ends, where the tick is subtracted without having lengthened anything.

`PerfDriver` takes every version through *odd size, test size, measurement* in each round. The
two optimised versions run step by step as in `Kernels`; any other version (`code = "other"`) leaves one of several
drawings and may spoil its original, so that the driver has something to reject. The
cycles of each round are kept for each version (`cpes`), and the geometric mean of the speedups is compared through the
product of the cycles. `passed` is history: the version, round and stage of every drawing that was right.

### Cpu

A state holds the decoded program, the program counter, 17 registers, the
bytes of the stack and what has been read and printed. There is one action for each
opcode (`jcc` stands for the five conditional jumps). A word is `WORD` bytes of
`BYTE` values, so the width is a parameter: 4 and 256 in the code. Registers are
signed, and the model converts where the code casts (`Unsigned`, `Signed`). Memory is
bytes, so that unaligned words overlap as they do in the code. Two things
are undefined in C. An access off the stack, or a program counter off the program, makes `status` "stray" and
ends the behaviour, since nothing can be said of what follows. The overflow of `reg2 - reg1` in `cmpl` is
chosen once for the program, as one of the two things gcc 12 makes of it: `build = "wraps"` at `-O0`,
`build = "exact"` at `-O1`, `-O2`, `-O3` and `-Os`, where `reg2 - reg1 < 0` becomes
`reg2 < reg1`. Other compilers may mix the two; that is not modelled. `compared` and `calls` are history variables: the operands of the last
`cmpl`, and for each call under way what its `ret` must restore. `MCCpu` holds the test
programs as lines of assembler and encodes them into the words that `decode_instructions` reads.

## 3. The runs

| run | module, cfg | question | instance | result |
|---|---|---|---|---|
| `tsh` | `MCTsh`, `Tsh.cfg` | ten properties of the shell and its job list | 2 slots, 2 processes, all commands, the counter past its wrap-around | holds |
| `tsh_waitfg_on_ended` | `MCTsh`, `TshWaitfgOnEnded.cfg` | is waitfg called only on a foreground job? | 1 slot, 1 process, a foreground job | violated |
| `tsh_lost_wakeup` | `MCTsh`, `TshLostWakeup.cfg` | does waitfg return? | as above | violated |
| `heap` | `Heap`, `Heap.cfg` | eight properties of the allocator | 9 pages of 32 bytes, 3 payloads of 1 or 60 bytes | holds |
| `heap_short_extension` | `Heap`, `HeapShortExtension.cfg` | is every payload on mapped pages, also when its block is as large as an extension? | as above, payloads of 1 or 40 bytes | violated |
| `friend_server` | `MCFriendServer`, `FriendServer.cfg` | mutual, atomic, answered | 2 servers, 3 clients, 3 users, 7 kinds of request, 3 requests in all | holds |
| `friend_stall` | `MCFriendServer`, `FriendStall.cfg` | is everybody answered? | 2 clients, 2 requests | violated |
| `sessions` | `MCSessions`, `Sessions.cfg` | lines whole, names as reported, descriptors owned, everybody served or let go | 2 clients, one of them introduces; 2 connections in all; 4 descriptors; buffers of 5 and 2 bytes | holds |
| `friend_broken` | `MCSessions`, `SessionsBroken.cfg` | is everybody served when connections break? | as above, `rio_buf` of 1 byte | violated |
| `cpu` | `MCCpu`, `Cpu.cfg` | do the programs compute, return and end as they should? | 10 programs, words of 12 bits, 160 bytes of stack, both builds | holds |
| `cpu_sort` | `MCCpu`, `CpuSort.cfg` | does `sort.s` sort in ascending order? | as above | violated |
| `perf` | `MCPerf`, `Perf.cfg` | kernels right, only versions timed that were right in the round, the best is the fastest right one, the driver ends | `complex` of ours, `motion` of ours and a `motion` that does anything; images of 3 to 5 pixels a side; two rounds of `motion` | holds |

**Why the bounds are enough.** *tsh*: the races are between the main
line, one handler and one or two children (a pipe); a second process also serves as the
background job that must not be touched. `nextjid` restarts at 1 when it passes `MAXJOBS`; `JidBound` is above
it, so that it does so with jobs listed and a job gets a number above `MAXJOBS`. That a number is given again while it is in use takes
four slots; there `NextAboveCorrect`, for every number of slots, says what holds. With a slot for each process the list is never full in this run.
`ChildrenAreJobs` speaks of a full list too, and is proved (section 4) instead of run: a run that fills
the list of a pipe and a background job needs three processes for two slots, and more states than one can check together with
the liveness. What a full list leads to is described in section 5. The two runs that are expected to fail are cut to the smallest instance that
shows it.
*heap*: pages are 32 bytes and extensions 2 pages, or 6 for a large block, instead of 4096 and 51, and the home chunk 3 pages, so that
three blocks fill a chunk and all cases of `coalesce`, splitting, extension,
release and re-mapping occur; the kernel places chunks next to each other and apart.
Three payloads are enough for a free block with a neighbour on each side. The sizes 1 and 60 give the least block and one that needs
an extension of its own size (`MULTIPLE` times its pages); 40 is in the band of 32 bytes between them for which the code is wrong, and has a run of its own. *friend_server*:
three requests allow two introductions in opposite directions together with a third
client that suffers from them, and all pairs of operations on one user. *cpu*: 12 bits are the least
in which the flags keep their real bits and `sort` fits into the program counter; inputs are the
numbers around 0 and around the least and greatest integer, where the flags change, and some in between;
the ten programs are the three complex tests, `cmpl.s`, the comparing jumps of five tests in one program (`comparisons`), the two tests of
unaligned accesses, and three programs that go astray; the calls and pushes of `callret.s` and `pushpop.s` occur in the complex ones.
160 bytes let `log2` recurse through the whole width and `factorial` run out of stack.
`sort` sorts three numbers instead of six. *sessions*: a buffer of five bytes cuts lines that are too long
and `rio_buf` of two makes a line span several `read`s and a `read` span several lines; the
introduction and another client contend for the semaphore, and four descriptors are what two
connections, one to the other server and the listening socket need, while descriptors that
are lost run out. A buffer is left with an empty line or with the status line of an earlier answer, so that
an answer that never came may be taken for one that said 200. *perf*: five is the least side at which a row of `motion` has both a
sliding and an edge part in rows of every height. An image of `complex` of side 4 has two blocks of side 2 each way, one of side 3 has
blocks of side 1: so both sides that a block may have occur, the larger one for the large image only, as in the code. The
images have a single bright pixel anywhere, which no two wrong offsets treat alike, or a gradient. `motion` has two rounds, and
the version that is not ours may be right in the first and wrong on the odd size of the second, or faster or slower than ours. Two
costs far apart and two samples to keep of at most three make the sampler converge, fail to converge and stop; a tick may fall into the run
or between the readings at its ends;
16 values of a word, and readings just below a wrap-around of the low word and of both, let the borrow matter.

**Bounds by name.** `MAXJOBS`, `Pid`, `JidBound` (job numbers: the counter is
not advanced past it); `NPages`, `MaxLive` (payloads held at a time), `Sizes`;
`MaxRequests` (requests sent in all); `STACK_SIZE`, and the `inputs` of each program; `MaxConnections`, `Requests`, `Answers`, `Stale`; `Images`, `Drawings`, `Costs`, `Starts`, `Ticks`.

**Fairness.** In `Tsh` the shell's own steps, the handlers, and a child
between `fork` and `execv` are scheduled sooner or later, as the kernel does; the
programs themselves owe nothing and may run for ever. Ctrl-c and
ctrl-z are pressed only finitely often in the liveness properties: each one
interrupts `waitfg`, and a user who never stops would starve it. In `FriendServer` each thread that can take
a step takes one (`Fairness`), as POSIX threads do; clients owe nothing: one may
connect and never send its request. Semaphores need not be fair, because requests are
finitely many. In `Sessions` too each thread takes its steps, among them the reading of another
server's answer, which comes, ends or breaks; a thread's reading of its own client is not fair, and
nobody need connect. In `Cpu` the loop of `main` always goes on, and in `PerfDriver` the
driver does, `WF_vars(Next)`: both are a single sequential program.

Deadlock is checked except where the system stops: the simulator's programs and the performance
driver end, and of the servers, clients send finitely many requests and servers may wait for each
other or crash (`FriendServer.cfg`, `FriendStall.cfg`, `Sessions.cfg`, `SessionsBroken.cfg`).

## 4. What is proved

The theorems hold for every value of the constants that meets the ASSUMEs of
the modules. Each follows the pattern *the initial states satisfy an inductive
invariant, every action preserves it, it implies the property*.

* **`TshProofs`**, the job list as the shell uses it (any number of slots, any set of processes). The lookup loops are shown to find a slot if there
  is one (`FirstFinds`, from the existence of least elements of finite sets), and `maxjid` to bound all numbers
  (`MaxjidBounds`). `NextAboveCorrect`: the next
  number is above all in use unless a job numbered `MAXJOBS` or more is listed; inductive together with the types. `SlotsWholeCorrect`: what
  a slot may hold, although `do_bg` and `do_fg` write a state through a pointer whose slot the handler may have emptied. An
  emptied slot may be left with the state BG, or FG until `waitfg` finds no job and the shell crashes, and never has a number.
* **`TshProofs`**, the shell. `TypeCorrect`; its invariant adds `Control`, which ties the locals to
  the line the main line is on. `JobsAreChildrenCorrect`: the mask around `fork` and
  `addjob` means a job that is added names a child that has not been reaped; the
  strengthening says of each line between them that the process just forked exists, is unlisted,
  and cannot be reaped because SIGCHLD is masked. `NoReportLostCorrect`: a child with
  something to report implies SIGCHLD pending or a handler that will ask again.
  The rest of the shell's safety is proved from a few facts, each an invariant of its own:
  `KeepsSlot` (the job whose slot `waitfg` or a pointer names is still in it, or the slot is empty, since
  nobody but the main line adds jobs), `Foregrounded` (a job is listed as foreground only while the
  main line is between adding it and the end of its wait), `Pointed` and `Shared` (what
  `fg_proc` points to, and which children are still in the shell's group). They give
  `WaitsForItsOwnCorrect`, `StoppedJobsAreStoppedCorrect`, `NoForegroundCorrect` and the action property
  `BackgroundIsSparedCorrect`: a key press reaches a background job exactly if it is typed before the child
  has called `setpgid`, and what the shell passes on never does. `ChildrenAreJobsCorrect`, an action property for every number of slots
  and of processes: a child is given a job and keeps it until it is reaped, unless every slot was taken when `eval` added it.
* **`HeapProofs`** (pages of any number and size, any number of payloads, sizes that fit). A heap is words in memory; the proof
  describes it by four things the code never stores: `cz`, the size of each chunk of pages by its
  address, `sz`, the size of each block, `fr`, the free blocks, and `L`, the free list as a sequence.
  `Formed` says that the words are those of the description: prologue, header, footer, epilogue
  and links where they belong, blocks that tile their chunks. `Whole` adds that no two free
  blocks are neighbours and that no idle chunk but the first is kept, `Live` that the driver's payloads lie each in a
  block of its own with their bytes in them, and `Good` that some description makes all this true. `Inv`, that the heap is good and
  no check has failed, is inductive (`Invariance`). None of the listed properties is inductive by itself: that
  `coalesce` keeps the list exact depends on the tiling, the tiling on headers that
  payloads have not overwritten, and that on blocks being as large as `set_allocated` took them to be. There is a lemma for
  each function of `mm.c` that says how the description changes (joining on either side, unmapping
  a chunk, mapping one next to others or apart, splitting, the search of the list), and
  `mm_malloc` and `mm_free` are put together from them. From `Inv` are read off
  `TypeCorrect`, `Content` (`DriverIsContent`), `ListExact`, `AlwaysCoalesced`, `IdleReturned` and `DataIntact`.
  `AllAccounted` counts words: the pairs (block, word in it) are as many as the words of the
  chunks less their overhead. `Implements` is the refinement `KeepsPromise`, step by step: what
  is mapped is what `cz` says, and every malloc and free is one of `Allocator`. `PayloadsApart` reads off that what `mm_malloc` has handed out shares no
  byte and lies on mapped pages.
  All assume `SizesFit`: each size that is requested has a block of its right size, and the extension
  made for it holds it. `NewsizeHolds`, `ExtensionFits` and `RequestsFit` say which sizes do: all but
  those near the end of `size_t`, those whose extension would wrap around (`MULTIPLE` times the block), and those in a band of 32 bytes
  below the size of an extension, for which the code is wrong (run `heap_short_extension`). Of the constants
  `HeapAssumption` says that pages are a multiple of 16 bytes, that the home chunk has room for a block, and that all
  addresses are below `SIZE_MOD`.
* **`FriendServerProofs`** (any servers, clients, users, and requests of the right shape).
  `TypeCorrect`, `MutualExclusion`, `MutualCorrect`, and the refinement `ServesAtomicallyCorrect`. Mutuality is not inductive: in the middle of a
  request a friendship is one way. The invariant says (`AlmostMutual`) that every friendship is mutual
  but for one that a thread is about to complete (`HalfWay`), that at most one thread is
  inside each server (`Locked`), that a thread half way is inside and has written its first half
  (`HalfDone`), and that a connection between servers lives only while its introduction waits
  (`Fetching`). With the semaphore free nobody is inside, so nothing is half way.
  That `FriendServer` implements `FriendGraph` rests on what comes of a graph when the thread
  inside has done the rest of its work (`Finished`). A request takes effect where its work is laid out, in
  `Lookup` or `Gather`, or, if it is an introduction from another server, when that server composes its
  answer; `FinishedJoins` and `FinishedParts` say that this is the abstract step. Every write after
  that leaves what comes of the graph as it is (`HalfAdded`, `BothAdded`, `HalfRemoved`, `BothRemoved` and the two lemmas on
  friends passed over), so it is a stutter. The invariant is strengthened by what a thread has left to
  do and when (`Tasks`), who has a request (`Asking`) and what a waiting introduction has asked (`Relayed`); one lemma per
  action gives its step of the abstract server (`StepMap`). Of `None` the proof assumes that it is no set of names.
* **`SessionsProofs`** (any clients, bytes, buffers of any size, any number of descriptors).
  `ReadsLinesCorrect` is the refinement: every step of `Sessions` is a step of `LineStream` or a
  stutter. It needs that a call under way has taken no whole line (`Unfinished`); the rest is
  arithmetic on sequences (`LineLengthIs`, and lemmas on concatenation).
  `DescriptorsCorrect`: a thread has a descriptor exactly while it has a connection (`Owned`),
  those of different threads differ and are open (`Apart`); so no `close` hits another's descriptor.
  `AddsWhatWasReportedCorrect` is about the answer as it is read: the invariant `IntroInv` says of every introduction
  what is left of its answer and what has been made of the rest. With `View(c)`, the connection and what was collected as one
  value, either what is left is the answer from some line's beginning to where it was cut (`Unread`), or the answer has ended before its time
  (`Broken`), or there never was one (`Refused`); and according to where the thread is, its buffer holds the status
  line (`InStatus`), an empty line exactly at the end of the headers (`InRest`), or a name whose predecessors are those collected
  (`InNames`); at the end (`Done`) these are the names reported, or all but one are. A call of `Rio_readlineb` changes a view only by handing out the next line,
  the rest, or -1: that is the refinement again (`Reads`). `SessionsAssumption` says what an answer is: it ends with a newline, its lines
  fit into the caller's buffer (a longer name, which only a POST can make, would be read as several), its body starts behind the first empty line
  and has a line for each name, as `join_strings` writes it; and that an uninitialised buffer has a NUL somewhere, without
  which `strlen` reads past its end.
* **`PerformanceProofs`** (images and blocks of every size that fits, any versions, any samples). `KernelsAgree`: a kernel that has finished has computed
  the naive result in every pixel. For `motion` the invariant is that `p` is the sum of the
  window at `(i, j)` and all offsets before it are right (`MotionInv`); for `complex`, that the pixels of the blocks
  gone by and of the rows of this one are right (`ComplexInv`). `DriverKernelsAgree` says the same of the kernels as the driver runs them,
  again and again over what earlier versions left: `LoopInv` ties the step of the driver to the
  kernel and size under test. `OnlyRightIsTimedCorrect`: `StageInv` says that a version that is past a stage was right in it,
  in this round, and `TimesInv` that a time in the table is of a round in which both sizes were right. `BestIsFastestCorrect`: the
  best is the fastest of the versions that were right in every round. It takes that a version that fails is never scored, in whatever round it fails
  and whatever times it has by then: `RoundsInv` says that nothing is right before it is drawn and that a version in its last
  round was right in all before; `TableInv` gives the table its shape; `BestInv`, the property itself, is then inductive. It assumes that samples are taken
  (`maxsamples # 0`); that the products of cycles are numbers is an induction (`ProductsExist`).
  `CounterExact`: the subtraction with borrow is exact for every duration below the square of the
  word's size, wherever the counter stood. `KeepsSmallestCorrect` builds on it: `SamplerInv` says that there is an injection from
  the values kept into the runs made that keeps their cycles, that the values are in order, and that a run that is not kept is not
  faster than any that is. It assumes `ShortRuns`, that a run with its interrupts takes fewer cycles than the counter can tell apart; without it the
  property is false. `DriverTypeCorrect` assumes `maxsamples # 0`: `fcyc` takes a first sample without asking.
* **`CpuProofs`** (words of every width, every program the assembler makes). `SignAndOverflow`: for every pair of operands but one, in both builds,
  sign and overflow flags differ exactly when the second operand is less than the first, which is
  what `jl`, `jle` and `jge` test. `Misjudgement`: the one pair, 0 and the least integer in a build that
  wraps around, is decided wrongly at every width. `OverflowNoticed`: which overflows the
  flag shows. All rest on `SignedDifference`: a difference of two ints that wraps around is off by the
  number of words or exact. `JumpsCompareCorrect` is the same for whole executions: `FlagsInv` says that `%eflags` holds the flags of the
  operands last compared, as a sum of weights that do not disturb each other. It assumes `FlagsPrivate`: no
  instruction of the program names `%eflags`, except to print it; one that does could decide a later jump, in the code as in the model. `TypeCorrect`:
  `CpuInv` adds that `calls` and the program are what they should be. That a `Load` is a word is shown by
  induction on the number of bytes, with `Load` written as a function of that number and the
  induction as one about the set of numbers for which it holds.
  Of the powers `BYTE ^ k` only that they are positive, and of `BYTE ^ WORD` that it is even, is
  used: assumptions of `Cpu` that the run evaluates, as it does `ProgramsAssumption`, that programs decode to instructions.
* **`ProgramProofs`** (any input, both builds, every machine that `TestsAssumption` allows). `PrintsTheResultCorrect` (of `cmpl.s`: the flags
  it prints, in each build), `StaysOnStackCorrect`,
  `ReturnsToCallerCorrect`, and `TestsCompare`, which discharges `FlagsPrivate` for the tests. The assumption names what the
  programs need: pointers of four bytes, a stack of at least 64, and one on which the logarithm of every word
  has room; the machine of the code, with bytes of 256 values and a stack of 1024, meets it, and so does the one of the run. `FactorialDecoded`
  and its like say what `decode_instructions` makes of each line, through the assembler's bits and back (`BitsOf`, `ImmediateOf`).
  Memory is bytes, so the proofs speak of the word at an address (`WordAt`): storing a word there gives it back and leaves
  the words that do not overlap alone. For each program there is an invariant with a part for every line or
  stretch of lines (`ProgramsInv`). `FactorialInv` and `Log2Inv` say, by the depth of the recursion, what each frame on the
  stack holds and that `calls` has an entry for each with the line and stack pointer its `ret` finds; results follow from the recursive
  equations of `Fact` and `Log2`, whose existence as functions is shown too (`FactExists`, `Log2Exists`). `SortInv` says of
  the lines of `sort`'s two loops: the array on the stack is a permutation of what was read, its head ascends and is not above the rest, and `min`
  is the least seen so far, or 0 and the least integer were both read in a build that wraps (`Excused`).

Only model-checked: the liveness properties, `ZombiesAreReaped`, `AnsweredUnlessCircle`, `ServedUnlessEndless` and `Ends` (of the
programs and of the driver), since fairness and ENABLED are beyond the prover. Every invariant, action property and refinement of a passing run is stated by a theorem. `ChildrenAreJobs` is proved
only, see the bounds of *tsh*.

## 5. What the checks found

Each violation is a run whose counterexample TLC prints; `PROJECT.json` quotes the
statement it refutes.

* `tsh_waitfg_on_ended`: a job that stops before `waitfg` tests its state ends the shell by
  `unix_error`. If it ends and is reaped first, `getjobpid` returns NULL and the
  shell dereferences it; a full list and a failed `fork` lead to the same crash.
* `tsh_lost_wakeup`: SIGCHLD handled between the loop's test and `sigsuspend` leaves the
  shell asleep with no foreground job.
* `heap_short_extension`: for a block of more than `MULTIPLE` pages less 32 bytes and at most `MULTIPLE` pages the chunk
  that is mapped is too small; what is left of it wraps to a huge number, and the rest that is split off is written past its end.
  (A request so large that its extension wraps around would fare alike, `RequestsFit`.)
* `friend_stall`: two introductions in opposite directions block both servers for ever.
* `friend_broken`: an introduction whose answer ends before its empty line loops over an
  unchanged buffer for ever, holding the semaphore; everybody else waits.
* `cpu_sort`: 0 compared with the least integer counts as less, in a build that wraps, and `sort.s` prints them
  in that order. `Misjudgement` proves it of every width.

Other statements of the repository that the code does not keep; the properties of the passing runs say
what it does instead.

* `Shell/tsh.c:199-202`: background children do not receive the terminal's signals. They do before they have called `setpgid`
  (252); `BackgroundIsSpared` states this window.
* `Shell/tsh.c:70`: at most one job is in the FG state. A pipe lists two.
* `Shell/tsh.c:333`: piped processes won't be interrupted by SIGINT. The processes are not, but `fg_proc` is not set, so ctrl-c
  ends the shell (`sh = "nofg"`), as one does between the unblocking of signals (266) and the assignment of `fg_proc` (271).
* `simulator/Specs.md:349` and `tests/moderate/cmpl.expected:9-10`: overflow sets OF. From `-O1` on gcc 12 makes
  code that never sets it, and `cmpl.s` prints 1 and 128 (`CmplResult` in `PrintsTheResult`); at `-O0` it overlooks 0 minus the least
  integer only (`OverflowNoticed`).
* `tests/complex/README:5`: `factorial` takes any positive integer. At 1 it never stops and runs off the stack (`StaysOnStack`).

What the models and theorems show beyond that, where no statement of the repository says otherwise:

* Shell: once `nextjid` has passed `MAXJOBS`, two jobs can have the same number (the exception in `NextAboveUnlessWrapped`),
  and `fg %n` reaches the first only. After a full list or a failed `fork` the child of a foreground command has no job, and `waitfg`
  dereferences NULL; a background child runs unlisted. `do_bg` and `do_fg` write a
  state after SIGCONT without looking whether the job has stopped again or gone (475, 499), into an emptied slot too
  (`SlotsWhole`). A ctrl-c through a slot that was emptied signals the shell's own process group (609).
* Driver of the allocator: `add_range` looks only whether an end of the new payload lies in an older one, so a
  payload that encloses an older one would be accepted.
* Friend server: an introduction that is refused, and a client that hangs up before its
  request line, each cost the server a descriptor; a name that was cut off, or what a buffer held before an error, can be befriended,
  one for each introduction (`AddsWhatWasReported`).
* Kernels: `complex` goes past the edge of an
  image whose side is no multiple of its block; the sizes the driver tests all are multiples (`Fits`).

The properties are stated with exactly these exceptions.

## 6. What is not modelled

* Shell: parsing, printing, the safe-print helpers; redirection of input and output has no
  effect on jobs. The command line kept in a slot.
* Allocator: the page map's tables and its counters; scoring and timing; requests of a size in
  the band above, in the passing run; addresses other than multiples of small pages. `mm_backup.c` is not built.
* Friend server: the bodies of POST requests and `rio_readnb`; requests without the fields they need, which
  crash it (a hazard with its line); the writing of answers to a client that has gone; how strings are split and encoded,
  the order of keys and the text of answers; two servers with the same port on different hosts, which the code takes for one.
  Introductions on the same server are in `FriendServer` only, since they open no connection.
* Processor simulator: opening and reading the file, files the assembler cannot make (opcodes above
  21, registers above 16), and what happens after an access off the stack.
* Performance: options, function files, pictures; the calibration of the clock, which is measurement.
  A version that crashes or never ends takes the driver with it and is not drawn.
* The rest (timing harnesses, the binary bomb, lecture and textbook code, small
  test programs): vendored, binary, or sequential exercises of a few lines. By lines they are most of
  the repository: eight copies of the course's `csapp.c` of 1191 lines, of which the reader is modelled once, lecture
  and textbook programs, a second copy of the simulator and an old one of the allocator, test harnesses.
  None of them adds behaviour to the programs above.

## 7. The plan

Order: what runs concurrently and is shared by most of the repository's logic first.

1. *done* `JobList`, `Tsh` and their proofs.
2. *done* `RangeList`, `Allocator`, `Heap`.
3. *done* `FriendGraph`, `FriendServer`, mutuality proved.
4. *done* `Cpu`, with the flags for every width.
5. *done* `Kernels`, `Clock`, `Fcyc`, `PerfDriver`; the kernels proved for every size.
6. *done* `LineStream`, `Rio`, `Sessions`: broken connections and partial answers; the refinement proved.
7. *done* all of `Tsh`'s safety proved; `FriendServer` proved to implement `FriendGraph`.
8. *done* `Heap`'s inductive invariant, all its properties and the refinement; the flags of `Cpu` over whole
   executions; the driver and the sampler.
9. *done* `AddsWhatWasReported` of `Sessions`: the invariant that says where in its answer each reader is.
10. *done* the programs of the test suite proved on the simulator, one invariant for each.
11. *done* full lists and stale slots in `Tsh`; the band of sizes in which `Heap` fails; `cmpl.s`; versions that fail in a late round.
12. *open* the answers of POST requests in `Sessions`; `sort` with any number of numbers.
