# Formal verification of Operation-Sys

This directory keeps the TLA+ models of the programs in this repository beside
their code: a preemptive user-level thread library and its cooperative
forerunner, a virtual memory simulator, and a small file system. TLC checks small instances, TLAPS proves the
results that hold for every value of the constants. All source paths below are
relative to the repository's `src/`.

Contents: [inventory](#1-inventory), [modules](#2-modules),
[runs](#3-runs-and-what-they-show), [fairness](#4-fairness),
[proofs](#5-proofs), [limits](#6-what-is-abstracted-or-left-out),
[plan](#7-plan).

## 1. Inventory

### Preemptive thread library (`a2-chenz347/src/csc369_thread.c`, `csc369_interrupts.c`)

*State.* The table `gThreadTotal` of `CSC369_MAX_THREADS` TCBs (state, exit code,
join queue, saved `ucontext_t` with its stack, one `next`/`prev` pair), the
ready and zombie queues, `gThreadRunningHead`, the wait queues a program
creates, and the signal mask.

*Operations.* Create, exit, kill, yield, yield to, sleep, wake one, wake all,
join, creating and destroying a wait queue, setting the mask; and `HandleSignal`,
which re-arms the timer and yields.

*Interaction.* One kernel thread runs everything. A call blocks `SIGALRM` in its
first line and lifts it in its last, so the signal arrives only in user code.
A call that switches stores its context with `getcontext` and is continued, much
later and by another thread's `setcontext`, behind that line.

*Hard.* Interleavings of suspended calls: what was checked before a switch
(`tid` in join, `prev_state` everywhere) is used after it. Kill reaches a thread
in any suspended position. Slots are reused. Nobody may be left to run.

*Correct when* a thread is in exactly the queue its state names, queues are left
in order, a thread that is switched to has a stack, a joiner reads its target's
own code, a call returns under its caller's mask, and every ready thread runs.

### Virtual memory simulator (`a3-chenz347/src`)

*State.* The page table `g_pt_entry` (flags, frame, reference bit, swap offset),
the `coremap` (in use, page), `physmem`, the swap file with its bitmap, and the
state of the replacement algorithm (rr's index, clock's hand, lru's list).

*Operations.* One: a line of the trace, `replay_trace` → `access_mem` →
`find_physpage` → `allocate_frame` → `evict_func`, `swap_pageout`, `swap_pagein`
→ `ref_func`. The parts call each other directly; there is no concurrency.

*Hard.* Long sequences of legal references; the swap file full or failing; the
boundary values of offsets and page numbers; memory that is not initialised.

*Correct when* the trace cannot tell it from a flat array of zeroed bytes, and
each algorithm evicts in the order it promises.

### File system vsfs (`a4-chenz347/src/vsfs.c`, `fs_ctx.c`, `mkfs.c`, `bitmap.c`)

*State.* A mapped disk image: superblock (with counts of free blocks and
inodes), inode and block bitmaps, inode table (size, number of blocks, five
direct blocks and an indirect one), one root directory of entries.

*Operations.* The callbacks of a single-threaded FUSE mount (create, unlink,
truncate, read, write, utimens, getattr, readdir, statfs) and mkfs.

*Interaction.* FUSE calls one handler at a time (option `-s`), so each runs alone
on the mapped image; `vsfs_write` calls `vsfs_truncate`. What outlives a mount is
the image, which mkfs may format again.

*Hard.* Block numbers at the boundary between direct and indirect blocks and
between blocks; a full directory or bitmap; counters kept beside the bitmaps;
inodes, entries and blocks used again in any order; an old image under a new
file system.

*Correct when* files behave as independent arrays of bytes, no
block belongs to two owners or to none, the counts equal the bitmaps, and an
entry names the file it was made for.

### Cooperative thread library (`a1-chenz347/src/csc369_thread.c`)

*State.* A table of TCBs (state, `next`, context with its stack), the running
thread, and the head of a singly linked ready queue. No signals, wait queues,
joins or zombies: a slot that is free has the state `CSC369_THREAD_BLOCKED`.

*Operations.* Create, exit, kill, yield, yield to. Every one runs to its end or
to its context switch without being interrupted.

*Hard.* The running thread and free slots keep `next` pointers into the queue.
The stack of a thread that exits is freed when its slot is used again, that of a
killed one at once, and the pointer stays in the slot in both cases while
`malloc` hands the address out again.

*Correct when* the queue holds exactly the READY threads in the order they will
run, each live thread has its own stack, no stack is leaked or freed twice.

### The rest

`a4-chenz347/src/options.c` and `map.c` (command line, one `mmap`), test
programs and examples (clients: what they call is among what the models let a
program call), benchmarks and scripts (workloads), `t01-starter-files` and
`W02-lecture-starter-files` (single-file demonstrations) have no state worth a
model.

## 2. Modules

| module | what it is |
|---|---|
| `CSC369Thread` | the preemptive thread library and the programs that call it |
| `MCThread` | its instances for TLC |
| `ThreadProofs`, `ThreadCallProofs` | theorems about its states and queues, and about what calls return to |
| `FifoQueues` | abstract first-in first-out queues with removal |
| `TcbQueue`, `MCTcbQueue` | `head`, `next` and `prev` as the code links them, implementing `FifoQueues` |
| `TcbQueueProofs` | its theorems: the links are those of the sequences |
| `CooperativeScheduler` | abstract scheduler: who runs, and who waits in which order |
| `CooperativeThread`, `MCCooperativeThread` | the cooperative library on its linked queue, implementing `CooperativeScheduler` |
| `CooperativeProofs` | its theorems: the queue, the stacks, the scheduler it implements |
| `FlatMemory` | abstract memory: what a trace is promised |
| `VirtualMemory`, `MCVirtualMemory` | page table, frames, swap file and the four algorithms, implementing `FlatMemory` |
| `MemoryProofs`, `FlatMemoryProofs` | theorems about its tables and its replacement algorithms, and about the memory it implements |
| `FileStore` | abstract files: names and their bytes |
| `Vsfs`, `MCVsfs` | mkfs, mount and the calls of vsfs on the image, implementing `FileStore` |
| `VsfsProofs`, `FileStoreProofs` | theorems about its directory, its inodes and its blocks, and about the files it implements |

Definitions keep the names of the source, without the prefix `CSC369_`. A name
with a suffix (`Queue_Remove_NotHead`) is a bug that could have been made in the
definition behind it; nothing of the specification uses it, and the list of
mutants in `PROJECT.json` says which property notices it.

### `CSC369Thread`

*Actions.* An action is one library call up to its context switch. What a
suspended call still does is an action of its own, enabled when its thread runs:
`ReturnFromSwitch` (yield, yield to, sleep), `ReturnFromSignal` (the handler),
`ReturnFromJoin` (which reads the exit code), and `MyThreadStub` (a new thread
lifts the mask). `ctx[t]` says which of them a saved context leads to, `arg[t]`
and `saved[t]` are the locals the call keeps on its stack (the target or queue,
and `prev_state`).

| code | definition |
|---|---|
| `CSC369_ThreadCreate` | `ThreadCreate`, `ThreadCreateNoStack`, `ThreadCreateNoQueue` |
| `CSC369_ThreadExit` | `ThreadExitToReady`, `ThreadExitToJoiner`, `ThreadExitLast` |
| `CSC369_ThreadKill` | `ThreadKill`, `ThreadKillNoQueue` |
| `CSC369_ThreadYield`, `YieldTo` | `YieldFrom`, `ThreadYield`, `ThreadYieldTo`, `ThreadYieldToNoStack` |
| `HandleSignal` | `HandleSignal`, from user code with the mask lifted |
| `CSC369_ThreadSleep`, `WakeNext`, `WakeAll` | the definitions of those names |
| `CSC369_ThreadJoin` | `ThreadJoin`, `ThreadJoinNobodyReady`, `ThreadJoinNoQueue` |
| `exit`, `my_on_exit`, a return of `main` | `ProgramExit`, `ExitHandlers` |

The variants whose names end in `NoStack`, `NoQueue` and `NobodyReady` are the
paths on which the code returns after a partial change, fails an assertion or
follows a null pointer. A call that returns an error code without a change is a
stuttering step and has no action.

*The program.* The model lets the running thread make any call with any
argument. Four constants say how much a program dares: `MaxJoiners` (threads it
lets join one target), `KillSleepers` (does it kill a thread that sleeps on a
wait queue), `MaskSettings` (does it switch interrupts itself) and
`MemoryCanFail` (does `calloc` return NULL). With the first two at their widest the
code has the defects section 3 lists, so the invariants are stated for programs
that stay clear of them.

*History.* `owed[t]` is the code with which the target of joiner `t` left,
`mask_set[t]` the mask thread `t` last asked for. No guard reads them.

### `TcbQueue` and `FifoQueues`

`CSC369Thread` works with sequences. `TcbQueue` has the pointers: one `next` and
`prev` per TCB for all queues, walks bounded by `CSC369_MAX_THREADS` nodes, and
`Queue_Enqueue`, `Queue_Dequeue`, `Queue_Remove` as the code links them. The refinement mapping reads
the sequence off the links. Its one precondition, that only a thread in no queue
is enqueued, is what `QueuesMatchStates` of `CSC369Thread` gives.

### `CooperativeThread` and `CooperativeScheduler`

An action is one call of the running thread; what a call does after it is
switched back to is to return. `next` and `gThreadReadyHead` are the links of the
code, and the operators `Appended` and `Removed` are its two loops over them.
`OnChain` is the set of threads a walk meets, defined as the least set closed
under the links, since the theorems are about it.

Stacks are addresses: `malloc` picks any that is not allocated, and may fail.
`FreeEnds` says how a `free` of a slot's pointer ends; a wrong one is undefined
behaviour and ends the model with `outcome` naming it (`ThreadCreateUndefined`,
the second branches of `ThreadKill` and `ThreadExitLast`). `NotFound` is the search of a
thread that runs off the queue, which `QueueHoldsReady` rules out.

`CooperativeScheduler` has a running thread and a sequence of waiting ones. The
mapping reads the sequence off the links.

### `VirtualMemory` and `FlatMemory`

An action is one line of the trace. `access_mem` is split by what
`find_physpage` meets: `Hit`, `MissFree` (a free frame), `MissEvict` (a victim,
perhaps with a page-out and a page-in), and the ways in which the process ends:
`MissLost` (`swap_pagein` asserts), `OutOfTable` (the index is past the table, or
negative), `EvictUnowned` (the victim's `pte` was never set).

`replacement_alg` is the algorithm the command line names: `rand_evict`,
`rr_evict`, `lru_evict` and `clock_evict` give the frames it may choose,
`rr_next` and `clock_next` where the hand goes then, and `RefFunc` is its
`ref_func`. `rand` may return any frame, so it stands for every algorithm in
the runs about memory.

Two history variables say what a policy should do without looking at how the
code does it. `queue` holds the resident pages in the order in which a
first-in first-out or least recently used policy would evict them. `recent`
holds the pages referenced since clock's hand last passed their frames: a
reference adds its page, and a page the hand passes leaves, whatever becomes of
its reference bit. No guard reads either.

`FlatMemory` is a flat array of bytes with reads and writes. The mapping finds
the bytes of a page in its frame, in its slot, or takes zeroes for a page that
was never referenced. With `CanLose`, pages may disappear for good.

### `Vsfs` and `FileStore`

An action is one FUSE call (`vsfs_create`, `vsfs_unlink`, `vsfs_truncate`,
`vsfs_write`), a mount (`fs_ctx_init`), an unmount (`fs_ctx_destroy`) or an
`mkfs -f` between them, with `-z` or without. `vsfs_read`, `vsfs_readdir`,
`vsfs_getattr` and `vsfs_statfs` change nothing and are operators of the state, which the
properties use.

| code | state |
|---|---|
| `sb->free_blocks`, `sb->free_inodes` | `free_blocks`, `free_inodes` |
| `fs->ibmap`, `fs->dbmap` | `ibmap`, `dbmap`: the numbers whose bit is set |
| `fs->itable` | `itable`: `i_blocks`, `i_size`, `i_direct`, `i_indirect` |
| the root directory's block | `entries` |
| every block's bytes, magic and size in block 0 | `image` |

A block has `BLOCK_SIZE` cells; a cell is a byte of a file or a block number of an
indirect block, so a block's data size and the number of pointers in it shrink
together. `vsfs_truncate` has three cases, `Shrunk`, `SameBlocks` and `Grown`,
each an operator that returns the new inode, image, bitmap and counter, because
`vsfs_write` goes through the same code. `Grown` takes the blocks in the order of
the code: direct ones, the indirect block, those behind it.

The kernel resolves a path before it calls: create is called for names that do
not exist, the other calls for names that do.

Past the boundary of direct and indirect blocks the code may treat a block of
the file system's own (the superblock, a bitmap, the inode table, the
directory) as one of a file. Clearing its bit is a step of the model, and from
then on it is handed out like any other block. What the variables
cannot follow is such a block being written as file data, so the model ends
(`Stop`) in the call that would do it, or that takes the block for a file:

| `outcome` | the call |
|---|---|
| `overrun` | writes block numbers behind an indirect block, or, when the superblock passes for one, behind the magic and the size in it; or takes or writes a block outside `FileBlocks` as an indirect or data block |
| `aborted` | fails the assertion of `bitmap_free` on a block number |
| `undefined` | goes on with a block number nobody has set |

The counters are believed as the code believes them: when `free_blocks` is not 0
but no bit is clear, create has marked its inode already and keeps it.

`FileStore` is a function from names to sequences of bytes. The mapping takes
the names of the directory and finds byte k of a file in its block
k \div BLOCK_SIZE.

## 3. Runs, and what they show

The passing runs are exhaustive. Deadlock is checked in every run: a process that
has ended stutters explicitly (`Terminated`, `Ended`).

### Preemptive threads

| run | bounds | shows |
|---|---|---|
| `thread_queues` | 4 threads, 1 wait queue, 2 joiners per target, fair | `QueuesMatchStates`, `ReadyAreQueued` (no lost wake-up), `JoinTargetsLive`, `RunnableHasStack`; wait and join queues are left in order (`LeaveInOrder`), a killed thread stays dead (`KilledStaysDead`); every ready thread runs (`ReadyRuns`) and every released joiner returns (`JoinersReturn`) |
| `thread_returns` | 3 threads, 2 wait queues, interrupts switched by the program, 2 exit codes, `calloc` may fail, 1 joiner per target | the inductive invariant `ThreadInv` when slots get lost; `MaskRestored`, `JoinerSeesExitCode` |
| `tcb_queue` | 4 TCBs in 3 queues | the links mirror each other (`LinksMirror`), and implement the sequences |
| `thread_kill_sleeper` (violation) | 3 threads, 1 wait queue, `KillSleepers` | a killed sleeper stays in its wait queue besides being in the zombie queue, with one pair of links for both (`WaitQueueRep`) |

Four threads are what the interesting cases need: the running one, two in a
queue whose order matters, and one that joins or kills. Three suffice for the
properties of one call's return. Exit codes matter only where they are read, so
`thread_queues` has one of them.

A signal that arrives between the last line of `ThreadExit` of the last thread
and `my_on_exit` finds an empty ready queue and returns (line 516), so no action
stands for it.

The model shows more disagreements with the documentation, without a run of their own:

- A join while every other thread is blocked follows the NULL that
  `Queue_Dequeue` returns for the empty ready queue (line 748; the action
  `ThreadJoinNobodyReady`).
- With two joiners per target the second one may read the code of a new thread
  in the slot (line 759), as the first may create one before the second returns. `MaxJoiners`
  is 1 where `JoinerSeesExitCode` is checked.
- `ThreadExitLast` ends the process although other threads may be blocked;
  `csc369_thread.h`, line 112, speaks of the last thread in the system.
- `ThreadCreateNoStack` leaves a slot READY and lost (line 353).
- No action takes a thread out of `zombie_threads`, so a killed thread's slot is
  never used again (line 461); killing a zombie changes nothing and returns
  `CSC369_ERROR_TID_INVALID`, which the header reserves for invalid identifiers (line 508).
- `Queue_Dequeue` of an empty queue returns with the mask it has set (line 149);
  its callers restore their own or have tested before.
- `my_on_exit` frees the stack it runs on when a thread other than 0 exits (line 264).

### Cooperative threads

| run | bounds | shows |
|---|---|---|
| `coop_queue` | 4 slots, 4 addresses, `malloc` may fail | the chain of links is the set of READY threads and no search runs off it (`QueueHoldsReady`); live threads have stacks of their own up to the first wrong free (`StacksApart`), no stack is leaked (`StacksHeld`); the links implement `CooperativeScheduler`; a ready thread runs as long as threads yield (`ReadyRuns`) |
| `coop_double_free` (violation) | 3 slots, 3 addresses | create, kill, create: the second create frees the killed thread's stack again |

Four slots give a head, a middle and an end to the queue besides the running
thread. As many addresses as slots make `malloc` return a freed one, and run
out when stacks of exited threads are still held.

The same double free follows a create whose `malloc` failed (line 122): the slot
keeps the pointer line 118 has freed. The last thread frees the stack it runs on
before it calls `exit` (line 161).

### Virtual memory

| run | bounds | shows |
|---|---|---|
| `vm_memory` | 3 pages, 2 frames, 3 slots, any victim, any value in fresh memory | a clean page has its copy (`CleanHasCopy`), pages are in the swap file only when memory is full (`SwappedOnlyWhenFull`), and the simulator implements `FlatMemory` |
| `vm_algorithms` | rr, clock and lru; 4 pages, 3 frames; reads of the swap file may fail | rr evicts the page that was loaded first, the list of lru is the order of last references (`EvictsInOrder`); clock's hand is at the first free frame until memory is full (`HandAtFirstFree`), and then a page that the trace referenced since the hand passed leaves only when all pages in memory were, and it is the one the hand stands at (`SecondChance`) |
| `vm_failures` | all algorithms, 3 pages, 2 frames, 1 slot, writes to the swap file may fail, frames in use from the start, bad page numbers | page table and coremap are inverse (`FramesMatchPages`) and no slot has two owners (`SlotsApart`) whatever fails; a page that is lost is never read as something else (`ImplementsLossyMemory`) |

Three pages in two frames are the least with which a page leaves, another comes,
and the first returns to a different frame; four in three let the order of the
two survivors matter. One bit is enough to tell two contents apart, one byte per
page because offsets below `SIMPAGESIZE` only select within a frame. `TableSize` and
`IntModulus` scale down 33580336 and 2^32; what the runs use of them is that the
table is smaller than the range of an int.

More limits of the code are actions or constants of the model: an offset equal
to `SIMPAGESIZE` is accepted and reaches the next frame (`sim.c`, line 163;
`physmem` has one byte more for the last one); page numbers that agree in their
low 32 bits share an entry (`Index`, so `Vpns` must not hold two of them for the
simulator to be a flat memory); when reading the swap file fails, the victim's
bytes are returned (the second alternative of `MissEvict`, so the runs that
compare with `FlatMemory` have reads that work); a frame that `malloc` left in use is
evicted though it holds no page (`EvictUnowned`, which ends the model, as does an
index outside the table, `OutOfTable`).

`SwappedOnlyWhenFull` deserves a remark: `allocate_frame` calls `swap_pagein`
only on the path that evicts. That looks like an omission, and the invariant is
why it is not one: frames are never freed.

### The file system

| run | bounds | shows |
|---|---|---|
| `vsfs_files` | 2 files, 3 inodes, 11 blocks of 2 cells, 2 direct blocks; sizes 0, 5, 7, 9; writes at 1 and 5 | counters equal bitmaps (`BlocksCounted`, `InodesCounted`), `i_blocks` follows `i_size` (`BlocksMatchSize`), a block has one owner (`BlocksOwnedOnce`) and at least one (`NothingLeaked`), entries name their files (`EntriesNameFiles`), a read returns the file's bytes (`ReadReturnsContents`), and the image implements `FileStore` |
| `vsfs_offset` (violation) | writes of whole blocks at 0 and 2 | the second block overwrites the first: an offset at the start of a block is looked up one block too low |
| `vsfs_superblock` (violation) | sizes 0, 4, 5 | a file that grows from exactly `VSFS_NUM_DIRECT` blocks writes block numbers over the superblock's magic, and the image does not mount again |

Of the 11 blocks 4 hold the metadata and 1 the root directory, which leaves 6 for
files. Size 5 needs three blocks and the indirect one, 7 is as large as a file
with two pointers can be, 9 overruns it. Two such files do not fit, so calls run
out of space in every place they ask for it; two names and three inodes let both
bitmaps be used in any order. `mkfs -f` may come after any call when the image
is not mounted. Names are compared for equality only, so they are symmetric.

`vsfs_files` stays off the two boundaries the violation runs are about: no
file has exactly `VSFS_NUM_DIRECT` blocks, and a range does not start at the
start of a block behind the first one. Of the two offsets in the first block it
writes at one and reads at both. Past the first boundary there are
`vsfs_superblock` and, for every program, the theorem `EntriesCorrect` of section 5.

Seen while translating, without a run:

- Shrinking to exactly `VSFS_NUM_DIRECT` blocks keeps the indirect block, and
  unlink then never frees it (line 872): one more effect of the same boundary.
- Nothing compares a file's blocks with what its indirect block can hold, although line 791
  documents `EFBIG` (line 928; `Overruns`).
- Growing a file does not clear what an earlier shrink left in its last block, and
  create does not clear its block (lines 832 and 588): a byte nobody wrote may read
  as an old one, against lines 782, 988 and 1052. `FileStore` lets such
  bytes hold anything, and the refinement says that only such bytes do.
- When the directory is full, create takes an inode and a block, writes no entry and
  returns 0 (lines 631 to 640).
- A read behind the end of the file copies a negative number of bytes (line 1035);
  the kernel does not pass such reads on.
- `mkfs` without `-z` leaves old inodes in the table. This is harmless, which
  `vsfs_files` shows.
- `main` of mkfs returns an uninitialised value when the image is already
  formatted (`mkfs.c`, line 265), and an inode table that does not fit fails an assertion although the
  comment at lines 129 and 130 promises `false`.

## 4. Fairness

Two runs assume any (`FairSpec` of their modules).

`thread_queues`:

- `WF(Resume)` and `WF(ExitHandlers)`: a process that the kernel runs goes on
  executing the lines behind a `setcontext`, and those behind `exit`.
- `SF(HandleSignal)`: `HandleSignal` re-arms the timer before it yields
  (`csc369_interrupts.c`, line 66), and a signal that arrives while blocked stays
  pending until the mask is lifted. It is not weak fairness, since the action is
  disabled during each call; it is strong fairness because user code is entered
  unmasked again and again.

That last reason fails for a program that switches interrupts off and leaves
them off, so this run has `MaskSettings = {}`. No library call is fair: a
program need not make any.

`coop_queue`: nothing preempts a thread, so the others run only if the running
one calls the library. `WF(ThreadYield)` says that programs go on yielding, as a
cooperative program must; what the library adds is that other calls in between,
`ThreadYieldTo` past a thread above all, do not take it back in the queue.

## 5. Proofs

Eight modules hold theorems; each holds for every value of the constants that
the named `ASSUME`s of its module allow, and TLC evaluates those in every run.
Where a theorem has a hypothesis besides, the hypothesis keeps the program off a
line of the code at which the result is false, and the section names the line.

Every safety property, action property and refinement that a passing run checks
has a theorem here.

### `ThreadProofs`

| theorem | says |
|---|---|
| `TypeCorrect` | `Spec => []TypeOK` |
| `Invariance` | `~ KillSleepers => (Spec => []ThreadInv)` |
| `QueuesCorrect` | the same for `QueuesMatchStates` |
| `JoinTargetsCorrect` | the same for `JoinTargetsLive` |
| `StacksCorrect` | the same for `RunnableHasStack` |

*Assumptions.* There is at least one thread, codes are integers, and the names
of wait queues are not numbers. The bound on joiners and the choices of masks
and failing memory are arbitrary. `~ KillSleepers` is needed:
`thread_kill_sleeper` shows that the results are false without it.

*Argument.* `QueuesMatchStates` alone is not inductive. That an enqueued thread
is in no other queue follows from its state only if states and queues
determine each other, for sleepers and joiners through the argument of the
suspended call; that a kill which drains the victim's joiners finds only
BLOCKED ones needs that no thread waits for one that has ended; that a switch
lands on a stack needs that READY threads in the queue have one. `ThreadInv` is

    TypeOK /\ (program = "up" => Consistent)

where `Consistent` adds `NobodyOnFreedQueue`, `EndedHaveNoJoiners`, `AliveCanRun`
and `BlockedInCall` to the parts of `QueuesMatchStates`. When the process is no
longer up nothing is claimed, because a failed assertion may stop in the middle.
The proof has one lemma per action, with one step per conjunct. The lemmas
about sequences come first: what appending, taking the head, removing
from the middle and draining do to `Holds` and `IsInjective`.

### `ThreadCallProofs`

| theorem | says |
|---|---|
| `KilledCorrect` | `~ KillSleepers => (Spec => KilledStaysDead)` |
| `ReadyCorrect` | `~ KillSleepers /\ ~ MemoryCanFail => (Spec => []ReadyAreQueued)` |
| `MasksCorrect` | `~ KillSleepers => (Spec => []MaskRestored)` |
| `JoinCorrect` | `~ KillSleepers /\ MaxJoiners <= 1 => (Spec => []JoinerSeesExitCode)` |
| `OrderCorrect` | `~ KillSleepers => (Spec => LeaveInOrder)` |

*Assumptions.* Each is needed, and section 3 names the line that makes it so: a
create without memory for the stack loses a READY slot, and with two joiners the
second one may find a new thread in the slot.

*Argument.* Each adds its own invariant to `ThreadInv`. A zombie has the kill code
and is in no queue (`ZombiesHaveKillCode`), so no exit, wake-up or switch reaches
it. A suspended call has `prev_state` on its stack, equal to the mask its thread
had, and a thread that was preempted or is new had none blocked (`MasksKept`). A
joiner that was let go still has its target's code in front of it: after a kill
because the zombie keeps its slot, after an exit because `ThreadExit` switches to
its only joiner at once (`OneJoiner`, `JoinsOwed`). `LeaveInOrder` follows from
`ThreadInv` step by step: a call may take a thread only from the front of a
wait or join queue, and a kill takes its victim from the ready queue or drains the victim's
joiners in order.

### `TcbQueueProofs`

| theorem | says |
|---|---|
| `LinkInvariance` | `Spec => []LinkInv` |
| `MirrorCorrect` | `Spec => []LinksMirror` |
| `FifoCorrect` | `Spec => ImplementsFifo` |
| `TypeCorrect` | `Spec => []TypeOK` |

For any finite set of TCBs and any queues; finite because walks are bounded by
their number.

*Argument.* `LinkInv` says that `head`, `next` and `prev` are those of the sequences
which the refinement mapping reads: the head is the first, each points at its
neighbours, nobody is in two places, and a TCB in no place points nowhere. The
proof has two halves. First, links hold one contents only: if they are those of
some sequences, the walk reads just these (`ReadFacts`). A walk is a recursive
function, and no induction over it is available, so the proof takes the least
place where the walk and the sequence differ; that the bound on the walk is long
enough is that an injection into the TCBs is no longer than they are many. Second,
enqueue and unlink make of such links those of the changed sequences
(`AppendFacts`, `UnlinkFacts`, with the cases front, middle, end and only one).
Together each step of the links is the step of `FifoQueues` on what they hold.

### `CooperativeProofs`

`TypeCorrect`, `QueueCorrect` (`QueueHoldsReady`), `StacksCorrect`
(`StacksApart`), `NoStackLeaked` (`StacksHeld`) and `SchedulerCorrect`
(`ImplementsScheduler`), for any number of slots and
any set of addresses. No assumption on the program.

*Argument.* A step changes one or two links, and what `OnChain` is afterwards
needs the shape of the list: `WellLinked` says that no two threads of the chain
have the same successor, that none leads back to the head, and that one has NULL
behind it. It has no order and no length in it, so no induction is needed; that
the chain is the least closed set gives the
facts about appending and removing. `QueueInv` joins it with the types,
`QueueHoldsReady`, and that somebody runs. `StacksApart` is inductive on top of
that; `StacksHeld` needs the types only.

The scheduler needs the order too. `InOrder(s, link, head)` says that the chain
is the sequence s, and `OrderInv` that it is the one the mapping reads. As above,
a chain is one sequence only, which the walk reads (`Reading`, with the
length bounded by an injection into the table). A link of a thread outside the
chain does not matter (`OffOrder`), which is why the pointers the running thread
and free slots keep do no harm; the loops of the code append to the sequence and
take one place out of it (`AppendInOrder`, `RemoveInOrder`). `OrderStep` has one
step per call, and names the abstract action it is.

### `MemoryProofs`

`TypeCorrect`, `FramesCorrect` (`FramesMatchPages`), `SlotsCorrect`
(`SlotsApart`), `PageInCorrect` (`SwappedOnlyWhenFull`), `HandCorrect`
(`HandAtFirstFree`), `SecondChanceCorrect` (`SecondChance`) and `OrderCorrect`
(`EvictsInOrder`), for any sizes, traces, algorithms and failures of the swap file.

*Argument.* The parts need each other: the index a victim's frame holds is in the
table because of the types, the frame a miss takes is in no entry because page
table and coremap are inverse, and clock's hand finds a page because it was at the
first free frame when memory filled up. Nothing is claimed of accesses outside the
tables: there the model stops (`OutOfTable`, `EvictUnowned`). `MemoryInv` adds three facts to the
theorems' properties: `AbsentPages` (an entry that is not valid was never
touched or is on swap), `LruHasVictim` (the list is not empty once a
frame has a page) and `SlotsOwned` (`SlotsApart`, also for a table of one entry).

The algorithms come on top. The hand of clock goes around modulo the number
of frames, so the frames it meets in one round are all of them (`AheadFacts`). Its
sweep stops at the first page without a reference bit, or, when there is none, back
where it began (`SweepEnds`), and clears the bits of just the pages it passes
(`SweepClears`). With that, the bits
are at every step those of the references since the hand last passed
(`BitsAreRecent`, `RecentStep`), and `SecondChance` says of the history what
the sweep did with the bits. For rr and lru the
history variable `queue` is tied to the algorithm's own state: the list of lru is
frame by frame the queue of pages (`LruOrder`), and the place of a page in the queue is the
distance of its frame from rr's index, once frames have filled up from the first
on (`RoundRobin`).

### `FlatMemoryProofs`

| theorem | says |
|---|---|
| `CopiesCorrect` | `StaysInPage => (Spec => []CleanHasCopy)` |
| `LossyMemoryCorrect` | `StaysInPage /\ NoAliases => (Spec => ImplementsLossyMemory)` |
| `FlatMemoryCorrect` | `StaysInPage /\ NoAliases /\ EnoughSlots => (Spec => ImplementsFlatMemory)` |

*Assumptions.* `StaysInPage`: offsets are below `SIMPAGESIZE` and reads of the swap
file do not fail; `sim.c` accepts one offset more, which is a byte of the next
frame, and `allocate_frame` goes on with the victim's bytes after a failed read.
`NoAliases`: no two page numbers of the trace agree in their low 32 bits, or
they share an entry. `EnoughSlots`: writes to the swap file do not fail and there is
a slot for every page of the trace; without it pages get lost, which is what the
lossy memory allows.

*Argument.* `CleanHasCopy` (a clean page's slot has the page's bytes) is inductive on
`MemoryInv`: two frames share no byte, two pages no slot. `PageStep` then says
what a reference does to the contents of every page, wherever they are: its own
page changes as the flat array does, another one stays or gets lost. There is one
lemma per path (hit, free frame, eviction). That a slot is found when there
are enough is a pigeonhole argument: if all were taken, they had as many owners
besides the victim (`SlotsInv`, `SlotFound`).

### `VsfsProofs`

| theorem | says |
|---|---|
| `EntriesCorrect` | `Spec => []EntriesNameFiles`, for every program, up to the `Stop` |
| `TypeCorrect` | `OffBoundary => (Spec => []TypeOK)` |
| `BlockCountCorrect` | the same for `BlocksCounted` |
| `InodeCountCorrect` | the same for `InodesCounted` |
| `SizesCorrect` | the same for `BlocksMatchSize` |
| `BlocksCorrect` | the same for `BlocksOwnedOnce` |
| `LeaksCorrect` | the same for `NothingLeaked` |
| `MountCorrect` | the same for `MountsAgain` |

For any image, any number of cells in a block (at least two), and directories
smaller than the inode table.

*Assumption.* `OffBoundary`: no size that a program truncates to, or that a write can
end at, needs exactly `VSFS_NUM_DIRECT` blocks, and neither does an empty file.
`vsfs_superblock` shows that the image is damaged without it: such a file is
taken for one that has an indirect block. Past the boundary a wrong counter of blocks lets
create fail between marking an inode and counting it, so the count of inodes is
wrong there too, and the superblock and the directory may be handed out and
overwritten as file data. `EntriesCorrect` has no assumption, but says nothing of the image
from that last call on: the model has ended.

*Argument.* `DirectoryInv` adds to `EntriesNameFiles` the types of the
directory and `RootStays`, that the first two entries and the root's inode never
change. No counter is part of it. A new entry gets a clear inode because
`bitmap_alloc` finds one or create fails, whatever `free_inodes` says; a create that
finds no block marks an inode that no entry names (`NoBlockStep`). With the
counter of blocks right (`BlockInv` below), that second case does not occur
(`CreateFindsBlock`), and the count of inodes follows (`InodeCountStep`).

For the blocks, `Owned` says that the positions of files (the pointer to an indirect block is
one of them) and the blocks in use are in bijection. `BlockInv` joins it
with the types, with `FileOK` (a file has the blocks its size needs, and fits
behind one indirect block), with the counter, and with the magic. Every call
either gives positions up or takes clear blocks for new ones (`Loses`, `Gains`), and
two lemmas say that `Owned` survives both and by how much the number of
clear bits changes; what is left for `Shrunk` and `Grown` is to say which
positions and which blocks these are. `Grown` takes the clear blocks in order,
and that there is an n-th one is again an injection between sets of equal size
(`ClearBlocksInOrder`). Division by the size of a block is by a constant that
has no value, so its few facts are derived from quotients being unique.

### `FileStoreProofs`

| theorem | says |
|---|---|
| `ReadsCorrect` | `OffBoundary /\ OffBlockStarts(Reads) => (Spec => []ReadReturnsContents)` |
| `StoreCorrect` | `OffBoundary /\ OffBlockStarts(Writes) => (Spec => ImplementsFileStore)` |

*Assumption.* `OffBlockStarts`: a range starts at 0 or not at the start of a block,
because `vsfs_find_block_by_offset` looks for such an offset one block too low
(`vsfs_offset`).

*Argument.* Under `BlockInv` and `DirectoryInv` the files of the mapping are the
bytes at the positions of the inodes that entries name (`StoredBytes`). A call that
changes the size keeps the bytes of every position that stays (`Kept`,
`KeptBytes`), and the bijection says that no other file has a byte in a block
that was taken, cleared or written (`CopiedBytes`). `StoreStep` puts these
together, one lemma per call.

*Only model-checked.* Liveness under fairness, which is out of the prover's
reach: `ReadyRuns` of both thread libraries and `JoinersReturn`.

## 6. What is abstracted or left out

- *Threads.* Stack contents and the allocator's own state; the
  output of the handler; `CSC369_ThreadSpin` and the like, which change no state
  of the library. A preemption inside `calloc` in `WaitQueueCreate`, which runs
  unmasked, is outside the model, since an action is a whole call. After a killed
  sleeper is in two queues the one pair of links no longer stands for two
  sequences; the model is meaningful up to that step, where the run that allows
  it stops. The cooperative model ends with the first wrong free.
- *Memory.* The REF bit of the flag word (set with every other value, tested
  nowhere). The event counters and printed statistics. A write that fails is one
  that leaves the slot's old content; a partial write, which would leave a
  mixture, leads to the same entry without a slot, whose content is never read. A
  failed read leaves the frame as it was, which is one of the outcomes of a
  partial one.
- *Files.* Times, modes and link counts; mkdir and rmdir, which return `ENOSYS`;
  a range of a read or write that crosses a block, which `vsfs.c` lets itself
  assume away (lines 990 and 1054). Formatting again with another number of inodes,
  an image that is not one of this mkfs, and what an image holds after a stop
  between two stores: nothing in the code orders the stores or repairs an image.
- *Not modelled.* `options.c`, `map.c` (input and output); tests, examples and
  benchmarks, which are clients or workloads; the tutorial and lecture programs.

## 7. Plan

What is left, in this order:

1. *Thread library on links*: `CSC369Thread` and `TcbQueue` composed, which makes
   the state after a killed sleeper meaningful. `FifoCorrect` already says that
   the sequences are what the links implement while nobody is in two queues.
2. *Counters of the simulator*: evictions are the misses less the frames in use.
3. *Stops between two stores of vsfs*: which of the invariants an image still has
   when only some of a call's stores have reached the disk.
