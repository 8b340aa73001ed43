# Bellona2: models, checks and proofs

Bellona2 is a small 32-bit x86 operating system in C: a kernel (`src/kernel`), a file-system
layer (`src/bell_fs`), a user library, shell, GUI and programs (`src/module`), and boot loaders.
This directory holds TLA+ models of its kernel's concurrent core, TLC configurations that check
them, and TLAPS proofs of what matters most. The sources are EUC-KR encoded; quoted comments are
translated.

## 1. Inventory

### How the kernel runs

* One processor. **The kernel is not preemptive**: the timer only diverts code that runs in ring 3
  to the preempt function of its process (`schedule.c:457-467`). Kernel code gives the processor
  up only inside `kernel_scheduler`, which `wait_event`, `wait_for_kmesg`, suspension, exit and
  yield call.
* System calls run with interrupts enabled (`STI`, `ksyscall.c:883`), so **interrupt handlers run
  between any two instructions** that `ENTER_CRITICAL_SECTION`-style `CLI` regions do not
  protect. They count events, fill key queues and count timeouts down.
* A thread sleeps either for an event (`wait_event`) or for a kernel message (`wait_for_kmesg`),
  with its one wait object.
* Processes and threads are ended by a kernel thread, the *sniper* (`init.c:130`), which takes
  requests from its message queue; a dead process stays a zombie until its parent reads its
  exit message.

An action of a model is therefore one region that nothing else can run in: a `CLI` region when
interrupt handlers share its data, else the whole call up to the point where it sleeps. Where kernel code works
on data that interrupt handlers share *without* a `CLI`, the operation is split where an interrupt matters: closing a thread
(`CloseMarks`, `CloseReleases`; in `ProcLife` the set of revived threads), the remote shell's wake-up
(`ShellFinds`, `ShellWakes`), the test for room of a key queue (`RemoteByte`, `RemoteAdd`, `RemoteAwakes`),
`getchar`'s test and sleep (`FindsEmpty`, `Sleeps`), and requests to one disk (`crossed` in `BCache`).

### Components

| component (sources) | state | operations | what is hard | what makes it correct |
|---|---|---|---|---|
| scheduler (`schedule.c`, `kprocess.c`) | a queue per thread state, current thread, level and nice counters | switch, yield, tick, suspend, resume, create, close | states are changed from interrupts and by other threads; `nPrevThreadState` is shared by several callers | queues agree with states; only ready threads run; every ready thread gets its turn |
| events, timeouts (`event.c`) | count, link of waiters, wait objects, timeout list | wait, count, clear, wake the first, expire, close | occurrence, signal, key, timeout, suspension and death of one sleeper in any order | no missed occurrence, none given twice or taken back, no stale link or timeout |
| signals (`ksignal.c`) | bits and mask | send, pause | wake a sleeper from another thread | as events |
| semaphores (`semaph.c`) | name list, value, references, an event | create, open, close, wait, post | value and event are two counters for one thing; kill while waiting; close while others wait | permits conserved and first come, first served; no one left behind a freed semaphore |
| critical sections (`cs.c`) | flag, event | enter, leave | flag and event are tested at different times | mutual exclusion, no lost wake-up |
| kernel messages (`kmesg.c`) | ring of 16 slots with out-of-order removal, counter | send, wait | holes, wrap-around, wait type left in a free wait object | unread messages kept, no sleeper beside its message, no wrong wake-up |
| processes, threads (`kprocess.c`, `init.c`) | process and zombie lists, parents, queues of messages | fork, exec, create thread, exit, kill, wait | requests overtake each other; exec swaps PIDs; dying threads get messages | no thread without a process, an exit reported once, the dying end |
| keys, serial, remote shell (`kbd.c`, `serial.c`, `rsh_serv.c`) | key queue per thread, serial buffer | add, get, sleep | two writers and a reader; a test before the `CLI` | keys in order, none lost, no sleeper beside a key |
| consoles (`vconsole.c`) | link of foreground processes per console | set foreground, switch, close | keyboard interrupt relinks what a thread relinks; zombies | links name live processes |
| address spaces, pages, shared memory (`kprocess.c`, `paging.c`, `memory.c`) | page tables, `pForkRef` chain, page references | fork, copy on write, attach, detach | shared chains and counters at death | a page is freed with its last reference |
| kernel heap (`malloc.c`) | position and size lists | allocate, free, enlarge | split and merge in any order | free space is indexed and in one piece, regions do not overlap |
| block cache (`bcache.c`, `blkdev.c`) | hash, dirty link, counters | read, write, flush, evict | eviction and failing writes | reads return the last write; dirty blocks reach the disk |
| files (`vfs.c`, `file.c`) | vnode hash and references, descriptors | open, read, close, remove | references from several descriptors and paths | a vnode lives as long as its references |
| FAT (`fat32.c`, `fddfat12.c`) | cluster chains, directory entries | grow, truncate, remove | an operation fails half way | chains disjoint, sizes covered |
| disk drivers (`hdd.c`, `fdd.c`, `idehdd.c`) | controller registers, an event | command, interrupt, timeout | interrupt before the wait, late interrupt | see events |
| modules, loader (`module.c`, `ldr.c`) | module table | load, unload | loading sleeps for disk; guarded by one critical section | see critical sections |
| hardware set-up, debugger, disassembler, shell, GUI, user programs | – | – | – | left out, section 7 |

How they interact: drivers, semaphores, critical sections, key queues and `kpause` are users of
events; events and messages both put threads to sleep through the same wait object and the same
`change_thread_state`; `kwait*` and the sniper talk through messages; the loader sleeps inside a
critical section; process death releases wait objects, messages and the process's threads.

The hazards of this code, each at its line, are listed in `PROJECT.json`.

## 2. Modules

| module | models | composes |
|---|---|---|
| `SchedEvents` | scheduler queues, thread states, events, wait objects, timeouts | – |
| `EventTokens` | what events promise: tokens, first come, first served | abstract specification of `SchedEvents` |
| `KEvent` | an event as its users see it: a count and a link, as operators | used by `KSem`, `CritSect` |
| `KSem` | named semaphores over `KEvent` | – |
| `AbstractSemaphore` | permits and a queue | abstract specification of `KSem` |
| `CritSect` | `launch_r3_program`'s `enter_cs`/`leave_cs` over `KEvent` | – |
| `KMesgQ` | the message ring slot by slot, as operators | used by `KMesg` |
| `KMesg` | threads that send and wait for messages, and for events with the same wait object | – |
| `ProcLife` | fork, exec, exit, kill, the sniper, zombies, `kwait*` | – |
| `InputQueue` | key queues, keyboard and serial interrupts, the remote shell, `getchar` | – |
| `AddrSpace` | page references, page tables, copy on write, the `pForkRef` chain, heap growth, a shared region | – |
| `MemPool` | position and size lists of a heap: allocate, free, enlarge | – |
| `AbstractHeap` | regions that do not overlap | abstract specification of `MemPool` |
| `BCache` | the block cache: hash chains, counters, eviction, reads that sleep for the disk | – |
| `VFiles` | vnodes, hash, descriptors, directory entries: open, create, close, remove, rename | – |
| `FatFile` | cluster chains, vnode cursors, entries of a directory: open, read, write, seek, close, mkdir | – |
| `AbstractFile` | a file is a sequence of units, a handle a place in it | abstract specification of `FatFile` |
| `MCSchedEvents`, `MCProcLife`, `MCVFiles`, `MCFatFile` | constants, symmetry and bounds for TLC | |
| `MCSync` (`KSem`, `CritSect`), `MCQueues` (`KMesg`, `InputQueue`), `MCMemory` (`AddrSpace`, `MemPool`) | the same for two components that share nothing: one moves, the other is at rest (`moves`) | |
| `LinkLemmas` | lemmas about sequences used as links, and about `KEvent` | |
| `SchedEventsProofs`, `KSemProofs` (with `CritSect`), `KMesgProofs` (with `InputQueue`), `ProcLifeProofs`, `AddrSpaceProofs` (with `MemPool`), `BCacheProofs` (with `FatFile`), `VFilesProofs` | theorems and proofs | |

Names follow the source: `nState`, `nWaitResult`, `nValue`, `kmesgq`, `pForkRef`, `mfl`, ... The
`map` in `PROJECT.json` gives the lines every definition stands for. An operator whose comment says
"Mutant of X" is X with a plausible bug; the mutants listed in `PROJECT.json` show that each
checked property notices one.

### SchedEvents
`q[s]` is `sch.q[s]`, the queue of threads in state `s`; `nState`, `nPrev` and `nWaitResult` are
fields of `ThreadStt`; `nCount` and `link` those of `EventStt`; `obj` and `left` are the wait
object and its timeout; `pc` says where in the kernel a thread is. `Tick` is the timer interrupt:
it counts timeouts down and collects the expired ones in `expiring`, which are handled one by one
with interrupts off (every other action requires `expiring = {}`). `Schedule` is the loop of
`kernel_scheduler`, with the rotation of `get_next_sch_thread` and the promotion of
`up_schedule_level`. The nice counters that decide when a level changes are abstracted: a level
may go down at any tick and up at any switch, within its bounds. `kpause` waits with a timeout of
2^32-1 ms, which is no timeout in any horizon of the model. `SendSignal` and `Suspend` are single
actions because the kernel is not preemptive and the timer touches none of the data they test.
`wait_event` uses only one wait object per thread, and so does the model. Failing allocations
make a call return at once and are stutters.

Two operations run with interrupts enabled and are two actions each. `kclose_thread` sets `TS_TERMINATED`
(`CloseMarks`, `kprocess.c:838`) and releases the wait object later (`CloseReleases`, 857). `victim` is the thread in between; an occurrence
there is spent on it and makes it ready, and `krelease_thread_struct` then refuses it (`MayRelease`).
`add_key_to_thread` calls `awake_the_first_waiting_thread` after its `POPFD` (`kbd.c:510`): the remote shell finds the wait
object (`ShellFinds`, `event.c:603`) and unlinks it (`ShellWakes`, 609). When a key, a signal or a timeout freed the object in
between, the second unlinking empties the link of `kbd_event` under its other waiters: the event is then `torn`.
Once torn, an event stays so and its link is kept empty in the model. In the code the link becomes whole again when the last
waiter of before is gone; nothing depends on it, for the keyboard wakes a thread through the thread's own wait object and
no code follows the link of `kbd_event`. `nTotalObj`, which is then counted down twice, is read nowhere.
An interrupt between `event.c:609` and 610, or inside `unlink_waitobj_from_event`, does what one before 609 does to the thread; the
half-changed pointers it may meet inside are not modelled.

### KSem, CritSect
These abstract from queues and levels: a thread is running, asleep or woken. A killed waiter leaves
the event but `nValue` stays as it was, and the references of a dead process are not dropped; both
are in the model (`Kill`, `Start`). A `fork` copies the raw pointers to semaphores without
counting them, which is not modelled. In `CritSect` the body of the section sleeps for the disk, so
the other threads run meanwhile; a thread killed inside leaves `nFlag = 0` for ever (`abandoned`).

### KMesgQ, KMesg
The ring has `MAX_KMESG` slots (16 in the code, 3 in the run), removal leaves holes, and
the scan of `ksend_kmesg` compares its index with `wEnd` before it wraps the index, as in the code.
`wWaitType` is kept when a wait object is freed, and `Wakes` reads it. Every caller of `kwait_kmesg`
passes no timeout, so there is none.

### ProcLife
Message queues are sequences here; the ring is `KMesg`'s. `inKernel` is the thread that keeps the
processor across several actions: the sniper works off its queue without sleeping, and
`kwaitpid` skips messages. After a process was killed twice the process list is broken; `corrupt`
records that. `Revivable` are the threads that an occurrence makes ready while `kclose_thread` is half
through with them: they are `"stray"`, on no list of a process and refused by `krelease_thread_struct`. A stray thread can run
(`StrayRuns`), on a stack that is free already, or be killed once more (`SniperKillsStray`); what comes of either is left open,
so `corrupt` holds from then on and no property says anything. Interrupts occur whoever has the processor
(`EventOccurs`). PIDs and TIDs count up and are never reused, as in the code. The shell's `kill`
only takes user processes. The kernel's process never ends and never waits, so zombies whose
parent is the kernel stay.

### InputQueue
`getchar` is two actions, the test and the sleep, because interrupts are enabled between them;
`add_key_to_thread` is three when the remote shell calls it: the test for room, the key put under `CLI`, and the wake-up with
interrupts on (what an interrupt inside the wake-up does to the event's link is in `SchedEvents`). The remote shell thread exists from boot
(`bellona2.c:344`). Which thread is in the foreground is left open. A foreground process without a
foreground thread (a NULL dereference in `rsh_serv.c:26`) is not modelled.

### AddrSpace
A process and its `AddrSpaceStt` share a name. An address is the stack, a page of the heap or the
window of the shared region; a page table entry is a page and its write bit. `CreateProcess`,
`Fork`, `CopyOnWrite` (the page fault), `Enlarge` (a heap that grows, failures included), `Exit`
with the walk along `pForkRef` (`detach_addr_space`, `__release_user_area`), and the four calls of
`memory.c` on one region of one page. A space is released when its counter says so, which may be
after its process ended. A fork copies no page and counts none: the child has the parent's pages
read-only, and the **parent keeps write access**, so a fork is no snapshot; that is how the code is, and
`OnlyFamilyWrites` allows it. Two constants choose how orderly callers are: `GrandForks` (a forked
process that did not exec forks again) and `Untidy` (a process forks or ends with the region
attached, or detaches it where it is not attached: `detach_shmem` tests nothing and always counts down, `memory.c:316-322`).
With either the code frees memory in use, section 6. The region's counter has no lower bound in the model when `Untidy` holds.
Several regions, and detaching at another address, are not modelled. The pages of page tables and the
kernel's mappings are left out.

### MemPool, AbstractHeap
`pos` is the position list, `blk` the headers, `mfl` the free lists by size class; a unit is one block
header. `split_memblk`, `merge_memblk`, the size links and `enlarge_memory_pool` are operators on
the record of the three (`Pool`); a loop of `merge_memblk` is a recursive function that makes a
`MergeStep` for each block of the `FreeRun`; `Malloc`, `GrowFails` and `Free` are the calls. The refinement mapping
takes the used blocks to the regions that were given.

### BCache
Hash chains in order, their counters and the total; `pc` says what a thread is reading. A
thread that has to read sleeps for the disk, so others look the same block up meanwhile; the loops
of `read_blk_cache` and `scatter_load` go on without sleeping (`inKernel`). `content` is what a block
holds, as on disk, written since or junk after a failed read, with the block it belongs to. Files
are written through the buffer that `get_blk_cache_buff` returns. No caller enters a block with
`CACHE_DIRTY`, so the dirty link is always empty and is left out; an evicted block goes back
to what the disk has (`Holds`).

The disk driver has no lock around registers, `clear_event_count`, command and `wait_event` (`hdd.c:190-321`), so a request of a
second thread mixes with that of one that sleeps. `crossed` are the threads whose request met another one; such a request
brings the block that was asked for or anything else (`Delivered`), and may fail. A request that timed out may be answered later
(`owes`): until that interrupt came, new requests count as crossed. `doubtful` are the cached blocks that a crossed
request, or one that failed and was entered all the same (`scatter_read`), brought. After its interrupt the driver polls for DRQ without
end (`hdd.c:227-236`, `309-316`); a drive that never raises it hangs the system, which is not modelled, nor are
other devices on the same controller, whose requests would cross too.

### VFiles
The root file system is on the RAM disk, which never sleeps: each call is one action. Routines of
`vfs.c` and `fat32.c` are operators on a record of vnodes and hash (`vnode_open`, `vnode_close`,
`find_vnode`, `tunnel_path`), composed into `Open`, `Create`, `Close`, `RemoveFile`, `Rename` as in
`file.c`, failures included. A file is known by its first cluster. `find_vnode` compares parent and hash
place but not the name, as in the code. `Names` are spellings: the file system ignores case and takes a short name for the
long one (`strcmpi`, `fat32.c:2286`), so `EntriesOf` compares `Fold[n]`, while the hash is that of the exact spelling (`vfs.c:498`).
`SpellingsMeet` says that spellings of one name share a hash place. The code does not see to that; it is so when callers always spell
a name alike, and the properties that need it say so. A short name is a fixed spelling of the long name it is made for
(its serial number, `fat32.c:490-497`, is not modelled, nor are files created under a short name first); `.` and `..` are not among `Names`.
Paths have at most two names (`DirsAssumption`): with three the walk frees a directory that is
still a parent (`file.c:435`), so the theorems speak of such paths only. `kremove` and `krename` are their effect on entries and
vnodes; that a renamed file's new entry is first written with size 0 (`fat32_vnode_rename`, corrected when its vnode is closed in the
same call) is not.

### FatFile, AbstractFile
`fat`, the contents of clusters in units of 32 bytes (a directory slot), and for each file the
`FAT32FileStt` its vnode has while it is open: chain length, last cluster, cursor. The directory is
a file, and its entries are units in it. `raw_read`, `raw_write`, `cluster_tracking`, `increase`,
`generalize` and the entry routines are operators on a record; `Open`, `Read`, `Write`, the three
`Seek`s, `Close` and `Mkdir` are the calls. After the last chain mark comes the last chain mark,
as the look-ups of the code have it. `holds`, an auxiliary variable, is what the files hold read
along their chains; the refinement compares it with `AbstractFile`. The model's cluster of two
units holds `.` and `..` as one unit. The disks the model starts from are well-formed
(`DisksAssumption`, which TLC evaluates for the two disks of the run): the chains of the directory and of its
entries end with the mark, are long enough for the sizes and share no cluster; and no entry has a cluster more than its size needs
(`NoSpareCluster`; one empty last cluster is allowed, as a new file has one). With more, `fat32_vnode_read` computes a negative length
for the last cluster (`fat32.c:1273-1280`). The file system itself never makes such a file: `CursorsRight` says that the unused part of
an open file is a cluster at most. Entries of size 0 whose start cluster is 0, as other systems write them, are not modelled.

## 3. Runs

| run | question | bounds, and why they are enough |
|---|---|---|
| `sched_core` | do queues, links, wait objects, timeouts and states stay consistent, and do events implement tokens, with interrupts inside `kclose_thread` and inside the remote shell's wake-up? | 3 threads on three levels, a driver event with timeouts and an event that keys, the remote shell and signals wake, stored count and timeout 1. Three threads give a runner, a sleeper and a third that kills, suspends or overtakes; a timeout of one tick expires at any later tick. 793 thousand states, two to three minutes. |
| `sched_live` | does everyone get a turn, and does every woken waiter return? | the same threads and operations with the driver event alone, for the liveness graph |
| `sync_core` | semaphores: are permits conserved, first come first served, and references safe? Critical section: mutual exclusion, lost wake-ups, progress | 3 threads of 2 processes, 2 structures that compete for one name, created with -1, 0 or 1, values -2..1, 2 references. 4 loaders: one inside, one woken, one waiting, one that barges in |
| `queue_core` | messages: lost or wrong wake-ups, message counter. Keys: their order, damage of the writers' race | 2 threads that send to each other, rings of 3 slots, 2 types: the smallest ring with a hole, a message before and one after it. 2 readers, queues of 2 keys, serial buffer of 2 |
| `proc_core` | do kills, forks, execs, exits and waits in any order, with interrupts, keep the life cycle consistent? | 2 processes and 3 threads besides the kernel's, queues of 2, 2 requests for the sniper: enough for a double kill, an exec overtaken by a kill, and a waiter beside the dying |
| `proc_ends` | do the dying end? | as `proc_core`, but no second process beside a third thread: the graph of `proc_core` is too large for liveness. Both halves, a process with three threads and two processes, are there. 72 thousand states |
| `memory_core` | spaces: is memory in use never free, and who may write it? Heaps: do the lists agree, and do regions stay apart? | 3 processes, 5 pages, a heap page each: a parent with two children or a stranger, pages that run out. A pool of up to 24 units, size classes at 4 and 8, sizes 1, 3 and 6: every split, merge and class change, two enlargements |
| `bcache` | is a block cached once, what does a cached block hold, and how far does the damage of mixed requests go? | 2 threads, 4 blocks, 2 entries, 2 chains, clusters of 2, reads of one block, one write: two threads miss one block, its cluster or two blocks, their requests meet or are answered late, and the cache is full. 1.8 million states, about a minute |
| `vfs` | do vnode counts, hash and entries agree where the spellings of a name meet in the hash? | 2 names, one of them spelled in two ways, paths of one and two names, 4 vnodes, 2 descriptors, 4 first clusters: vnodes run out, names collide, a directory is removed above an open file, a file is opened and removed by another spelling |
| `fat` | do chains, cursors, sizes and contents agree? | 2 files, 2 descriptors, two free clusters of two units, reads and writes of 4 units, one new directory, two disks whose directory has an even or an odd slot free: files grow over a cluster boundary, the disk fills up in mid-write, both descriptors are on one file. 99 thousand states, about a minute |
| `sched_timeout`, `vfs_open_removed` | expected violations, section 6 | as `sched_live`; as `vfs`, with the second spelling in another hash place |

`sync_core`, `queue_core` and `memory_core` check two components each. They share no state and call
no operation of each other, so a run moves one of them, either, with the other at rest; interleaving them would add products of
states and no behaviour of either. What the three properties of `proc_core` say is proved for any number of processes and threads
(section 5), so the smaller bound of `proc_ends` only limits `DyingEnds`.

Bounds in the guards: `MaxCount` (stored occurrences), `MinValue`, `MaxValue`, `MaxRef` (calls
that would leave these are not made), `MaxPid`, `MaxTid`, `MaxPending`, `MaxPage`, `MaxHeap`, `MaxSize`,
`MaxBlock`, `MaxRead`, `MaxVersion`, `MaxFile`, `MaxIO`, `Sizes`, `SeekPlaces`. `MAX_KMESG`, `MAX_KEY`,
`SERIAL_PORT_BUFF_SIZE`, `nMaxEntry`, `nMaxHashIndex`, `MaxVNode`, `MaxFD`, `ClusterSize`, `ClusterUnits`, `LastCluster` are the code's, made small.
Symmetry is used in `sched_core` over the two threads that are not the boot thread, in `queue_core` over threads and message types, in `memory_core` over processes, in `vfs` over the two spellings (which
only `Fold` and `Bucket` tell apart, and these give both the same) and in `fat` over descriptors, never with a liveness property.

`CHECK_DEADLOCK FALSE` is given in `queue_core`, `proc_core` and `proc_ends`: all threads of `KMesg` or `ProcLife` may sleep
with nothing left that sends (messages come from threads alone), or everything has ended or the
bound on processes is exhausted. The other runs check deadlock.

## 4. Fairness

* `SchedEvents!FairSpec`: weak fairness of `Schedule` (the loop of `kernel_scheduler` runs until it
  finds a ready thread), of what the current thread is half through with (`GoesOn`: the return from `wait_event`, the second halves of
  the shell's wake-up and of `kclose_thread`), and of the handling of expired timeouts
  (one interrupt handler); strong fairness of `GivesUp`, that the running thread yields, ends, suspends or goes to sleep: user code is
  diverted to its preempt function by the timer, kernel code reaches `kernel_scheduler` by itself. `GivesUp` is one disjunction over all
  threads and ways, so which of them happens is left open. It is strong because interrupts interrupt: an action in two halves, or an expired timeout,
  disables it for a while. A higher level
  starves a lower one, which the code intends, so `ReadyThreadRuns` and `WokenThreadReturns`
  promise a turn as long as no better level has ready threads (`Outranked`); what they show is that the
  rotation of a level's queue lets nobody be overtaken for ever. Neither is promised to a suspended
  or killed thread.
* `CritSect!SectFairness`: weak fairness of a woken thread that tests the flag again (it gets its
  turn, as `WokenThreadReturns`) and of `leave_cs`; individual starvation is possible (a woken
  thread can lose to one that barges in), so the property is that the section goes on being used.
* `ProcLife!FairSpec`, which `MCProcLife!MCFairSpec` bounds: strong fairness of the sniper, which the round robin (`ReadyThreadRuns`) and
  its time-critical level justify, and weak fairness of a thread that skips messages without
  sleeping.

Memory, heap, cache and files have no liveness properties: their calls are single actions, or sleep
for the disk driver, whose interrupt or timeout is an event of `SchedEvents`.

## 5. Theorems

All proofs are checked from nothing by TLAPS (SMT, Zenon, LS4), for **any** number of threads,
events, semaphores, slots, levels, processes, pages, blocks, clusters, files and entries, under the named assumptions of the
modules (the constants have their types, null values are not members, the lazy level is the lowest).

| theorem | statement |
|---|---|
| `SchedEventsProofs!SpecIInv` and its corollaries | `TypeOK`, `QueuesMatchStates`, `LinksMatchObjects`, `WaitersSleep`, `NoWaiterWithStoredOccurrence`, `CurrentIsReady`, `SleepersAreLinked`, `TimeOutsHaveWaiters` |
| `SchedEventsProofs!SpecTokens` | `SchedEvents` implements `EventTokens` |
| `KSemProofs!SpecNoSleeperWithPermit`, `SpecSleepersAreLinked`, `SpecOpenSemaphoresLive` | nobody sleeps beside a permit or behind a closed semaphore; open references stay valid |
| `KSemProofs!SpecRefines` | `KSem` implements `AbstractSemaphore` |
| `KSemProofs!SpecMutualExclusion`, `SpecFreeSectionHasTaker` | mutual exclusion, no lost wake-up |
| `KMesgProofs!SpecTypeOK`, `SpecCountCoversMessages`, `SpecSleeperHasNoMessage`, `SpecEventSleeperIsLeftAlone` | the ring's indexes, its counter, and the wake-ups |
| `KMesgProofs!SpecInputTypeOK`, `SpecKeysInOrder` | key queues exceed their room by one key at most; within it, keys come out in the order they went in |
| `ProcLifeProofs!SpecThreadsHaveProcess`, `SpecExitIsReportedOnce`, `SpecUndeadNeverRuns` | no thread outlives its process unless an occurrence revives it in the middle of `kclose_thread`; an exit is reported once, for a zombie; the dying never run again |
| `AddrSpaceProofs!SpecTypeOK`, `SpecLiveMemoryIsAllocated`, `SpecOnlyFamilyWrites` | for orderly callers (`Tidy`: neither `GrandForks` nor `Untidy`, so nobody forks or ends with the region attached or detaches it where it is not; finitely many processes), memory in use is not free and only its family writes it |
| `BCacheProofs!SpecTypeOK`, `SpecOneEntryPerBlock`, `SpecCountersMatch`, `SpecCachedIsLatest` | a block is cached once, counters agree, a cached buffer is what was delivered for it or written last, for reads of any length and whatever the disk delivers |
| `BCacheProofs!SpecCachedIsOwn` for `MaxRead = 1` | a cached block holds its own contents unless a request that met another one, or failed, brought it |
| `AddrSpaceProofs!SpecFreeSpaceIndexed`, `SpecHeapPromise` (of `MemPool`) | the lists of a pool agree and no two neighbours are free; `MemPool` implements `AbstractHeap` |
| `BCacheProofs!FatSpecIInv`, `FatSpecChainsApart`, `FatSpecCursorsRight` (of `FatFile`), for `~ DirGrows` and disks whose files have no cluster more than their size needs | every entry has its own clusters, enough for its size; every open vnode knows its end and its cursor |
| `BCacheProofs!FatSpecFilesKept` (of `FatFile`), under the same conditions | `FatFile` implements `AbstractFile` |
| `VFilesProofs!SpecTypeOK`, `SpecVNodesCounted`, `SpecOneEntryPerName`, for paths of at most two names | vnode counts, no vnode in the hash that is freed, one entry per name and directory, for any spellings and hash |
| `VFilesProofs!SpecOpenIsOnDisk`, `SpecOneVNodePerFile`, also where `SpellingsMeet` | directory entries of what is open, one vnode per file |

**The scheduler.** `IInv` is the conjunction of the checked invariants and of
`InputWaitsHaveNoTimeOut`: the wake-ups for keys and signals cancel no timeout, which is harmless
only because waits for them never have one; without that part a step of the keyboard would break
`TimeOutsHaveWaiters`. `Closing` is the thread in the middle of `kclose_thread`, which may be linked although it does not sleep, and
`HalfDone` says what the two operations in halves have to rely on: who is closed or being woken is not the one who does it. The links of `torn` events are
left out of `LinksMatchObjects`. No part is inductive alone: that queues stay well formed needs that a thread is
linked where its state says; that only ready threads run needs that only ready queues are scanned
and that running threads are not linked in events; and so on. `ChangeStateMoves`, `UnlinkWaitObjUnlinks` and
the lemmas of `LinkLemmas` say what moving a thread and unlinking a wait object do; then there is
one lemma per action. The refinement adds `Calls` (a wait object names the event its thread called
with, and its thread has no result yet) and maps every action to one of `EventTokens` or a stutter. `EventTokens` is about the
events that `inc_event_count` may be called with (`TokenEvents`): `kbd_event` hands out no tokens, its wake-ups only pick a thread.

**Semaphores.** The length of the link never exceeds `-nValue` while anybody waits, and the event
then stores nothing. Equality would be wrong: a killed waiter leaves `nValue` lower. For the
references, `References(s)` is the set of calls of create and open not closed yet, and `nRefCounter` is
never below its cardinality. Again equality would be wrong: a dead process leaves its references
counted. The last close happens at a counter of at most 1 by someone who has a reference, so nobody
else has one. A thread sleeps only on a semaphore its process has open, so on an allocated one.

**The critical section** counts: a free section with waiters has a stored occurrence or an awake
thread that will test the flag again.

**Messages.** The counter is never below the number of unread slots, so the scan of `ksend_kmesg`
finds a slot, and `kwait_kmesg` searches the whole ring before it sleeps.

**Processes.** Whoever sleeps for its own end has a request in the sniper's queue (`DyingHaveAsked`). So
when a message wakes it by mistake the sniper still has work, and it keeps the processor until it
has carried out all of it: the woken thread is gone before it could run. An exit message is
made in the step that turns its process from live to zombie and goes to one thread, and only the thread that takes it
frees the zombie (`ExitsNameZombies`, `ExitsDiffer`); both hold until a process is killed twice (`corrupt`). A thread whose process is gone is `"stray"`: an
occurrence found it between `kprocess.c:838` and 857, and from its first step on nothing is promised.

**Address spaces.** A page has one owner, an entry of one space or the region (`OneOwner`); entries
that are not writable are those a live process has from its parent (`ReadOnlyFromParent`); a space counts its
process and the live children (`Families`), so a parent's space outlives the children that
map its pages; the region counts those that have it attached (`RegionCounted`). Grand forks break
`Families`; untidy forks, ends and detachments break `RegionCounted`, hence `Tidy`.

**Heaps.** The invariant (`Good`) is: positions increase, a block ends before the next one begins (`Apart`),
the size lists hold just the free blocks (`Indexed`), and between two free blocks there is a third one
(`Parted`). "No two neighbours are free" alone says nothing about a block in the middle of a
merge, so `Ready` exempts one block from `Indexed` and `Parted`; `MergeKeeps` shows that a step of the loops
keeps it and what it leaves on either side, `RunIsShort` that each loop makes one step at most, and
`MergedSteps` that the recursive function which stands for a loop exists, by the least number for which it
would not. `SplitKeeps`, `AllocateKeeps`, `EnlargedKeeps` and `FreeKeeps` compose these. Each says that blocks in
use but one stay as they are, which is the refinement: what `AbstractHeap` calls regions are the blocks in
use, apart because blocks are.

**The cache.** `Good` says of a cache value that chains, hash and counters agree; insertion and
eviction keep it, whichever thread was interrupted where, because insertion looks again after the disk.
For contents, a block that is not cached is as on the disk (`UncachedIsOnDisk`). What it enters is what `content` gets in the same step, and `content` changes otherwise with the buffer or when a block leaves the cache
(`CachedIsLatest`), whatever is delivered. Whose contents those are is another question: `Delivered` gives a request that met no other
one its own blocks, so everything else is among the `doubtful` (`CachedIsOwn`).

**Key queues.** Between its test for room and its write the remote shell holds the processor, so only the
keyboard's interrupt can fill the queue meanwhile, and that stops at the room: one key too many is the
worst case. The next index to write is `(nNextOut + nTotalKey) % MAX_KEY` (`InputInv`); the order of keys follows
from arithmetic on the ring (`MultiplesApart`, `RemainderUnique`, `RingStep`).

**Files.** In mid-call there are more references than descriptors: the directories a path was walked to.
`Good(s, g, dk)` says of the vnodes and hash `s`, the handles `g` (descriptors and such references) and the disk
`dk` that counts are right, the vnodes in use form a tree of depth two, chains link exactly those, and
what is in use has its entry and one vnode per file. `OpenGood`, `NewGood`, `CloseGood` and `TunnelGood` show
that each routine keeps it, with one handle more or less, and the calls are sequences of these; the
invariant is `Good` with the descriptors as handles. A vnode is freed with its last handle, so
its directory is still in use as long as another vnode below it is; this is where paths of more than two names would fail
(`NearRoot`, from `DirsAssumption`). That a new vnode is the only one of its file follows from entries being unique: an entry whose file is
in use is one `find_vnode` finds. The last step needs `SpellingsMeet`, and so does that no open file is removed: `find_vnode` looks in the place
of the spelling it is given. Without it counts and entries are still right, one vnode per file is not.

**The FAT file system.** `FatIInv` says that the disk is `Sound`, that a descriptor names an open file and stands
within it (`FdOK`), and that `holds` is what the files hold. `Sound` has three parts. `EntriesApart`, which is
`ChainsApart`, is about the entries on the disk only. `Settled`, of the directory and of open files, says of a vnode
what `CursorsRight` says, and that its chain ends with the mark. `OpenRight` ties the vnode of a file to its entry: the
first one with its name, and the same first cluster. None is inductive alone: a file grows into free clusters only, which are in no chain that
ends with the mark; its cursor is right afterwards only because its last cluster was; and an entry that
gets the size of its vnode at `kclose` has clusters enough only because the vnode was settled. The
size in the entry is allowed to be stale while the file is open, never larger than the chain.

The argument follows the routines of `fat32.c`. `LseekSettled`, `IncreasedSettled`, `RawWriteSettled`,
`SlotsReadSettled`, `ClosedSound` and `CreatedSound` each say what its routine leaves of a sound state,
failures included, and what it changes: the cursor of one vnode (`OnlyCursor`); one file's end, by clusters that
were free (`Grows`, `Grown`); some units of one chain and nothing else on the disk (`Stored`, `Put`); two slots of the
directory (`Added`). `Kept` then says that every other chain is as it was, so other files hold what they
held (`FileWritten`), which is the refinement; no file that is open gets shorter (`Serves`), so descriptors stay
within theirs. Chains and loops are recursive functions over `0..n`.
That such a function exists, and what is so of its value at n, is shown by taking the least number where it
would fail (`LeastIsMember`, `LoopKeeps`, `GrowTurnsKeep`, `WriteTurnsKeep`, `ReadTurnsKeep`), which needs no
induction scheme. `raw_write` may write less than it is asked to (section 6); the theorem says that it
counts what it wrote. `~ DirGrows` excludes only that a directory is made in a directory without room, where the
code really gives one cluster to two directories (section 6). A directory may still not be
made for want of a cluster, and files may fill the disk.

Only model-checked: liveness (out of reach of the prover: `ReadyThreadRuns`, `WokenThreadReturns`, `SectionIsUsed`,
`DyingEnds`).

## 6. Where code and comments disagree

* Run `sched_timeout`: **no timed wait ever ends by its timeout.** `check_waitobj_timeout` asks
  whether the thread has no active wait object before it frees the one that expired
  (`schedule.c:210`). The thread stays in `TS_WAIT` with nothing that would wake it; `kdelay` hangs.

* Run `vfs_open_removed`: **an open file is removed** when the name is spelled otherwise than at open. `vnode_remove_file` looks for a vnode by
  the hash of the exact spelling (`vfs.c:498-519`), while the file system takes any case, and the short name, for the name (`fat32.c:2286`).
  The comment at `file.c:823` says that a file which is open cannot be removed. `OneVNodePerFile` in `VFilesOpen.cfg` shows the second vnode of such a file.

The following can be seen by adding the property to a configuration or by changing a constant in it:

* `PROPERTY UnreadIsKept` in `Queues.cfg`: **an unread message is overwritten** after messages were taken out
  of order from a ring that has wrapped around (`kmesg.c:67`). The counter then stays too high for ever.
* `INVARIANT ClosedThreadIsTerminated` in `SchedEvents.cfg`, `INVARIANT NobodyStrays` in `ProcLife.cfg`: **an occurrence revives a thread that is being closed.**
  `kclose_thread` sets `TS_TERMINATED` and releases the wait object later, with interrupts on (`kprocess.c:838`, `857`). `inc_event_count` does not look at
  the state (`event.c:439-467`): the occurrence is spent, the thread is ready, and `krelease_thread_struct` refuses it (`883`).
* `INVARIANT ProcessListIntact` in `ProcLife.cfg`: **a second request to kill a process takes a zombie off the
  list of live processes** (`kprocess.c:1091`); with a lone zombie all processes are lost.
* `INVARIANT SleeperHasNoKey` in `Queues.cfg`: **`getchar` falls asleep beside a key** that arrives between
  its test and its sleep (`kbd.c:580`).
* `GrandForks = TRUE` in `Memory.cfg`: **the space of a live ancestor is released** (`LiveMemoryIsAllocated`), and grandparents write
  what a grandchild maps (`OnlyFamilyWrites`). `detach_addr_space` counts down every
  space of the chain (`kprocess.c:1055`), also those above one that stays in use; the comment at
  1059 says it decrements the reference counter and releases the space when it reaches zero.
* `Untidy = TRUE` in `Memory.cfg`: a process that ends or forks with the region attached frees or shares a page
  the region still has (`memory.c:264`, `paging.c:493`); one that detaches it twice, or without having attached it, counts it down for
  the others, and `close_shmem` frees their page (`memory.c:316-322`).
* `MaxRead = 2` in `BCache.cfg` (`CachedIsOwn`): `read_blk_cache` enters block f+i under number f+2i (`bcache.c:206`). Reads of
  more than one block happen when a FAT12 floppy is mounted (`fat32.c:2823`).
* `DirGrows = TRUE` in `FatFile.cfg`: **a new directory and its parent get one cluster.** Its cluster is looked
  for before its entry is saved and marked afterwards (`fat32.c:2532`, `2578`); a directory that has to grow for
  the entry takes the same one. The theorems on `FatFile` assume `~ DirGrows` for that reason.

In the models, without a property of their own: the remote shell empties the link of `kbd_event` under its other waiters when a key comes in the middle of its
wake-up (`torn`; `event.c:603-609`, `kbd.c:510-512`); requests of two threads to one disk mix, so each may get the other's block
(`crossed`; `hdd.c:190-321`); `ksem_wait` returns success when the semaphore
was closed (`WaitReturns` after `CloseLast`; `semaph.c:214`); the maximum of `sem_create` is not kept by posting; a parent that
calls `kwait` after its child has ended sleeps beside the zombie (`kprocess.c:1114`: only threads that wait by then are told);
`kill_process` ignores a full queue of the sniper (`kprocess.c:1174`); a queue of keys exceeds its room by one key
when keyboard and remote shell race (`KeysInOrder` speaks of queues within their room); a write through
the cache never reaches the disk, for nothing marks the block dirty (`fat32.c:1033`); a failed
`scatter_read` enters junk (`bcache.c:547`); `raw_write` compares what it wrote with what is left and stops
early at a cluster boundary (`fat32.c:1186`), so writes count less than asked; a file that could not grow
enough is left longer than what was written; `klseek` passes the vnode's offset with the descriptor's, so
`FSEEK_CUR` fails after a read (`file.c:611`); `remove` frees no clusters; a heap that could not grow
completely keeps pages in no block (`malloc.c:150`); a forked child's heap starts empty over the mapped
heap of its parent, so its first allocation fails and leaks a page (`malloc.c:132`).

Met while reading, outside the models:

* `bcache.c:297`: the hit path of `write_blk_cache`, which no file write uses, copies the cache over the caller's
  buffer; `bcache.c:467`: `insert_ex` ignores `nMaxEntry`; `fdd35.c:110-143` marks its track buffer valid before the
  track is read; `blkdev.c:74-107` leaves a dangling list head.
* `vfs.c:304`: `vfs_unmount` frees vnodes of open files; a chunk's `nTotalUsed` is decremented but never
  incremented, so there are only ever 32 vnodes; paths of three names free a directory that is still a parent
  (`file.c:435`); `..` gives a directory a second vnode; opens that sleep for a disk can do
  the same for a file (`fat32.c:2304-2330`); nothing checks that a path's directory is one (`file.c:300`); `kclose` of a descriptor without vnode
  returns an uninitialised value; a process that dies closes nothing.
* `fat32.c:690`: an error of the cache is returned as cluster 0; an empty file with start cluster 0 is
  written over the boot block (`187-194`, `2236`); FAT entries past the end of the disk count as free
  (`735`); a two-slot entry that straddles a cluster boundary makes `mkdir` fail and leaves half of it; a new directory's
  cluster is not zeroed.
* `kmesg.c:181` has a `POPFD` without a `PUSHFD`; `destroy_waitobj` of a free object uses a NULL `pThread` (`event.c:537`); `fat32_vnode_rename`
  writes the new entry with size 0 first.
* `memory.c`: `create_shmem` counts a region whose page it could not allocate.
* `schedule.c:405`: the nice counters have no common reset and drift; `schedule.c:23`: chunks of timeouts are never
  linked, counted or freed; `kprocess.c:1702`: messages that `kwaittid` leaves behind are met by later waits.

## 7. Not modelled

* Consoles: `set_fg_process` relinks the foreground processes while RIGHT CTRL+ESC in the keyboard
  interrupt relinks them too (`vconsole.c:248-345`, `kbd.c:210-232`), and a zombie can be made the
  foreground process and be freed while linked. Planned, section 8.
* Module table and process counts of modules, signal bits and masks, character devices, mouse.
* Mounting below the root, file positions in `VFiles` (they are in `FatFile`), `chdir`, `readdir`, formatting, the conversions of
  FAT12 and FAT16, the byte layout of directory entries.
* Pages that hold page tables, the kernel's mappings, locks of shared regions, several regions, detaching at an address other than the region's.
* Other devices and caches on one disk controller, whose requests cross those of the cache that is modelled; a drive that never raises DRQ.
* A full queue of the sniper: `MaxPending` leaves room for every request.
* Failing allocations inside `kfork` and `kcreate_thread` (`kprocess.c:726`).
* Hardware set-up, descriptors, task switching, V86, VESA, PCI: processor state below the models.
  What interrupts do to the kernel's data is in the actions of the modules above.
* Kernel debugger, disassembler, `stk.c` (the debugger's operator stack), formatting: no shared state.
* User library, shell, GUI, user programs: callers of system calls; the models let any thread make
  any call in any order. Vendored FatFs and the host tools are not part of the kernel.

## 8. Plan

1. `Console`: foreground links against the keyboard interrupt, process death and zombies.
2. `NiceLevels`: the nice counters as an implementation of the level changes `SchedEvents` leaves open.
3. Failing allocations in `kfork` and `kcreate_thread` in `ProcLife`.
4. Composition of `VFiles` and `FatFile`: remove and rename with chains, mounts below the root.
