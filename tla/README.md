# Formal models of the myrtt kernel

TLA+ models of a small RT-Thread kernel for one ARM core, with TLC
configurations that check them on small instances and TLAPS proofs for every
instance. Paths below are relative to `src/rt-thread/`.

## The system

| Part | Source | State | Operations | What makes it correct |
|---|---|---|---|---|
| Threads, scheduler | `src/thread.c`, `src/scheduler.c`, `src/idle.c` | ready lists, ready bitmap, current thread, lock count; per thread: stat, priority, error, remaining ticks | startup, exit, yield, delay, suspend, resume, control, enter/exit critical, `rt_schedule` | ready queue exact; the most urgent READY thread runs; round robin among equals; lock respected |
| Tick, timers | `src/clock.c`, `src/timer.c`, `src/irq.c`, board timer | tick, timer list; per timer: deadline, ACTIVED flag | start, stop, control, `rt_timer_check`, `rt_tick_increase` | a timer fires once, not early, also across the wraparound; a stopped one never fires |
| Semaphores, mutexes | `src/ipc.c` | value, waiters, owner, hold, original priority | init, take, trytake, release | no lost or doubled token; exclusive ownership; priority inheritance and its end |
| Small heap | `src/mem.c` | block list, lowest free block, a semaphore | `rt_malloc`, `rt_free` | blocks partition the heap; live blocks never overlap or move; no two free neighbours |
| Memory heap objects | `src/memheap.c` | block ring, free list, available size | init, alloc, realloc, free | as above; free list holds exactly the free blocks; available size exact |
| Devices, serial | `src/device.c`, `components/drivers/serial/serial.c`, board driver | reference count, open flags, receive ring | open, close, read, receive interrupt, console output | bytes read in order, newest ones kept; the console prints whole lines |
| Completion | `components/drivers/src/completion.c` | flag, waiters | init, wait, done | lists stay exact |
| Shell | `components/finsh/*` | input line, `rx_sem` | receive indication, input loop, command dispatch | no input is left in the ring while the shell sleeps; argument bounds |
| File systems | `components/dfs/src/*`, `components/dfs/filesystems/ramfs/*` | descriptors, mount table, RAM files | open, close, read, write, unlink, mount, lookup | files are byte strings under names; a path is served by the nearest mount above it |
| Objects | `src/object.c` | per-class lists | init, detach, find | an object that stays listed is found |
| Services | `src/kservice.c` | none | formatting, strings, `__rt_ffs` | bounded output, the digits that were meant |
| Start-up | `src/components.c`, board code | none after start | init calls in order | nothing is used before it is there; leaves the state `Init` of `Kernel` describes |
| CPU support | `bsp/qemu-vexpress-a9/cpu/*` | registers, stacks, switch flag | context switch, interrupt entry and exit | a thread finds its registers and its I bit again |
| Kconfig library | `tools/kconfig-frontends/libs/parser/*` | expressions, symbols with cached values, menu tree, `.config` | parse, compute, set, check for loops, read, save | the tree says what the file says; what is saved is what was set; every symbol within its dependencies |
| `conf`, `mconf` | `tools/kconfig-frontends/frontends/*` | where the walk or the menus are | ask, set, search, load, save, leave | every question comes to an end; what is highlighted is what is changed; a session that ends without a question leaves nothing unsaved, unless a load failed in it |
| `lxdialog` | `tools/kconfig-frontends/libs/lxdialog/*` | window, highlight, cursor, what is drawn | keys, resize, opening again | the highlight and the cursor are where they are drawn |

### How the parts interact

A thread calls the kernel directly. A kernel call disables interrupts, changes
lists and fields, enables interrupts to the level it found, and then calls
`rt_schedule` if someone may have become more urgent or the caller has given up
the CPU. The board timer's interrupt runs `rt_tick_increase`: time slice, then
`rt_timer_check`, whose callbacks put timed-out threads back into the ready
queue and call `rt_schedule` themselves. The UART interrupt fills the serial
ring and calls the shell's indication, which releases a semaphore. A switch a
handler asks for is made when the handler ends.

### What is hard

- An interrupt may come between the end of a call that took the caller out of
  the ready queue and its `rt_schedule`: the handler then switches away, and the
  call's `rt_schedule` runs much later, when the thread has been woken.
- `rt_schedule` (`scheduler.c:62`) returns with interrupts still disabled when
  the caller is itself the pick. Only `rt_mutex_take` enables the level it found
  when it ends; after every other call the thread goes on with the I bit set.
- A time-out races a release, a hand-off, a promotion, or another time-out.
- The timer list is not sorted; a timer waits for those linked in front of it.
- Priority inheritance with several waiters, or several mutexes.

- A handler may pick a thread twice, the interrupted one the second time; the
  frame of an interrupted thread is put together from two stacks.
- Lists are walked, and `stat`, `open_flag` and `available_size` are read, without
  a lock that keeps them from changing.
- The configurators keep what they show in variables of three moments: before a
  key, when a box was left, and now.
- `.config` is replaced by two renames, between which the process may die.

`PROJECT.json` lists these and the other hazards with their lines.

## Modules

| Module | Contents |
|---|---|
| `Lists` | the intrusive lists as sequences: removal, the timer list, the ready queue with its bitmap |
| `Kernel` | the kernel proper: threads, scheduler, tick, timers of threads, semaphores, mutexes, interrupts; its properties |
| `SemPromise` | what a counting semaphore promises, with no thread states, timers or interrupts; `Kernel`'s semaphores are an implementation of it |
| `Threads` | suspend and resume of other threads step by step, nested critical sections, completions |
| `Timer` | every operation of `timer.c`, with callbacks that start and stop timers |
| `Switch` | registers, stacks and the interrupt controller over switches and interrupts |
| `HeapPromise`, `ResizePromise` | what a heap promises its callers, without and with `realloc` |
| `SmallHeap`, `MemHeap` | `mem.c` and `memheap.c` over a semaphore of `SemPromise`; shown to implement them |
| `Shell`, `ByteQueue` | the serial ring, its handler and the shell's input loop; the queue that the ring implements |
| `Device`, `Objects` | opening and printing on the console; an object list with walks that take no lock |
| `MshLine`, `Format` | command lines and `rt_vsnprintf`, a loop round a step |
| `Dfs`, `Ramfs`, `FileStore` | the tables of the file system layer; the RAM file system and what it implements |
| `Startup` | from `_reset` to the shell, in every order the linker may choose |
| `Expr`, `SymStore`, `SymCheck`, `Menu` | the Kconfig library: expressions, symbols, the search for loops, the menu tree |
| `ConfStore`, `ConfFile` | `confdata.c`: all symbols at once, and the files |
| `Conf`, `Mconf` | the two configurators |
| `Menubox`, `Checklist`, `Inputbox`, `LineEdit`, `Textbox` | the boxes of `lxdialog`; what the input box implements |
| `MCKernel`, `MCContext`, `MCServices`, `MCMenuconfig`, `MCKconfig` | instances for TLC; `SmallHeap` is checked as it is |
| `ListTheorems` | lemmas about the operators of `Lists` |
| `KernelProofs`, `ThreadsProofs`, `ContextProofs` (`Switch`, `Timer`), `SmallHeapProofs`, `MemHeapProofs`, `ServicesProofs` (`Shell`, `MshLine`, `Device`, `Objects`, `Dfs`, `Ramfs`), `DialogProofs` (`Menubox`, `Inputbox`, `Checklist`, `Textbox`) | inductive invariants and theorems |

Parts that do not interact through their state are checked in one run, side by
side: `MCContext`, `MCServices`, `MCMenuconfig` and `MCKconfig` have a
variable `part`, chosen in the initial state. The part it names takes its steps
and the others stay where they begin, so that the states of such a run are the
sum of the states of its parts and not their product. What one part uses of
another is in its own module: the semaphore of a heap is that of `SemPromise`, a
box in `Mconf` returns whatever a box can return.

### Kernel and the code

A thread control block is a member of `Thread`; an object is a member of `Sem`
or `Mutex`. `rq` is `rt_thread_priority_table` with
`rt_thread_ready_priority_group`, `cur` is `rt_current_thread`, `lockNest` is
`rt_scheduler_lock_nest`, `timers` is `rt_timer_list`, `timeout` and `armed` are
the fields of each thread's own timer, and the per-thread functions carry the
names of the fields they stand for. A `tlist` node is linked into at most one
list in the code; in the model that is a fact to be checked (and proved), since
the ready lists, wait lists and timer list are separate sequences.

`pc` says whether a thread runs its program (`run`), has ended the body of a
call and is about to call `rt_schedule` (`sched`), or is behind it (`back`).
`masked` is the I bit of the thread's CPSR as it is outside kernel critical
sections. `isr` is the handler in progress.

The granularity is the code's own: a critical section is one step, because
there is one CPU; interrupts are possible wherever `masked` of the current
thread is false. Interrupt handlers are not interrupted, since the vector code
does not enable interrupts, so `TickIsr` (up to `rt_timer_check`), each round of
`rt_timer_check` (`FireTimer`), and its end (`LeaveIsr`) are steps between which
no thread runs. `SemIsr` is a handler that releases a semaphore, as the
UART's does through `finsh_rx_ind`.

`rt_schedule` inside a handler sets `rt_current_thread` at once and the
registers are switched when the handler ends; `IsrSchedule` is the first, and
the second is the subject of `Switch`. In `Schedule` the three cases of
`rt_schedule` are disjuncts; the one without a switch sets `masked`.

What is abstracted: stacks, entry functions and thread names; the object
container lists (see `Objects`); `rt_thread_defunct`, which nothing reads;
`rt_current_priority`, which is only written; the value an inactive timer keeps
in `timeout_tick`; the board's interrupt acknowledge. A tick interrupt that
arrives while the tick handler runs is lost in the board's `rt_hw_timer_isr`; the
model takes one tick per interrupt and says nothing of real time.

What a program may do is `Calls`. Programs call only what their context
allows: no blocking call with the scheduler locked (it would switch nothing
and run on, suspended), no priority change of a thread that is not started.

### Threads, Timer and Switch

`Kernel` takes three things as one step that the code does in several; each has
a module of its own in which the steps are apart. In `Threads`,
`rt_thread_suspend` and `rt_thread_resume` read `stat` before they disable
interrupts (`pc` is then `suspend` or `resume`), and `rt_thread_resume` enables them
between unlinking (`ResumeUnlink`) and linking (`ResumeInsert`). One thread at most
looks after another, and nobody looks after that one: two threads that resume
the same third one may link it twice, and the assumption says so. In `Timer`,
`rt_timer_start` has a window between its two critical sections (`TimerStart`,
`TimerStamp`, `TimerLink`) and `rt_timer_stop` tests the flag before its own and
clears it behind (`TimerStop`, `TimerUnlink`, `TimerClear`); `FireFirst` is a round of
`rt_timer_check` with one call its callback may make; `quiet` (timers that were
stopped) and `left` (ticks still to pass) are history. In `Switch` the words that the
assembler pushes and pops are the state: `cpu`, `stack`, `tcb`, `irqstack`, and
`prog` is history, the registers as the thread left them.

### SmallHeap, MemHeap and the code

`hdr` holds the block headers in use, each at its offset from `heap_ptr`; a
header that `plug_holes` merged into its neighbour is dropped, because nothing
must reach it any more, and a step of the model that did would be an error in
TLC. `lfree` is the code's pointer as an offset. `heap_end.prev` is kept as
the code keeps it: `rt_malloc` does not set it, and nothing reads it.

`Malloc` and `Free` are the part of a call up to `rt_sem_take(&heap_sem, ...)`;
`Resume` is the end of a take that had to wait. The holder of `heap_sem` may be
preempted, so each round of the search (`Walk`), the carving of a block
(`Carve`) and each round that moves `lfree` (`AdvanceFree`) is a step. The part of
`rt_free` behind the take, with `plug_holes`, is one step (`TakeBack`): nothing
outside `heap_sem` reads what it changes, and the invariants are about the state
it leaves. `heap_sem` itself is not the semaphore of `Kernel` but the one of
`SemPromise`, which `Kernel` is shown to implement; its waits are for ever.

A caller frees only regions it was given and has not freed; the code checks
nothing else of a pointer than that it lies in the heap. A null pointer, an
address outside, a size of 0 and one larger than the heap change nothing. The
contents of regions and `magic`, which nothing reads, are left out, and sizes
do not wrap when they are aligned. `heap_sem` is released before `rt_malloc`
returns; the region becomes its caller's in the same step as the release.

`MemHeap` has the ring of blocks with `next` and `prev`, the free list in its
order, and the two counters; `rt_memheap_realloc` gives the lock back and takes it
again between its three critical sections, and `rt_memheap_alloc` reads
`available_size` before it takes it. `rt_memheap_free` writes that counter up to three
times, for the block and for the header of each neighbour it merges: the first write is
`TakeBack`, each other one `AddHeader`, and `owed` says what is missing. An `alloc` that
reads the counter in between may give up although the list has room: the code does so,
and no property says otherwise.

### Console, files and start-up

In `Shell` the handler is `IsrEnter`, one `IsrByte` per byte that the UART holds
and `IsrLeave`; bytes arrive at any time. The thread's loop is `GetChar`, which
reads one byte, `Take`, which waits on `rx_sem`, and one action for each kind of
byte. In `Device` one thread opens and closes while any thread prints:
`SaveFlags`, `Write` and `RestoreFlags` are `rt_kprintf`'s three steps, and opening
is `Activate`, `SetFlags`, `MakeRing` and `CountRef`. `MshLine` and `Format` work on
the bytes of their input, a round of the code's loop a step. In `Ramfs` an entry
and its bytes are two blocks of a heap that may refuse either, and a descriptor has a
pointer to the entry and its own copy of the size. Nothing refuses to open a file twice,
to cut it or to unlink it while it is open: the test of `dfs_file.c:35` gets a null
pointer (`dfs_file.c:32`), and `dfs_ramfs.c` has none. So the copy and the pointer may be
out of date, and the model goes on with them as the code does: a write through an older
size cuts what others have appended, or lands in the file that has the block by now.
Where such a call leaves the blocks of the files, `Astray`, the model ends (`wild`): what
is overwritten there has no meaning in it. Calls are taken one at a time, as one calling
thread makes them; nothing in the code serializes two, and only the shell's `ls` calls
the layer. `Dfs` has the windows of `dfs_mount`; a path
is kept as it is typed, in parts between slashes, and `dfs_normalize_path` walks
over the parts as the code does, `up_one` included.
`Startup` runs the registered functions of one level in every order.

### The configuration tools

The C functions change the symbols they are given and those they meet on the
way; the operators of `SymStore` and `ConfStore` take the store of all symbols and
return it. `Menu` starts from the statements that the grammar reduces and does
the actions of `yconf.y` with `menu_finalize`. `ConfFile` has a step for each file
operation of saving, each of which may be the last of its process; a rename may
fail, and a write, which the code does not look at, may leave the last line out.
With `KCONFIG_OVERWRITECONFIG` it is `.config` that is opened and written; `hurt`
is history and says that, by one of the two ways, it is not whole.
`Conf` and `Mconf` keep the calls that are open as a sequence. The boxes keep
`choice`, `scroll` and what is drawn in each row or cell, since a key draws only
some of them again; `resized` and `last` in `Menubox` are history.

## Runs

| Run | Instance | Shows |
|---|---|---|
| `sched` | `main`, `a`, `b`, `idle`; priorities 1, 0, 1, 3; slices of one tick; delays of 1 and 2; tick of 8 values | exact ready queue, the scheduler lock holds, no delay ends early |
| `fair` | three threads of one priority, `a` computes for ever; slices 2, 1, 2; delays 1 and 2; tick of 12 values | round robin, every delay ends |
| `sem` | `main` more urgent than `a`, a semaphore from 0 and a mutex, waits of -1, 0, 1, 3 ticks, delays, a releasing interrupt handler, a locked scheduler | no lost wakeup, exact wait lists, whole mutex with a promoted owner, `SemPromise` |
| `handoff` | three threads of different urgency, one mutex, recursive takes, waits for ever, delays | the most urgent thread runs, a take comes back as owner, priority restored |
| `nested` | two threads, two mutexes, waits for ever | **violated**: a thread keeps a promoted priority after two nested mutexes (`ipc.c:142`, `ipc.c:195`) |
| `promote` | as `handoff` | **violated**: the new owner of a handed-over mutex is not promoted for the more urgent waiter left behind (`ipc.c:205`, `ipc.c:151`) |
| `heap` | three threads (symmetric), heap of 76 bytes, headers and least blocks of 12, alignment 4, requests of 0, 1, 24 and 77 bytes | whole chain, exact owners, no split holes, exact `lfree`, one thread inside; `RT_NULL` only when nothing fits; `HeapPromise` |
| `context` | `Threads`: four threads of three priorities, sections nested twice; `Timer`: three timers, one periodic, periods of 1 and 2, tick of 6 values, three starts; `Switch`: three threads, two interrupts, two choices per handler | exact ready lists, switches to READY threads, timers in time and flags exact, registers kept |
| `services` | `MemHeap`: two threads, pool of 172 bytes, headers of 24, sizes 1, 30 and 50; `Format`: every mix of flags, widths, precisions and qualifiers over boundary numbers of a word of ten bits, buffer of 8; `Device`: two printers; `MshLine`: all lines of up to six characters; `Ramfs`: two files, two descriptors, two bytes, calls in any order, one after the other; `Objects`: three objects, two of one name; `Dfs`: two mounters, five typed and four looked-up paths | ring, free list and counters exact, `ResizePromise`; the console is open as a stream when it is printed on; `FileStore`; searches find what stays; mounts keep apart; formats, lines and paths are taken as they are meant |
| `live` | `Shell`: ring of 3, line of 2 cells; `SmallHeap`: two threads, 60 bytes; `Startup`: delay of 2, 8 ticks | bytes in order and all of them read; every heap call returns; the start finds all it uses and ends with the shell |
| `menuconfig` | a tree of eleven entries, two files of which one can be written, a name to load that has none, two changes, three open calls; menus of none and four items in windows of two and three rows; fields of three cells; member lists up to six; texts up to nine lines | what is shown, highlighted and edited is what is selected, set and saved; the pager moves by lines and pages and comes back to the page it left |
| `kconfig` | files of up to nine statements; 4096 graphs of two symbols and a choice of two members; no `.config` or one of two, one change, one death of the process or one failing rename or write, saving through a temporary file and in place; every mode of `conf` | tree as written, loops found, files hold what was set, `conf` settles |

State machines are checked for deadlock too. In the runs of several parts
(`services`, `live`, `menuconfig`, `kconfig`) only a part that is not the active one may
stay as it is, and one that is at its end (a text printed, a command called, a tree
built, a search over, memory used that is not the file's), so that an active part
with nothing left to do is found. Not so in `context`: in `Threads` every thread may
come to wait for a completion that nothing completes, with interrupts disabled.

Why these sizes are enough to be interesting: three application threads are
what a hand-off with a second waiter, and round robin with a thread in the
middle, need; two mutexes are what nesting and a promoted owner that itself
waits need. The tick has so few values that every run wraps it many times;
the due window is half the range, and the longest wait lies inside it, as it
does in the code. `SemMax` and `HoldMax` bound the value and the recursion
depth at 2: the code tests them only against 0 and 1.

The heap of 76 bytes holds up to five blocks: enough for a block between two
free ones, for holes merged on one side and on both, for splits that leave
exactly a smallest block and ones that are not made, and for a heap that is
full. Requests of 0 and 77 bytes take the early returns. The pool of 172 bytes
holds up to four blocks with its tailer. A ring of three bytes wraps, fills and
overwrites; a line of two cells wraps. A window of two or three rows over four
items scrolls by one and by a page, and has rows near both edges.

The two violated properties come from the comments in `ipc.c`. With two threads,
or one mutex at a time, both hold (`sem`, `handoff`), so the runs also tell how
many threads or mutexes it takes to break them.

### Fairness

`FairSpec` of `Kernel` assumes that a handler runs to its end; that the tick
interrupt is taken when interrupts are enabled again and again (the hardware
keeps the request pending, hence strong fairness); and that a thread inside a
kernel call gets on with it when it has the CPU again and again, since a handler
takes less than a tick period. Nothing is assumed of programs. `RoundRobin` and
`DelayEnds` are stated under the premise that interrupts are enabled again and
again: the code does not ensure this (`scheduler.c:62`), and without it they fail.

`LiveSpec` of `MCServices` assumes of the shell that a handler runs to its end
(weak fairness of `Isr` and `IsrLeave`), that it finds the UART empty at some time
(a round of its loop takes less than a byte on the line) and that the shell's
thread gets the CPU again although handlers interrupt it (both strong). Of heap
calls it assumes that a thread inside one gets the CPU again; weak fairness is
enough, since a waiter that was given `heap_sem` keeps it until it runs. The
start-up goes on until it has ended.


## Proofs

The theorem modules prove, for every value of the constants that satisfies the
modules' named assumptions, what the runs check on one instance. Each of them has
an inductive invariant, a lemma for each piece of a call, one for each action,
and then the temporal step. Parts that one module proves about side by side give
their invariants names of their own. `ListTheorems` has the lemmas on list operators that
`Kernel` and `Threads` share: what `RemovedOK`, `InsertedOK`, `RotatedOK` and
`TopOK` say carries the ready queue; and the arithmetic of the tick, `DueIsOver`
(what `rt_timer_check` finds due has no tick left) and `TickGoesOn`.

### Kernel

`IInv` is the conjunction of `TypeOK`, `ReadyQueueOK`, `TimersOK`, `WaitersOK`,
`NoLostWakeup`, `MutexOK`, `RunningIsReady` and `IdleReady`. None of them is
inductive alone. That a wakeup inserts a thread into the ready lists only once
needs to know that a waiter is not READY (`WaitersOK`); that a time-out takes a
thread out of the right list needs to know that a running timer belongs to a
suspended thread (`TimersOK`); that a caller is in the ready queue needs
`RunningIsReady`; and that `rt_schedule` finds a thread at all, so that the CPU
goes to a READY one, needs `IdleReady`, which holds since the idle thread calls
nothing. All seven of the others follow for any program, and so do the action
properties `LockHolds` and `NeverEarly` and the whole refinement of `SemPromise`
(`SemaphoresImplement`; an extra invariant says that who waits has no error from
an earlier call). `NeverEarly` speaks of `left`, the ticks that have yet to come,
and `rt_timer_check` only of a deadline that wraps: `Counted` says that a running
timer's deadline is `left` ticks ahead, around the wraparound, as long as ticks
are left. It needs an assumption that the comparison at timer.c:137 needs and no
code checks: no time is longer than half the range of the tick
(`TickAssumption`). With a longer one, a deadline far ahead looks past.

The other properties depend on what the programs call, and their theorems name
the condition:

- `HighestRuns`, when no thread calls `rt_thread_control` or `rt_mutex_release`
  (`PrioritiesStay`). It fails otherwise: neither call reaches `rt_schedule` after
  lowering its caller. The invariant is `TopRuns`.
- `TakeOwns`, when takes wait for ever or not at all (`NoTimedTakes`): a take that
  times out does not own. The invariant is `TakersOwn`.
- `PrioRestored`, when no thread calls `rt_thread_control` (`NoControl`) and who
  owns a mutex neither owns nor waits for another (`OneEach`, a condition on the
  states of the behaviour). The invariant is `OrigIsOwn`: the priority saved in a
  mutex is its owner's own, which a mutex taken inside another one breaks. With a
  single mutex nothing has to be asked of the states (`OneMutexRestores`).
- `OwnerPromoted`, under the same conditions, when besides the first waiter is
  always a most urgent one (`FirstIsMostUrgent`): wait lists are in the order of
  arrival, and the waiter that gets the mutex is not promoted for those behind it.
  It needs `OwnersStarted`: `rt_thread_startup` would set a promoted owner back.

The runs `nested` and `promote` show that the conditions of the last two cannot be
dropped. The assumptions of the module are that the idle thread has the last
priority and calls nothing, that the main thread is more urgent, that priorities
are below 255 (the value `original_priority` has in a free mutex), and that
slices are positive.

### SmallHeap

`IInv` adds to the parts of `HeapOK` what `heap_sem` and the calls look like
(`SemOK`, `JobOK`), that a search stands on a block and has passed none that fits
(`SearchOK`), and that every block is at a multiple of the alignment
(`AlignedOK`). `SemOK` lets one thread at a time change the chain, and any other
thread in a call has a block or none (`Has`); `SwallowOK`, `SplitOK` and
`PluggedOK` say what the three operators do to a whole chain; two blocks of a
whole chain do not overlap, which with `BlocksOwned` keeps regions apart.
Theorems: `HeapWhole`, `NullOnlyWhenFull`, and `HeapImplements`, the refinement of
`HeapPromise`. `HeapAssumption` asks for sizes that are positive multiples of the
alignment.

### MemHeap

`IInv` is `Shape` (the ring of blocks is whole, aligned, without two free
neighbours), `FreeOK` (the free list has the free blocks, once), `HighOK`, `Sized`
(the counters: `available_size` with the headers still to add is what is free, and
they are owed while a thread adds them), `SemOK` (what the semaphore knows of who
is inside), `JobsOK` (where a call stands), `RegionsOK` and `OwnedOK` (a block in use
belongs to a region or to a call under way). `rt_memheap_realloc` lives in three
critical sections, and between them anything may happen to the block's
neighbours: `JobsOK` says only that the block is still the caller's, and how large
it is. `available_size` is the sum of the sizes in the free list, `Total`, a
recursive function: `TotalIs`, `TotalPrepend` and `TotalWithout` of `ListTheorems` say
what it is after an insertion and a removal. They are proved with `UpTo`: the
numbers of 0..n for which a claim holds are a set, and it is all of 0..n, for it has
no least exception (`LeastOK`). Theorems: `PoolStaysSound`, `NullOnlyWhenFull` (a search
that finds nothing means that no free block was large enough) and `PoolImplements`,
the refinement of `ResizePromise`: besides what `HeapPromise` says, a region in use may
change its size where it stands and reach into no other.

### Services

For `Shell`, `IInv` is `TypeOK`, `LineTypes`, `NeverQuiteFull`, `SemOK`, `NoticeOK`
and `EchoOK`. `NoticeOK` is what keeps input from being left behind: while the
shell sleeps with bytes in the ring, a handler is in progress that will still
call the indication. `RingIsQueue` is the refinement: the ring with its two
indices and its flag is the queue of `ByteQueue`, whatever its size.

For `MshLine`, `LineIInv` ties the cells to the line. `ArgsSplit` says of the arguments
read so far that each stands in the cells as it was typed with a zero behind it, and
that the arguments of the whole line are these and then the ones that begin where
the call stands. `ArgsOf` is recursive from one place of the line to the next;
`ArgsExist` shows that such a function exists for any line, with the set of the lengths up
to which it does, and the lemmas on it unfold one step, as the code takes it.
`CommandsGetArgs` follows when the command is called: by then no argument is left, or
`argv` is full.

For `Device`, `DeviceIInv` ties the flags, the ring and the count to where the
opening stands, and holds while nobody but the shell and the printers opens the
console (`KeepsConsole`): `PrintsStream` is `ConsoleStreams`.

For `Objects`, `ObjectsInv` says that some numbering of the nodes rises along `next`
round the list up to the head, which is last as well as first, and that a walk
has no object in front of its place that stayed and was not seen. A new object
gets a number below all others; a walk on a node that is taken out goes on where
the node pointed to, or turns round on it. `SearchesComplete` follows at the end of
the walk.

For `Dfs`, `SlotsKept` says which slot a mount under way holds and that nobody else
has it. `MountsStayApart` follows: that a path is not taken twice is decided and
published in one critical section.

A path is normalised part by part, and what a typed path means is said of all its
parts at once: the names kept are those behind which the parts never lead back up
(`KeptIn`, by counting names and dot dots). `KeptAfter` says what one part more does to
them: it keeps them, adds itself, or takes back the last one, which is there while
the path stays below the root (`OneKept`). `NextPart` says the same of the text, and
`UpFromName` that `up_one` takes back just the last name. So every round of
`dfs_normalize_path` leaves the path of the parts so far, with a slash (`RoundIs`,
`RoundsLead`), and `NormalIsMeant` follows without induction over data: the rounds are
a function on an interval of numbers. For a lookup, a path is one
that begins with another (`Begins`), two that begin the same path begin each other
(`ShorterLeads`), and the longest match is there because the matches are finitely
many (`FiniteGreatest`). `PathsAsMeant` has both.

For `Ramfs`, `FilesInv` is `Files` (names stand in the list once, bytes agree with
sizes), `Descs` (an open descriptor has the name of a file and stands inside it as far as
it knows) and `Listings` (a name that stayed since the opening is listed or stands behind
the place). That a descriptor knows its entry is no part of it, as the code does not keep
it so: `Lost` are those that do not, and `FileMove` says of every call that it makes
others lost only by changing the length of their file (`LosesFew`) and is a call of
`FileStore`, through a lost descriptor a `LostCall`, or leaves the files as they are.
`EntryRewritten`, `EntryPrepended` and `EntryUnlinked` say what a change of one entry does
to the contents of all names, `OverOK` and `OverBehind` what a write does to bytes,
`StillListed` what an unlink does to a listing; `AstrayIsLost` says that only a call
through a lost descriptor leaves the blocks of the files. `RamfsImplements` follows.

### Switch

For `Switch`, `IInv` is `Shape`, `StacksOK`, `HandlerOK`, `FlagOK`, `GicOK` and
`RegistersKept`, the property itself. The frames on a thread's stack are tied to
where the thread was interrupted or switched (`StacksOK`), and what a handler has
pushed and set aside to the interrupted thread (`HandlerOK`, `FlagOK`).

### Threads

`IInv` is `TypeOK`, `QueueInv`, `WaitersOK`, `TimersOK`, `KeepOK`, `HeldOK`,
`StaleOK` and `ResumeOK`. The last two are about the windows: what a caller has read
of `stat` may be stale, but not in the way that would link a thread twice, and
between `ResumeUnlink` and `ResumeInsert` the thread is in no list. The
assumption that nobody looks after a thread that looks after another is used
here and nowhere else. Theorems: `ReadyListsExact`, `SwitchesReady`.

### Dialogs

For the menu box, `BoxIInv` is `BoxFrame` (numbers in range, the highlight in the
window, the window in the list), `RowsDrawn` (every row drawn shows the item it
stands for, the highlight is drawn at the highlighted row and nowhere else) and
`PositionLeft` (what is saved when the box is left is the item the user acted
on). `LayoutOnItem` says that a box reopened at a saved place highlights that
item, whatever the height. `HighlightIsFollowed` puts them together. For the
input box, `FieldIInv` is `FieldTypes` and, while the box is open, `CountersAgree`
and `FieldWindow`: the three counters name one place, and every cell shows the
text although a key draws only up to the first blank. `BoxEdits` needs both: it is
the refinement of `LineEdit`, whose user knows only what is seen, the cells and
the cell of the cursor, and never `pos`. It rests on `InputboxAssumption`: the
texts a box is opened with fit `dialog_input_result`. `dialog_inputbox` copies
them with `strcpy` and no test (inputbox.c:56), so that is a duty of its callers.

For the list of a choice, `ListIInv` is the window in the list, the rows drawn, and
`PickedOne`: behind a key that picks, the highlighted item is the only one picked.
`ChoosesShown` is what the run checks.

The pager keeps a dozen variables, all of which follow from one number: `TextIInv`
says that the state is the page that begins at a line (`PageAt`). A key moves to the
page of another line; going up, the code counts newlines backward through the
text, and `BackFromPage` is that arithmetic. The keys that jump to a search result
are assigned round by round; `KeysMatch` follows from where each round starts.
`PagesFollow` puts the parts together: keys skip no line of a text that ends in a
newline, each key on the screen stands for one result, and after a jump the page
that was left comes back.

### Timer

`TimersInv` is `TimersSound`, the property, with `Ahead` and `TimersOut`. `Ahead` says that
while ticks are left of a timer's time, `timeout_tick` is that many ahead of
`rt_tick`, at most half the range; `DueIsOver` is the fact about the comparison
`current_tick - timeout_tick < RT_TICK_MAX / 2` that makes this enough (it is false
while ticks are left, on both sides of the wraparound), and `TickGoesOn` carries
it over a tick. `TimersOut` says that a timer is not in the list in the windows of
the calls, and that a stopped one is neither in the list nor about to be. What
`TimersInv` says of one timer is `Good`; `OthersGood` keeps it for the timers a step does
not touch, and `CallbackOK` says what a callback leaves behind. Theorems:
`TimerInvariance` and `TimersFireInTime`. `TimerAssumption` gives a timer one user,
a thread or callbacks, and bounds its time by half the range of the tick.

### Only model-checked

- Liveness: `RoundRobin`, `DelayEnds`, `InputServed`, `CallsReturn`, `StartsUp`. The
  prover has no support for fairness.
- What recursive operators compute: the configuration library and its front ends
  (`Expr`, `SymStore`, `SymCheck`, `Menu`, `ConfStore`, `ConfFile`, `Conf`, `Mconf`),
  where the C functions recurse over expressions and menus. A module with such an
  operator has no theorem, nor have those built on it.
- `Format` (`PrintsAsMeant`, a part of `TextsAsMeant`): it compares the loops over digits
  with a recursive meaning of the number, which takes induction over the number.
- `Startup`: its steps are few and fixed, and TLC visits all of them but for the
  length of the delay.

## Not modelled

- The calls of `dfs_file.c` that only look up and pass on;
  the string loops of `kservice.c`; the coprocessor setup and the exception
  vectors other than IRQ; the object class lists of every class (one list of
  `Objects` stands for all).
- `nconf`, `gconf` and `qconf`: the same library behind other widgets. The generated
  scanner and parser; `Menu` starts from the statements they reduce.
- Negative offsets to `dfs_ramfs_lseek`, which pass its signed comparison; reads and writes
  through a descriptor of the root directory; names of `RAMFS_NAME_MAX` bytes and more.
- Threads that end are linked into `rt_thread_defunct` and stay there: nothing
  takes them out, and nothing in the models reads that list.

While modelling, these places were met where the code does something else than
its reader would expect. The two in `ipc.c` are violated runs; the models have
the others as the code has them:

- `kservice.c:62`: the digit tables have `0` twice, so that every digit of a
  hexadecimal number from ten on prints as its predecessor.
- `timer.c:139`: a one-shot timer whose callback starts it again loses its ACTIVATED
  flag when the callback returns, and can then not be stopped.
- `mem.c:42`: a free block that just fits, at the very end of the heap, is not found.
- `cmd.c:41`: `list_thread` may walk for ever on the node of a thread that has ended.
- `dfs_fs.c:178`: the mount table is searched for the path as it was typed, so that
  `/a/` is mounted over `/a`; and a path that climbs above the root loses its first
  slash, or comes out as no path at all.
- `mem.c:29`: `RT_ALIGN` of a size within three bytes of 2^32 wraps to 0; the sizes of
  the models are aligned without a wrap.
- `textbox.c:287`: text behind the last newline, as the notes of `mconf.c` have it,
  loses a line when it is scrolled sideways, though `textbox.c:223` says "Reprint
  current page to scroll horizontally"; the property is stated for texts that end in
  a newline.
- `dfs_file.c:32`: `if(fullpath = NULL)` drops the normalised path, and with it the test
  for a file that is open. A file opened twice and made longer through one descriptor is
  cut again by a write behind the end, as the other knows it (`dfs_ramfs.c:236`); after
  `O_TRUNC` or an unlink the other reads and writes freed memory. `FileStore` promises
  nothing of such a call but that it changes one file at most or ends all promises.
- `dfs_ramfs.c:292`: an unlink of a name that a listing has given makes it skip one.
- `scheduler.c:62`: the way back without a switch leaves interrupts disabled.
- `expr.c:499`: the comment names `m` where the code (rightly) takes `y`.
- `confdata.c:829`: between the two renames there is no `.config`; and when the second
  fails, the old file has its other name.
- `confdata.c:781`: with `KCONFIG_OVERWRITECONFIG` set (docs/kconfig.txt:37) `.config` is
  opened for writing itself, without a `.old`: a process that dies before it is closed
  leaves no whole configuration anywhere.
- `confdata.c:824`: what `fprintf` and `fclose` return is not looked at, here and in
  `conf_write_autoconf`: a file cut short, on a full disk say, becomes `.config`,
  is reported as written, and nothing counts as changed any more.
- `confdata.c:414`: `conf_read` puts the count of changes back before it opens the file.
  Changes, then a name typed to load that no file has, then ESC (`mconf.c:918`), and
  the program ends without a question (`mconf.c:962`): `NothingLost` says so, by its
  history variable `forgot`, and fails without that.
- `menubox.c:258`: drawn again after a resize, a box may set `scroll` to 0 and keep its
  old `first_item`, and then shows other items than its rows stand for.
