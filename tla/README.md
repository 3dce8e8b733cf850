# A TLA+ model of pinion64

pinion64 is a microkernel for x86_64: it gives a client (an operating system
built on top of it) threads, preemptive scheduling, fault delivery, interrupt
taps and page mappings. This directory models its core logic, from the boot
loader's modules to the client's calls, checks it with TLC and proves most of the
invariants, and one refinement, with TLAPS.
Paths below are relative to `src/src/pinion64/` in the repository.

## 1. The system

| Component | Code | State | Operations |
|---|---|---|---|
| Scheduler | `scheduler.c`, `ccb.s` | the list `schedule_head`..`schedule_tail`, `idle_tcb`, `ccb->active_tcb` | add, remove, schedule; load and unload the core |
| Thread table | `tcb.c` | `tcb_table` | `tcb_new`, `tcb_del`, `tcb_get` |
| Allocators | `alloc.s`, `pmm.c` | one free list per kind of object, the next unused frame | allocate, free |
| Fault queues | `queues.c` | three list heads, linked through `tcb->next` | enqueue, take, test |
| Interrupt routing | `interrupt_vector.c` | four routes per vector | add and remove a route, fire, reset |
| API | `api/*.c`, `api.s` | per TCB: state, taps, saved registers | thread, interrupt, fault, paging and memory-map calls |
| Handlers | `init.c` (`fault`), `interrupt.s` | | timer, `int 0xFF`, page fault, other exceptions |
| Entry and exit | `interrupt.s`, `api.s`, `ccb.s` | the frame and registers in each TCB, the GS base, IST1 | gates, stubs, save, resume |
| Paging | `page.c`, `api/page_*.c` | the four levels of tables | set frames, translate, read flags |
| Physical memory | `pmm.c` | the low and high memory maps, the cutoff | initialise, allocate, read |
| Configuration | `config.c` | the text, cut up in place; the item index | parse, look up, read a number |
| Loader | `load.c`, `api_resolve.c` | the kernel's pages | search, map, copy, relocate |
| Platform | `acpi.c`, `apic.c`, `mp.s`, `start.s`, `log.c`, `port.s` | devices | initialise, write |
| unfold | `../unfold/` | memory map, object list | build both from multiboot, enter long mode |

How they interact. A client thread calls the API directly. A stub of `api.s`
disables interrupts, switches to the core's stack, runs the C function and
enables interrupts again; some stubs then execute `int 0xFF`, which enters
`fault()` as a yield. The timer and exceptions enter `fault()` too. All of them
change TCBs, the run queue, the fault queues and the routes directly; there is
one core (`LIMIT_CORES equ 1`) and no handler is interrupted, so no two of them
overlap. What does interleave is the client's threads, between any two calls,
and between the `sti` and the `int 0xFF` of one call.

What is hard:

* *The post-yield window.* Pause, exit and wait change the caller's state first
  and take it off the core in a second, separately interruptible step.
* *Shared links.* The run queue and three fault queues use one `next` field, and
  no queue knows who is in another.
* *A state that does not tell.* A thread in a fault queue still has the state
  `RUNNING`; a zombie is `SUSPENDED` like any paused thread.
* *Wake-ups.* A wait must not begin after its interrupt was recorded, or last
  after it fires, whatever is paused, resumed, reset or re-tapped in between.
* *Reuse.* A freed TCB is handed out again while queues and routes may still
  point to it, and keeps the fields `tcb_new` does not write.
* *Limits.* Ids, frames, four routes per vector, four taps per thread; pages for
  tables; static arrays for memory maps, modules and configuration items.
* *Entry.* Every gate pushes into the TCB of the thread that the TSS points at;
  which GS base is in use, whether interrupts are on and whose frame is where
  must agree in every window in which a timer interrupt can come.
* *Walks that build.* `page_set` allocates tables on its way down, page by page,
  and stops in the middle when memory or a large page ends it.
* *Shared counters.* `pmm_init`'s second loop goes on from where the first left
  its counters, and there are three ways out of the first.
* *Input from files.* The configuration is parsed in place, names are compared up
  to the end of the shorter, and a segment may be mapped twice.

What makes each component correct:

* Scheduler: the list is well linked and holds exactly the `QUEUED` threads,
  once each; the core always has a TCB, which is not in the list; nobody starves.
* Thread table: one id names one thread; a frame is in one place at a time.
* Fault queues: they hold exactly the threads that faulted and were not collected.
* Interrupt routing: no lost wake-up, no wake-up without an interrupt; a tap has
  a route.
* Entry and exit: pinion finds its own base and interrupts off; a thread gets
  back its registers and goes on where it left.
* Paging: the tables form a tree, and seen through the translation they are a
  function that only `page_set` changes.
* Physical memory: what lies below the cutoff stays pinion's, all that is free above
  is offered, once.
* Configuration: a file of complete lines is read as it is written.
* Loader: the right modules are taken, and the image is in memory as the linker
  meant it before its first instruction.

## 2. The modules

| Module | Models |
|---|---|
| `KernelTypes` | the data of `internal.h`: TCB fields, states, vectors, and `Memory`, the record a handler works on |
| `Scheduler` | `scheduler.c`, `ccb_load_tcb`, `ccb_unload_tcb` |
| `Queues` | `queues.c` |
| `InterruptVector` | `interrupt_vector.c` and the `on_reset` callbacks of `init.c` |
| `ThreadTable` | `tcb.c` and the TCB allocator of `alloc.s` |
| `Kernel` | the API calls, the stubs and `fault()`: the composition of the modules above into one specification |
| `Supervised` | `Kernel` with a client that keeps one documented rule, and a history of faults |
| `KernelProofs`, `WaitProofs` | the theorems about `Kernel`: its lists and its thread table; waiting |
| `SupervisedProofs` | the theorems about `Supervised` |
| `Entry` | the gates and stubs of `interrupt.s` and `api.s`, `idt_init`'s descriptors, `ccb_load_tcb`'s stack, `idle` |
| `EntryProofs` | the theorems about `Entry` |
| `PageTable` | `page.c`: walks, `pcx_set_frame`, the tables of `pcx_init` |
| `Paging` | `page_set` and `page_get` on them |
| `PageMap` | the abstract page table: a function from pages to frames |
| `PagingRefinement` | that `Paging` implements `PageMap` |
| `PagingProofs`, `PageMapProofs` | the theorems about `Paging`: its trees; the refinement |
| `MemoryMap` | unfold's map, `pmm_init`, `pmm_alloc`, `memory_map_read` |
| `MemoryMapProofs` | the theorems about `MemoryMap` |
| `Strings` | the `strcmp` that `init.c`, `config.c`, `load.c` and `api_resolve.c` each have a copy of |
| `Objects` | unfold's `multiboot.c`, `object.c` and `init.c`; the searches of pinion's `init.c` and `load.c` |
| `Config` | `config.c` |
| `Loader` | the rest of `load.c`, `api_resolve.c` |
| `Boot` | `Objects`, `Config` and `Loader` as one boot |
| `BootProofs` | the theorems about `Boot`: parser, lookups, object list, loader |
| `MCKernel`, `MCSupervised`, `MCEntry`, `MCPaging`, `MCMemoryMap`, `MCBoot` | instances for TLC |

### Threads, faults and interrupts

**State.** A handler runs without interruption, so a C function is an operator
from a `Memory` to a `Memory`, and a handler is one action that composes them in
the order of the calls: `thread_exit`, for example, is
`interrupt_vector_fire(enqueue(...), ZOMBIE)` as in `api/thread_exit.c`. The
variables of `Kernel` are

* `state`, `next`, `tap`: those fields of every TCB; `id` likewise;
* `runq`: the run queue as a sequence; `next` keeps the pointers as the code
  leaves them, stale ones included. `scheduler.c` follows `next`, the model
  follows `runq`; `RunQueueOK` says that this is the same;
* `qhead`: the heads of the three fault queues, which are followed through
  `next`, right or wrong;
* `route`, `active`: the routes of the mapped vectors, `ccb->active_tcb`;
* `table`, `freelist`, `fresh`: `tcb_table`, the allocator's list, frames never
  handed out;
* `pc`: where a thread continues: in client code, between `sti` and `int 0xFF`
  (`..._w`), or at the `ret` after it (`..._r`).

**Actions.** One per API call, with its early returns, and one per kind of
`fault()`. A call that changes nothing and does not yield (`thread_pull_state`,
`interrupt_get_tap`, a bad id or index, an empty queue) is a stuttering step.
The client is arbitrary: any thread may make any call of `Calls` with any id.

**What is abstracted.** Registers, except where a thread continues; what calls
copy to the client; log output; the two-level shape of `tcb_table`; locks, never
contended with one core and interrupts off. `fired` is bit 15 of a tap.
`OldRouteRemoved` states what this build does when
`interrupt_set_tap` passes a fired tap: `interrupt_vector_page_table` is indexed
out of bounds and what is read there is not a page with a route of the thread,
so nothing is removed. (The read itself is undefined in C; the model takes the
outcome in which the bytes past the table hold no such route.)

**Assumed.** RAM that was never used holds one of `FreshTaps` (TLC: zeros, as an
emulator gives; the theorems hold for any). The idle TCB takes no exception.
Pointers passed to calls are valid. NMI and double fault do not occur.

**Left to `Entry`.** `Kernel` takes a trap as one step. What happens between a
gate and its handler is in `Entry`. SMP is not modelled: `LIMIT_CORES` is 1 and
nothing starts a second core.

### Entering and leaving pinion

`Entry` is the processor and the few words of a TCB that entering depends on.
`pc` is in client code (`user`, before the `int 0xFF` of a stub, or after it), at the
first instruction of a stub (`yield`, `fault`, `irq`), or in pinion. `if`, `gs` and
`rsp` are the interrupt flag, which of the two GS bases is in use, and the stack;
`regs` says whose general registers the processor holds. `frame` and `saved` are
what the processor pushed into each TCB and what `save_state_full` stored there;
`ist` is the TCB that IST1 of the TSS points behind. What calls and schedules decide
is `Kernel`'s subject: here the queue is a round robin and threads block and
wake at will. `back` is an auxiliary variable: where a thread's own code goes on,
which is what the saved frame is compared with.

One step is a stretch of code in which interrupts are off, or one instruction where
they are on. So a timer interrupt may come at the first instruction of the stub
behind a trap gate, between a call's `sti` and its `ret` or `int 0xFF`, and in
`idle`, which runs on pinion's stack and is entered by a schedule, not by a gate.

### Paging

The memory of the tables is one record: `pages`, the 4-Kbyte pages that `pge_alloc`
can hand out, and `base`, the next one. An address is a page number and a table
has `N` entries instead of 512, an even number, because `pcx_init` fills the upper
half. Table entries hold a page number and the set of flag bits; the bits of the
flags that `page_set` passes unconverted (below) are or-ed into the page number,
as the code does. `pcx_set_frame` is three turns of `Descend` and a write; `page_set`
a fold over the region. A null from `pge_alloc` becomes `Wild`, the address minus the
base; the first access through it is a page fault inside the call, which ends it,
unless something is mapped at address 0. A client may map page 0 (`page_set.c:63` looks
at alignment only), and the processor may still hold a translation of it that was replaced:
`null` says so, and `page_set` may then go on to clear and read memory that is not pinion's.
The model ends there (`ret = "wild"`).

`PagingRefinement` adds a history variable, the translation of every page by
`pcx_get_trans`. In these terms `page_set` does one of three things: it changes its
whole region and returns true; it changes a prefix, stops at a large page and returns
false; or it changes a prefix, runs out of memory and never returns. What frame a page
is then mapped to is `PageMap`'s parameter `Entered`: the frame asked for, with the cache
flags or-ed in.

### Physical memory

One action is one turn of a loop: unfold's over the multiboot map, its sum of
sizes, the two loops of `pmm_init`. The three ways out of the first loop are
`CutLow`, `SplitLow` and `EndLow`, each with what it leaves in `i` and `j`. When a write
passes the end of an array `pc` is `overrun` and nothing more is said. `firmware` is
any map of the constant `Map`. A multiboot loader that passes no memory map is left out:
`init_mmap` fails and unfold stops (`../unfold/mmap.c:27`, `../unfold/init.c:48`).

### Booting a kernel

`Boot` composes three modules by `INSTANCE`. `Objects` makes the object list from the
multiboot modules, picks pinion's image and hands over; pinion finds `/boot/pconf`
in the list, and `Config` parses the text that this module contains, one character a
step; `load_kernel` looks up `loader image` in the result, finds that name in the
list, and `Loader` loads the image found at the base that the configuration names.
`named` and `stack` of `Objects` and `Loader` are the lookups of `Config`.

A path is a sequence of characters in which the eight letters of `pinion64` are one
element; a text is a function from offsets, NUL-terminated, so that a pointer is
an offset and writing NULs into it is seen by all pointers. A cell of `Loader`'s memory
is a word that remembers where it came from: a word of the file, a number, the
address of an API function, or junk. The TLB is a variable, and `Evict` drops any of
its translations at any time, because `pcx_set_frame` does not flush. `PinionPage` are the
pages that pinion's own large pages map, which `pcx_set_frame` refuses and where a stray write
hits pinion. `fixup_kernel` reads the needed library's name through `DT_STRTAB`, and for each
jump slot the symbol and its name: an image may lack either table or have it outside its
segments, and then there is a page fault, or junk is read (`fault`, `garbage`).

The lookups do not guard a null property (`config.c:106`). What `strcmp` does with it
depends on whether address 0 is mapped: for `image` and `base` it is not yet, and the lookup
is a page fault in pinion (`fault` of `Objects`, `null` of `Loader`); for `stack` the kernel
may have been loaded there, and then the item matches and has no value.

## 3. What is checked

| Run | Instance | Properties | Distinct states |
|---|---|---|---|
| `threads` | 3 frames, 3 ids; yield, create, pause, resume, exit, reap, push_state, collect, page faults | `TypeOK`, `RunQueueOK`, `TableOK` | 841 000 |
| `taps` | 2 frames; create, pause, resume, exit, reap, collect, set_tap, reset, wait on zombies | `WaitersUnfired`, `NoLostWakeup`, `WakeOnlyByFire` | 525 000 |
| `fair` | 3 frames; yield, create, pause, resume | `NoStarvation` | 13 700 |
| `faults` | 3 frames, 2 ids; everything, both fault queues | `FaultQueueOK`, `NoLostWakeup`, `TableOK` | 652 000 |
| `exit_returns` | one thread that exits | `ExitNeverReturns` violated | |
| `route_kept` | as `taps` | `TapRouted` violated | |
| `reused_tcb` | as `taps` | `NewTcbInitialised` violated | |
| `entry` | 3 threads and idle; calls, faults, timer, blocking | `Entered`, `ContextKept` | 3 300 |
| `entry_window` | 2 threads that only yield | `YieldReturns` violated | |
| `paging` | tables of 2 entries, 16 pages, 7 tables to allocate; 5 regions, with and without a cache flag | `TreeOK`, `PinionKept`, `RefinesPageMap` | 10 400 |
| `memory_map` | 2058 ascending maps of up to 7 stretches | `SortedPrivate`, `AllOffered`, `OverrunOnlyIfMany`, `BootEnds` | 58 200 |
| `boot` | lists of up to 4 modules of 7 kinds; 3072 texts of three lines and an ending, all of up to 4 characters, 5 that end in an incomplete line of `loader`; 464 images at four bases | `RightObjects`, `ConfigSafe`, `CursorInText`, `ParsedAsMeant`, `LookupExact`, `PtrExact`, `LoadsSafely`, `ImageAsLinked`, `BootDecides` | 382 000 |

`RunQueueOK`, `TableOK`, `WaitersUnfired`, `NoLostWakeup` and `WakeOnlyByFire`
hold for *any* client, including one that pauses, resumes and reaps threads that
are in a fault queue. `FaultQueueOK` does not, and cannot: a client that pauses a
faulted thread before it is collected, and resumes it, overwrites its link.
`pinion.h` requires the thread given to `thread_pause` to be "in a ready or
running state", which a faulted thread is not; `Supervised` is the kernel with a
client that keeps that rule, and nothing else is restricted (resuming, reaping
and setting the state of uncollected threads are refused by the code itself).

`Entered` says that pinion always runs on its own base with interrupts off and that,
whenever they are on, the gates lead into the TCB of the thread on the core.
`TableOK` says that every frame is in one place: in the table, on the free list, or never
used. `faults` has fewer ids than frames, so that `tcb_new` finds no slot for a frame
it has allocated and must give it back.

`ContextKept` compares the frame in each TCB with the place where that thread's own
code goes on: no other thread's frame ever lies over it.

`TreeOK` and `PinionKept` are about every table reachable from the root after any
sequence of calls: no page serves as two tables, none was linked before it was
cleared, pinion's own large pages are never taken apart. `RefinesPageMap` is the
refinement above. All three end where a null table leads to mapped memory.

`AllOffered` says, for every way through the loops, that the regions a client can read are
together exactly the free memory above the cutoff, and that they are disjoint, in ascending
order and no nearer to each other than two free stretches of the firmware's map. It does not
demand one region for each stretch: a `pmm_init` that merged touching ones, as
`pinion.h:356` would have it (below), satisfies it too. `OverrunOnlyIfMany` says that the
arrays are passed only by a map with more regions than there is room for. Both assume an
ascending map (`Sorted`).

`ParsedAsMeant` compares the items with an independent reading of the file, line by line, as
it was before the parser cut it up. It is stated for files whose lines have three words
(`WellFormed`); `CursorInText` and `BootDecides` are for every text, and `ConfigSafe` says
of every text on which a lookup reads through a null pointer that it is not such a file.
`LookupExact` and `PtrExact` add that no name begins another, because `strcmp` here
(`config.c:25`) stops at the shorter end. `RightObjects` is stated for module lists without
the traps of names cut short and of names that begin others (`Clear`). `LoadsSafely` and
`ImageAsLinked` are about images as a linker lays them out (`WellLaid`): segments that begin
on pages and share none, outside pinion's pages; the tables that `fixup_kernel` reads, in
their file parts and not relocated. The first says that nothing is read or written outside
them, the second compares memory at the kernel's first instruction with what the linker
meant, both through the page tables and through what the TLB may still hold.

The four violations are disagreements between the code and what it says:

* `__PINION_thread_exit` is declared `noreturn` (`include/pinion.h:119`), and
  returns when the timer comes between its `sti` and its `int 0xFF`: the
  schedule overwrites `SUSPENDED` with `QUEUED`, and the `int 0xFF` of the thread's
  next run finds it `RUNNING`. The same window makes `thread_pause` of oneself
  and `interrupt_wait` return at once.
* `interrupt_set_tap` sets a route for each tap (`api/interrupt_set_tap.c:40`), but
  leaks the old one when the old tap has fired, until the vector has no slot left.
* `tcb_new` "returns a pointer to a new, initialized TCB" (`tcb.c:26`), with the
  taps of the thread that had the frame before.
* The stubs save a "thread continuation" (`internal.h:412`), and a call goes on at the
  `ret` behind its `int 0xFF` (`api.s:63`). The gate of `int 0xFF` is a trap gate
  (`interrupt.s:162`): until the stub's `cli` a timer interrupt pushes its frame over
  that of the trap, on the same IST1, and the thread is resumed at the stub, which
  saves a frame that no trap pushed. From then on the thread goes through the stub
  for ever. With an interrupt gate the property holds.

Further disagreements were seen while modelling. The models do what the code does,
and the properties above are stated around them:

* `page_set.c:40` says that no mapping is changed on failure; the loop (`:89`) stops
  where it is. `PageMap!SetSome` is this behaviour.
* `page_set` converts its flags into `raw_flags` and then passes `flags`
  (`page_set.c:68`, `:89`): a client's READ, WRITE, EXEC and USER bits land on other
  bits of the entry, the cache bits in the frame number.
* A mapping is replaced without flushing the TLB (`page.c:173`).
* A null page for a table is used (`page.c:157`). Page 0 may be mapped by a client; then the
  call does not even fault, but clears that page and takes it for a table.
* `pmm_map_low_space` and `pmm_map_high_space` have room for three and eight entries
  where the checks admit six and sixteen (`pmm.c:29`), and `pmm_get_high_memory_map`
  admits the index behind the last (`:37`).
* Memory between pinion's end and the cutoff is handed out whatever the map says of
  it (`pmm.c:90`), and the cut takes an ascending map for granted (`:121`).
* `pinion.h:356-358` guarantees that regions are "disjoint, page-aligned, and to have at
  least one page of non-free memory between them". They are disjoint. But nothing aligns
  them or merges those that touch: two adjacent free stretches of the firmware's map come out
  as two touching regions, and an unaligned one as it is. `memory_map` has maps of the first
  kind.
* The name of a boot module is cut at the length of the first module's
  (`../unfold/multiboot.c:76`).
* Without a match the kernel search takes the entry behind the list (`load.c:281`);
  only DT_JMPREL is relocated (`:261`); an unaligned segment is copied to pages that
  were never mapped (`:312`); a symbol that is unknown, as those of the object API of
  `pinion.h:406` are, resolves to 0 (`api_resolve.c:65`).
* The last line of a configuration without property or value leaves an item with a
  null pointer (`config.c:71`), which a lookup compares (`:106`): a text that ends in
  `loader ` stops pinion with a page fault, unless an earlier line answers the lookup.
* `fixup_kernel` reads through `DT_STRTAB` and `DT_SYMTAB` without looking whether the image
  has them (`load.c:190`, `:198`, `:248`).
* `fault()` never writes the `fault_addr` that `fault_get_pagefault.c:31` returns.
* The search of `ccb_new` never advances (`ccb.s:62`), which one core does not notice.

**Bounds.** Two threads are enough for one to wait and another to act on it; three are
needed for a list with a middle element, a queue behind the running thread, and two faulted
threads with a third to collect them. Ids run out in `faults` (2 ids, 3 frames), frames in
`taps`. One zombie tap, set and withdrawn, exercises routes, their four slots, and the leak;
`TapIndex` is complete, but the clients of the runs use one index per queue. A second tap
for the same queue is the case in which `NoLostWakeup` fails (section 4, *Waiting*), and the
theorems say so. Frames are interchangeable, hence the symmetry; `fair` checks liveness and
uses none. There is no unbounded counter: no state constraint is needed.

`entry`: three threads are one on the core, one whose frame could be overwritten and one
that queues between them. `paging`: sixteen pages have a leaf table, a table of each level
and pinion's large pages; the regions stay within a table, cross a table of each level,
reach the large pages, and map page 0; seven tables are fewer than the regions need, so
memory runs out at each level, with page 0 mapped and without. `memory_map`: the marks place
regions below, across and above the cutoff, which is 16 or 32; the arrays have room for 3
and 3 entries and the list for 6, so that each overruns. Maps without any free stretch are
left out. `boot`: lists are longer than the static array has room for; texts have more lines
than the index has items, and all texts of up to four characters find the corners of the
parser; images have up to three program headers in any order, overlapping or not, with and
without their tables, at a base that is aligned or not, is 0, or lies so high that the
segments reach pinion's pages. Every end of the boot occurs (`past`, `fault`, `wild`,
`null`, `garbage`, `overrun`), and well-laid images with jump slots are loaded to the end.

**Fairness.** `FairSpec` adds weak fairness of `fault_timer` and of nothing else. The
LAPIC timer is programmed as periodic (`init.c:147`), every thread and the idle
loop run with interrupts enabled (`rflags` 0x200200, `idle`'s `sti`), and no
handler or call loops. Clients need not yield, return or make any call.

`Entry!FairSpec` adds weak fairness of the processor's code and strong fairness of the
timer interrupt: it is pending again and again, and taken when interrupts are on,
which is repeatedly but not for ever. It is used only to refute `YieldReturns`: the
counterexample is fair to both. `MemoryMap` and `Boot` have weak fairness of the boot code
alone, which nothing interrupts.

Deadlock is checked for the kernel and the entry paths: the timer can always fire. It
is not checked where the program may stop: the boot ends, `page_set` may never
return, and a map may overrun its array.

## 4. What is proved

### Kernel

`KernelProofs` proves, for every value of the constants that meets the named
assumptions (`FrameAssumption`: idle and the null pointer are no frames, there is
an id; `VectorAssumption`: the three fault vectors and 0 are vectors, unused RAM
holds taps; `TapAssumption`: clients pass taps and vectors):

* `TypeCorrect`: `Spec => []TypeOK`. Part of it is that the core never lacks a TCB.
* `RunQueueCorrect`: `Spec => []RunQueueOK`.
* `TableCorrect`: `Spec => []TableOK`.

The inductive invariant is
`IInv == TypeOK /\ RunQueueOK /\ TableOK /\ ActiveOK`. `ActiveOK` says that the
thread on the core is live, and `RUNNING` unless it stands in the window of a
pause, an exit or a wait. It is what connects the parts: a call that queues a
thread must know that it is neither the caller nor already queued; firing a
vector may queue waiters only, and without `ActiveOK` the running thread could be
one of them; freeing a thread must not free the one on the core.

The argument has three layers.

1. *Lists.* `MakeReadyRunQ`, `PullRunQ`, `RemRunQ`: appending a thread that is not
   `QUEUED`, taking the head, and bypassing any element keep the links, the
   absence of repetition, and the agreement of list and states. `EnqueueRunQ`: a
   fault queue may write the link of a thread that is not in the run queue.
   `FreeListCons`, `AllocFields`: the same for the allocator's list.
2. *Functions.* `ScheduleRunQ` for `scheduler_schedule`; `FireFires` for
   `interrupt_vector_fire`, by composing four `NotifyFires`; `ResetFires`.
3. *Steps.* `StepInv` reduces the invariant to what a step does to the kernel's
   `Memory`; `CallStep`, `ScheduleStep` and `ResetStep` specialise it to calls
   that keep the caller running, handlers that end in a schedule, and calls that
   end in a reset. One lemma per action follows; `thread_create` and
   `thread_reap`, which change the table, are proved on their own.

### Entry

`EntryProofs` proves, for any set of threads that does not contain the idle TCB
(`EntryAssumption`):

* `EntrySound`: `Spec => []Entered`.
* `ContextSafe`: `Spec => []ContextKept`.

The inductive invariant is `IInv == TypeOK /\ Entered /\ CoreOK /\ FramesOK`. `Entered`
alone is not inductive: that interrupts are off in a handler follows from how it was
entered, and that they are on again after `iretq` from the frame that was saved. `CoreOK`
says at each location on which stack and with whose registers the core stands. `FramesOK`
says of *every* TCB that it holds its own thread's registers, a frame with interrupts on,
and that this frame returns either to the thread's own code or to a stub on that TCB's IST1.
The last case is the window of `entry_window`: the proof shows that it damages only the
thread itself. `GateFrames` covers what the three gates have in common; one step per action
follows.

### Waiting

`WaitProofs` proves, on top of `KernelProofs` and from the same assumptions:

* `WaitersCorrect`: `Spec => []WaitersUnfired`, and `WakeCorrect`: `Spec => WakeOnlyByFire`.
* `NoLostWakeupOneTap`: `Spec /\ []OneTap => []NoLostWakeup`, where `OneTap` says that no
  live thread has two taps for one of the three queues.
* `NoLostWakeupByRule`: `Spec => []NoLostWakeup` for every client that gives each queue a
  tap index of its own (`home`), in RAM that holds nothing else at first. The runs'
  clients are such.

The invariant is `Announced`: a thread that has a route and a tap for a queue which is not
empty has been told, that is, the tap has fired. It is about all threads, not only those
that wait, because the queue may fill before `interrupt_wait`. `MarksOnly` says what firing
does, `ResetQuiet` why a reset and the end of `set_tap` restore the invariant, and one
`...Quiet` lemma per action that nothing else disturbs it.

`OneTap` is not a convenience. The attempt to do without it found this: a thread sets tap 0
to the zombie vector, and it fires because a zombie is queued; the thread sets tap 1 to the
same vector, which fires nothing more (`interrupt_vector_fire` takes the first tap that
names the vector), and withdraws tap 0, whose route stays because its fired bit spoils the
index (`api/interrupt_set_tap.c:34`). It now has a route and an unfired tap, and
`interrupt_wait` waits although the queue is not empty. `pinion.h` does not say whether a
thread may tap a vector twice.

### Fault queues

`SupervisedProofs` proves `SupervisedIsKernel` (`SupervisedSpec => Spec`, so all that is
proved of `Kernel` holds), `FaultQueuesCorrect` (`SupervisedSpec => []FaultQueueOK`) and
`SupervisedNoLostWakeup`. `FaultQueueOK` is about the queues of page faults and of other
faults. The zombie queue links through the same field but is not described by it: a zombie
may be resumed or reaped while it is in that queue, so that it holds no particular threads.
The three queues and the run queue share `next`; the argument is that a step which leaves
alone the links and states of the threads that are `RUNNING` off the core (`Spares`) cannot
disturb a fault queue, and that the steps which do not touch a queue are such.
`FaultQueueOK` with `Kernel`'s `IInv` is inductive.

### Paging

`PagingProofs` proves, for tables of every size, every amount of memory and all regions,
frames and flags (`PagingAssumption`, `RegionAssumption`):

* `TreesSound`: `Spec => []TreeOK`.
* `PinionUntouched`: `Spec => []PinionKept`.

Regions may include page 0 and flags are arbitrary. Both say nothing more once a null table
leads to mapped memory (`ret = "wild"`).

`TreeOK` quantifies over the tables that can be reached, which no step can be argued about.
The inductive invariant (`Sound`) has a witness instead: a function `own` that gives each
page that was handed out a level and a place, `serves`, among the tables of that level.
Entry `i` of the table at place `s` may lead only to the page that serves at `s * N + i` one
level down; so two entries never lead to one page. A page that is linked gets its owner, one
that `page_set` writes to as a leaf keeps it. Pinion's tables have places of their own, and
the walk ends at large pages before it can write to them.

`PageMapProofs` proves `PageMapImplemented`: `SpecMap => RefinesPageMap`, for all flags and
regions. A cache flag changes the frame that is mapped, and `PageMap` says to which
(`Entered`, here `OrBits`). `Tidy` says that there is such a witness. A turn of the walk is
followed on the tables before and after, the fold over the region by induction on its
length, and each way `page_set` can end is one of `PageMap`'s three actions. The proof
showed that two arms of the `CASE` in `PageTable!Descend` overlapped, so that their order
was left open; they are now exclusive.

### Memory map

`MemoryMapProofs` proves, for every set of firmware maps (`MapAssumption`) and every size of
the arrays, units that are whole pages (`SizeAssumption`, `PageAssumption`):

* `ClientsPrivate`: `Spec => []SortedPrivate`. From an ascending map no client is
  offered memory below the cutoff, and `pmm_alloc`, which stops only when it meets the
  limit exactly, does not pass it.
* `MemoryOffered`: `Spec => []AllOffered`, and `ArraysHold`: `Spec => []OverrunOnlyIfMany`, if
  firmware reports no empty region (`NonEmpty`: unfold would take it, and the two loops of
  `pmm_init` disagree about which side of the cutoff it is on).

The inductive invariant has a part for each loop: `Ordered` (unfold keeps the order),
`Untouched` (nothing is in the high map before the cut), `RestAbove` (what the second
loop has still to copy lies above the cutoff: this is where the counters that the first
loop leaves matter) and `Above`. `Reaches`, that the cutoff is a whole number of pages
ahead of the allocator, needs no order and is proved from the rounding of the cutoff.

For the other two `CoverInv` says what has been copied so far: `Collected`, a bijection
between the free regions that unfold has come to and the entries of its list; `PassedLow`;
and `Filled`, that the high map is the list from the cut on, its first entry clipped.
`RegionsOffered` draws from it where each region begins and ends, and `InvOffered` that
their union is the free memory above the cutoff. Counting is done once, in `AtLeast`: a set
of firmware regions that holds those of the list's entries `a` to `b` has at least `b - a +
1` elements.

### Boot

`BootProofs` proves, for every set of module lists whose modules start at different
addresses and whose images a linker could have made (`ModulesAssumption`; `Image`: what the
file holds of a segment is not longer than the segment, else the size that `load_kernel`
gives to `memclr` wraps), every size of the static arrays (`SizeAssumption`), and words and
pages of any size (`AddressAssumption`; `2^Bits` is assumed positive because the provers
know nothing of `^`):

* `ParserInText`: `Spec => []CursorInText`, for every text. The text keeps its last NUL,
  which no loop passes.
* `ObjectsRight`: `Spec => []RightObjects`. `ListInv` says of each entry which module it is
  a copy of, before and after the list is moved; `FoundInv` and `StartedInv` what each
  search found.
* `ImagesLoadSafely` and `ImagesAsLinked`: `Spec => []LoadsSafely` and `Spec =>
  []ImageAsLinked`.
* `NullsOnlyFromIncomplete`: `Spec => []ConfigSafe`. In a text of complete lines every item
  that a lookup can come to has its three fields (below), so none has a null property.

The third and fourth share one invariant, `LoaderInv`, for well-laid images: `FramesInv`,
that no two pages have the same frame, and that the TLB agrees with the tables about every
page that was written to; and `ContentsInv`, that what a segment's loops have passed is
mapped and holds what it should (`Wanted`) after as many relocations as were done. A dynamic
section is copied over a part of its segment that already holds the same words; the pages it
would map are not aligned and therefore refused, and that is why the copy hits the old ones.
A relocation entry is read from the image while the image is being changed: it is still the
file's because no relocation goes to what `fixup_kernel` reads (`Read`: entries, symbols,
names), which `WellLaid` demands. That the base and the stack are numbers, whatever the
configuration says, is proved by minimal counterexample over the recursive function
`Shifted`.

Three more theorems say what the configuration is read as, for every text:

* `ReadAsMeant`: `Spec => []ParsedAsMeant`.
* `NamesFoundExactly`: `Spec => []LookupExact`.
* `NumbersReadExactly`: `Spec => []PtrExact`.

`ParsedAsMeant` compares the end of the parse with lines that are counted and sorted, words
that are counted within a line, and strings in a memory that has been written to. The
invariant is `TextInv` and `MeaningInv`. `TextInv` says that the text lies unchanged from
the cursor on. `MeaningInv` has a witness for the sorting: a list of lines, in the order of
the text, whose first `index` rows the items are (`Rows`), and which holds exactly the lines
that end before the cursor (`Passed`). Within a line `Fields` says, for each of the parser's
loops, which words lie behind the cursor and which of them have been cut: a field that was
cut holds what the text held (`Closed`), and no later step writes before the cursor. That
every line has three words is what lets each loop find its field before the newline
(`FewWords`). At the end `Meant` is the list of the items' strings (`MeantIs`): the `n`-th
smallest line start is the `n`-th row's because as many rows lie up to it (`NthOf`).

The lookups follow from that, with no further invariant. Items behind the index have no
section, those before it have all three fields, and where no name begins another `strcmp`
decides equality; so `config_read` finds the items of exactly these names and takes the
least of them. Numbers of one and two digits are worked out from the recursive function
`Shifted`, for words of 8 bits. A text is what lies before the module's NUL (`ModuleList`),
which is all the parser can see of it.

### Only model-checked

`NoStarvation`, `BootEnds` and `BootDecides` are liveness under fairness and out of the
prover's reach, and so is the refutation of `YieldReturns`. What `Shifted` computes for
numbers of more digits, or that overflow, needs induction over their length and is not
stated.

## 5. Mutations

Next to the definitions stand faulty variants, each marked "A bug", which break the
property they are paired with in `PROJECT.json`: a tail that keeps its next pointer, a
queue served in the wrong order, a scheduler without the idle TCB, a freed frame left in
the table, a frame lost when no slot is left, a wait without the check of the fired bits,
a resume that forgets the wait, a reset that does not look at the queue, a fault that is
not announced, a queue that is not linked; a stub that enables interrupts before it swaps
the base, a gate without a stack of its own; a table that is not cleared, a large page
that makes way, a frame that does not advance; a counter that starts over, or at one; a
name that is not looked for behind the directory, a comment that runs past the end, a
value that ends at a blank, items whose fields are mixed up, a lookup of the section only,
a number that ends at the first other character, an empty line that is not passed, a
segment mapped for its file part only or not cleared behind it.

## 6. Not modelled, and why

ACPI, APIC, ports, logging, the descriptor tables' bytes, entering long mode and the start
of other processors program devices, only write constants, or are unreachable with one core;
the tester is a client, and `Kernel` admits every client. `mutex.s` is never contended with
one core and interrupts off. unfold's copy of pinion's own segments (`../unfold/init.c:113`)
is a straight-line version of what `Loader` models. What a write past an array does depends
on the build, and what is at address 0 on the client: the models stop there and say so
(`overrun`, `wild`, `past`, `garbage`). An access through a null pointer where nothing is
mapped is a page fault in pinion (`fault`, `null`). What clients write through the mappings
they set is not followed, and one that writes to pinion's own memory is outside the models.
NMI, double faults and device interrupts, whose vectors `fault()` ignores, are left out.

## 7. Plan

Done: threads, scheduling, faults and interrupts (`Kernel`, `Supervised`); entry and exit;
paging with its abstract specification; the memory map; the boot from modules to the
kernel's first instruction; all of them with proofs of every safety property that the runs
check.

Next, in this order:

1. `ThreadLife`: the life cycle of a thread that `pinion.h` describes (free, suspended,
   ready, running), which `Kernel` implements by a refinement mapping.
2. `RunList`: the run queue with `schedule_head`, `schedule_tail` and pointers followed one
   by one, shown to implement the sequence of `Scheduler`.
