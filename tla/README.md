# Specification and verification of NunyaOS

NunyaOS is a small 32-bit x86 operating system (`src/src`, C with some
assembly) whose aim is hierarchical containment of processes: each process is
started by another one, which gives it a capability and part of its own pages.
This directory holds TLA+ modules of its components, configurations that
model-check small instances with TLC, and proofs of theorems for all instances,
checked by TLAPS. Paths below are relative to `src/src` unless they begin with
`src/`.

Contents: 1 the system; 2 the modules and how they correspond to the code;
3 the runs; 4 where code and documents disagree; 5 assumptions and fairness;
6 the proofs; 7 what is not modelled; 8 what could come next.

## 1. The system

### How it runs

There is one processor. `kernel_main` (`main.c`) programs the interrupt
controllers, enables interrupts, sets up the devices one after another, becomes
the first process (`process_init`) and then the command loop (`cmd_line.c`),
which never ends: it is the root of the tree of processes and here called Root,
or the shell. A process has a kernel stack; all of them share the kernel's data.

Interrupts and system calls enter through interrupt gates, which clear the
interrupt flag. So a handler is never interrupted, and a system call is not
interrupted *until it first waits*: `process_switch` (`process.c:117-159`) ends
with the flag set for whoever it resumes (`interrupt_unblock`, line 158), and
nothing clears it again when a process goes on inside its system call. From
then on the same kernel code can be interrupted, and preempted, anywhere. This
asymmetry is behind most of what is hard here.

The clock interrupts a few times a second (`CLICKS_PER_SECOND` is 10,
`clock.c:13`); `clock_interrupt` wakes all sleepers and, once every
`CLICKS_PER_SECOND` clicks, preempts the current process *inside the handler*,
before `interrupt_handler` (`interrupt.c:94-98`) acknowledges the interrupt.

### Components

| Component | State | Operations | Interacts with | What makes it correct |
|---|---|---|---|---|
| Scheduler, processes (`process.c`, `list.c`) | `current`, `ready_list`, `grave_list`, a state and one list node per process | create, switch, yield, preempt, wait, wakeup, wakeup_all, exit, cleanup | every other part that waits | lists stay well formed; each live process is in one place; first in, first out |
| Mutex (`mutex.c`) | `locked`, a wait queue | lock, unlock | the drive | mutual exclusion; no waiter left behind; it moves on |
| Interrupts, PIC (`interrupt.c`, `pic.c`) | handlers, masks, in-service bits | register, enable, dispatch, acknowledge, wait | clock, keyboard, mouse, drive, page faults | each interrupt acknowledged once; the idle loop hears the clock; no line open before its handler |
| Clock (`clock.c`, `syscall_handler_clock.c`) | `seconds`, `clicks`, a queue of sleepers | interrupt, read, diff, wait, sleep | scheduler, drive, PS/2 | a sleep is short by less than a click, and ends |
| Real-time clock (`rtc.c`, `bin/test_clock.c`) | `cached_time`, the hardware's registers | fetch, convert, interrupt, draw | the program that shows it | the time given is one the clock showed |
| Starting programs (`syscall_handler_process.c`) | a new process, the parent's counters | `sys_run`, `sys_exit`, `sys_yield` | file system, page tables, capabilities, scheduler | counters exact on every path |
| Capabilities (`permissions_capabilities.c`, `syscall_handler_permissions.c`, `syscall_handler_memory.c`) | `permissions_table` | create, delete, set the maximum, inherit | `sys_run`, `process_cleanup` | only the owner uses a capability; none outlives its owner |
| Page tables, page faults (`pagetable.c`) | directory and tables per process, `number_of_pages_using` | map, allocate, delete; map on a fault or kill | page allocator, capabilities | no page owned twice; nobody gets more than its maximum; all given back |
| Page allocator (`memory_raw.c`) | `freemap` | initialise, allocate, free | processes, heap, mouse | a page is given once; two in a row are contiguous while `kernel_main` alone takes them |
| Kernel heap (`kmalloc.c`) | a list of pages, each a vector of slots with headers | `kmalloc`, `kfree` | files, events, windows, interrupt handlers | blocks do not overlap; gaps known |
| Keyboard (`keyboard.c`) | modes, ring buffer, a queue | interrupt, read, read a line | scheduler, window events | keys in order, none lost before the buffer is full; readers woken |
| Windows, events (`window.c`, `window_manager.c`) | bounds, event queue, active window | create, draw, queue and get events | keyboard, heap, graphics | events in order; drawing is clipped |
| Graphics, console, mouse (`graphics.c`, `console.c`, `mouse.c`, `ps2.c`) | the screen, the saved square, the pointer, the cursor | draw, clear, put a character, move the pointer | windows, shell, interrupts | the pointer does not damage the picture; the line shown is the line taken |
| Drive (`ata.c`) | the mutex, a queue, `ata_interrupt_active` | probe, read, write, packets, reset | clock, mutex, interrupts | the blocks asked for are moved; a transfer ends, by data or by timeout |
| Blocks (`disk.c`) | none | read, write any range | drive | the bytes asked for |
| ISO file system (`iso.c`) | open files and directories, one cached block for all | look up, read, seek | drive, heap | a path finds its entry; bytes read are those of the position |
| Descriptors (`fs.c`) | a table per process, one of open files, allowances | open, close, read, write | ISO, processes | one entry per open descriptor; only what is allowed is open |
| Shell (`cmd_line.c`, `fs_terminal_commands.c`) | line buffer, working directory | prompt, line, commands, paths | everything | words as typed; paths fit their buffer |
| Strings (`string.c`) | `strtok`'s pointer | compare, split, print | all | what their names promise |
| Boot (`main.c`) | what comes next, the free map, the masks | the initialisations in their order | all devices | it comes up whatever the devices answer |
| Tests | | | | not modelled |

### What is hard

* *Unprotected windows.* `process_wait` pushes the current process onto a queue
  and only then calls `process_switch`, which disables interrupts
  (`process.c:195-198`); `sys_run` pushes the child onto `ready_list` with
  interrupts enabled (`syscall_handler_process.c:135`); `keyboard_read` tests its
  buffer and then waits; `kmalloc` and `memory_alloc_page` look for room and
  then take it, and interrupt handlers call the first.
* *A handler that switches away.* A preempted process owes the controller an
  acknowledgement, and until it is scheduled again there is no clock.
* *Wake-ups that are hints.* A woken process tests its condition again, and
  others may have been faster (`mutex.c:13-21`, `clock.c:59-65`).
* *State read before a wait and used after it.* `sys_run` checks a capability,
  waits for the drive many times, and reads it; it saves its caller's page count
  and writes it back. `iso.c` waits in the middle of filling its one cached block.
* *Devices with a will of their own.* A drive answers late or not at all, the
  mouse is silent, the real-time clock goes on between two registers.
* *Pointers to processes.* A process is a page. It is given out again after the
  process ends, while parents and capability owners are stored as pointers.
* *Arithmetic at boundaries.* Time of day in two words, and in whole clicks; ranges
  over blocks; the ring's last place; the edge of a window; the end of a line of the
  screen; the largest power of ten.

Each hazard, at its line, with the properties that cover it, is in
`PROJECT.json`; hazards beyond that list are at the end of section 4.

## 2. The modules

| Module | Models | Checked through |
|---|---|---|
| `ProcessList` | `list_push_tail` and `list_pop_head` on pointers, statement by statement | `Kernel` |
| `Kernel` | scheduler, mutex, interrupts, idle loop, preemption, waits for clock, keyboard and drive | `MCKernel` |
| `RoundRobin` | what the scheduler promises: queues as sequences | `KernelRoundRobin` |
| `KernelRoundRobin` | the refinement mapping from `Kernel` to `RoundRobin` | `MCKernel` |
| `Containment` | capabilities, the accounting of `sys_run`, page faults, the end of a process | `MCMemory` |
| `Budget` | what containment promises: a tree of allotments | `Containment` |
| `AddressSpace` | the free map, page tables, the pages of a process from `process_create` to `process_cleanup` | `MCMemory` |
| `Boot`, `Clock`, `Rtc` | initialisation with interrupts enabled; sleeping; reading the time | `MCDevices` |
| `Input`, `Heap` | keys and events; the heap | `MCInput` |
| `Files`, `Iso` | descriptors; the ISO file system | `MCFiles` |
| `Drive`, `Disk` | the driver with its drives; byte ranges on blocks | `MCDevices` |
| `Screen` | drawing, windows and the pointer | `MCDisplay` |
| `Shell`, `Text` | console, line editor, commands, paths; the functions of `string.c` | `MCDisplay` |
| `KernelProofs`, `RoundRobinProofs`, `ContainmentProofs`, `AddressSpaceProofs`, `InputProofs`, `TimeProofs`, `DriveProofs`, `FilesProofs` | theorems | |

Components that do not share state but belong to one question are checked in one
run: its MC module extends them and a variable `part` says which of them a behaviour
runs, the others standing still; in `MCMemory` and `MCDevices` the constant `Parts` says
which may. Their state spaces add up instead of multiplying, and every property is
evaluated on its own part.

### Kernel

A stretch of code that runs with interrupts disabled is one action; code that
runs with interrupts enabled is cut where another process or a handler could
see or change shared state. In every state of the module the interrupt flag is
set, so an interrupt arrives between any two actions, unless the controller has
the clock still in service.

* `lists` holds the head, tail and `next` pointers of `ready_list`, of the
  queues of `clock.c` and `keyboard.c` and of the drive mutex. A process has one
  node. `Enqueue` is `list_push_tail` in four steps, for the pushes that run
  with interrupts enabled; everywhere else the push is one `PushTail`.
* `SysYield`, `SysSleep`, `SysExit`, `SysFile` are a program's entries. `SysFile`
  stands for `sys_run` and for the calls that read files: both lock the drive's
  mutex (`MutexLock`), wait for the drive any number of times (`AtaWait`, a
  `clock_wait(0)`) and unlock (`MutexUnlock`, which wakes one waiter).
  `Spawn`, `Enqueue`, `RunYield` are the last statements of `sys_run`;
  `SpawnFails` is its error returns.
* `KeyboardRead` is the shell's `keyboard_read`. The buffer is a Boolean here.
* `Enqueue` then `Block` is `process_wait` with interrupts enabled; `WaitBlocked`
  is the same with interrupts disabled: the first wait of `sys_sleep`, and
  `mutex_lock`, which disables them itself.
* `ClockInterrupt`, `ClockWakeup` (one turn of `process_wakeup_all`) and
  `ClockReturn` are `clock_interrupt` with `interrupt_handler` around it. When
  `PreemptDue` the process is switched away from and `owes` the
  acknowledgement; `InterruptReturn` is what it does when it runs again.
* `Dispatch` is the second half of `process_switch`: the head of `ready_list`, or
  the idle loop, whose `hlt` is `Halt`. `Resume` is the return from an interrupt,
  to the idle loop's next turn if it came out of `hlt`.

`left` counts the interrupts a sleep still needs; `Clock` models the arithmetic
that decides it. `RoundRobin` has `cpu`, a sequence `ready`, one sequence
`waiting[q]` per queue, and the processes not started; the mapping reads each
linked list into a sequence, leaving out a node whose push is in progress.

### Containment

A process is a `Slot`, the page of its `struct process`; the end of a process
frees the slot and the next process may get it. System calls are one action
each, as they run with interrupts disabled. `sys_run` is a sequence:

| `pc` | code | what happens next |
|---|---|---|
| `user` | | `RunOpen`: check the capability, look the file up |
| `opening` | lines 28-45 | `RunNotFound`, or `RunCount`: save the caller's count (47) |
| `counted` | 48-58 | `RunCreate`: `process_create`, the child is an embryo |
| `created` | 60-66 | `RunMeasure`: maximum and parent of the child, its count |
| `measured` | 67 | `RunRestore`: write the caller's count back |
| `restored` | 70-85 | `RunCharge`: add the child's maximum and test, or clean up |
| `copying` | 87-133 | `RunStart`, or `RunFails`: clean up |

`Cleanup` is `process_cleanup`: the parent's counter, the capabilities, the page.
A write through a dangling parent pointer changes whatever process lives there
now, and is lost if none does. `Budget` is the abstract view: a tree in which
`Start` gives pages away, `Take` uses one, and `End` returns them.

### AddressSpace

Which physical page serves what. `free` is the set of pages whose bit is set in
`freemap`; `at[p]` says which page a process has for each of its parts: the
`struct process`, the page directory, a table, the kernel stack, or a page of memory
by directory and table index. `heap` is what `kmalloc` has taken, and keeps.

* `CreateBegins` begins `process_create` and sets `todo` to the parts it allocates, in
  the order of the code. `AllocFind` and `AllocTake` are the two halves of
  `memory_alloc_page`: find the first set bit, clear it. `pagetable_map` takes a page
  of memory first and then the table it goes into, if there is none yet: `AfterPart`
  puts the table next. Between two allocations, and if `Unprotected` inside one,
  other processes and handlers run.
* `HandlePageFault` is the handler's mapping of one page; its decision on the maximum is
  in `Containment`. `HeapGrow` is `kmalloc_get_page`.
* `CreateEnds` makes the child alive. `ProcessExit` and `CreateFails` end with
  `ProcessCleanup`: kernel stack, `pagetable_delete`, struct.
  `GivenBack` is exactly what the code frees. `pagetable_delete` has two loops
  over `i` and `j` but looks at `q->entry[i]` in the inner one, so of each table only
  the entry with the directory's own index is freed, again and again, and the page
  directory is freed by nobody.
* With no page free the kernel halts, so no action is left.

### Boot, Clock and Rtc

`Boot` is `kernel_main` up to the shell as a sequence `KernelMain` of steps: what
each `xxx_init` does that another part can notice. `at` is the next step. From
`InterruptInit` on, `Raise(i)` (a device asks) and `HandleInterrupt(i)` (the
controllers deliver, in the order of their priorities and through the cascade) fall
between any two steps. `MemoryInit` gives the free map its pages and blocks the cells
0 and 5 as the code does; `MouseBuffer` takes the two pages of the saved square one
at a time. `MouseInterrupt` is the mouse's handler: with the third byte of a packet
the pointer may move, and `SendEventMouseMove` takes an event from the heap, which may
take a page. The keyboard's handler allocates only for a window, and there is none
yet. `WaitEnds` are the waits of `ps2.c` and of the drives, by the port or the clock.

In `Clock` one process sleeps in a machine whose clock ticks. `seconds` is a
word that wraps (`Word` is 2^32 in the code), `clicks` runs to
`CLICKS_PER_SECOND`. `SysSleep` reads the time with interrupts disabled. `Millis` is
the 1000 of the code. `LoadSeconds` and `LoadClicks` are the two loads of the
`clock_read` inside `clock_wait`'s loop; if `Torn`, a tick may come between them.
`ClockDiff`, `TotalMillis` and `MustWaitMore` are the code's unsigned expressions.
`passed`, `begun`, `ended` and `late` are history: the ticks since the call, the part
of a click that was over at the call and at the return, and the ticks since the sleep
was due, bounded by `MaxDelay`, the longest the scheduler keeps a woken process
waiting. `Slept` is the real length of the sleep.

`Rtc` is the hardware clock, `rtc_fetch_time` with one action per register, its
three callers (`rtc_init`, the handler, the system call) and the program that draws
the time. `Update` is the hardware's step, at most once in a fetch. `since` is
history: what the clock showed since the fetch began.

### Input and Heap

`Input` follows a key through `keyboard_map` (modes, shift lock, the restart) to the
ring, whose test for fullness and indices are the code's, or as an event to the
active window. The shell is `keyboard_read` and `keyboard_read_str`: `FindEmpty`,
`ProcessWait`, `KeyboardRead`, `ReadStr`. A character is its number in the order
typed. `got` and `overtaken` are history: what `keyboard_read` returned last, and the
last character that was stored into a full ring.
`GetEvent` takes from the queue's tail what `SendEvent` puts at its head.

`Heap` is `kmalloc` in four steps: `Choose` or `ChooseNew` a page by its
`max_free_gap`, `Locate` the first gap, `Take` it, `Measure` the gaps again; and
`kfree` in two, `Release` and `Measure`. The free vector, the header ahead of a
block and slot -1 for a gap that is not there are the code's.

### Files and Iso

`Files` has a table of descriptors per process and the one table of open files.
`fs_open` is `OpenRefused`, or `OpenBegins` and a step for each turn of its loop
(`PassOver`, `PickEntry`, `EntryOpened`), which goes on after a descriptor it has
opened; `iso_fopen` waits for the drive between the last two. `Restart` ends a
process without closing anything. `Read` and `Write` return what the code returns.

`Iso` reads a small medium whose directory records are given by `Record`. Every
`iso_media_read` is a `Hit` in the cache, or a `Miss`, the wait, `Fill` (the block is
copied to the cache) and `Label` (the cache is given unit and extent);
`Received` is what the caller goes on with, by the place the bytes came from:
the steps of `iso_look_up`, `iso_dread` and `iso_fread`, with `iso_media_seek`'s
arithmetic in `SeekSet` and `SeekCur`. `Fail` and `FailPeek` are a drive that
fails. `got` and `right` are history: how much was read, and rightly.

### Drive and Disk

`Drive` has the driver's variables (`ata_interrupt_active`, its queue, the mutex, the
probe) and the channel's (`kind`, `selected`, `status`, `job`, `medium`), the latter
external: what the driver expects of the hardware. A transfer goes from wait to
wait: `Select`, `Command`, `SendPacket`, `Sleep`, `Data` for each block, `Done`;
`WaitFails` is a wait that ends by an error or the timeout and resets the channel.
`Asks`, `Finishes` and `Breaks` are the drive's steps, each with its interrupt.
A timeout can come at any time if `Fails`, also for a drive that answers later.

`Disk` is `disk_read` and `disk_write`, one turn of their loops per action.

### Screen

`CreateWindow`, `DrawLine`, `DrawArc`, `DrawChar`, `Clear` and `SetBorderColor` give the
process's pen a shape; `WritePixel` and `PixelUnder` are the two halves of
`plot_pixel` for each pixel of it, clipped to the window's bounds: the screen, and
what is kept under the pointer. `Bounds` adds the window's place to its size, as the
code does. `MouseByte` and `MouseMoves` are the three bytes of
a packet and `graphics_mouse`; `Switch` is the scheduler. `picture` is history: what
was drawn, without a pointer. Lines are what `graphics_line` computes (`Steps`).

### Shell and Text

`Shell` has the console's cells and cursor (`Put` is `console_putchar` in its parts), the
line with its backspaces, the words cut from it (`FirstWord`, `Rest`), and the
working directory: `GetAbsPath`, then `Part` for each part of a path
(`process_path_part` with `move_into_directory` and `move_up_directory`), then
`ChangeDirectory` or `List`. `Heartbeat` is the clock's cursor. `Text` calls `strcmp`,
`strncmp`, `strtok` (one call per action, with its static pointer) and `printf`, whose two
loops over the powers of ten are functions of the turn (`Power`, `Left`).

## 3. The runs

Every configuration finishes within five minutes on two workers.

| Run | Checks | Instance |
|---|---|---|
| `kernel` | `NoProcessLost` (with `ListsIntact`), `MutexNoLostWakeup`, `IdleHearsInterrupts`, `MutualExclusion`, `EndOfInterruptOwed`, `ImplementsRoundRobin`, `MutexMoves` | shell and two programs, preemption at every click, sleeps of 0-1, with fairness |
| `kernel_yield_lost` | `ReadyIsQueued` is violated | the same, preemption every 2 clicks, interrupts inside the windows |
| `memory` | `Accounting`, `CapabilityOwnersLive`, `CapabilityStillOwned`, `ImplementsBudget`; `PrivatePages`, `MappedThroughTable` | four slots, three pages, three identifiers, requests of 0-2 pages; shell and two programs, 14 pages, tables of two entries, a heap of at most one page |
| `containment_race` | `WithinMaximum` is violated | three slots, `sys_run` preempted between lines 47 and 67 |
| `address_space_leak` | `NothingLost` is violated | 17 pages, tables of three entries, the first for the kernel's half |
| `input` | `KeysInOrder`, `LostOnlyWhenFull`, `KeyIsRead`, `EventsInOrder`; `BlocksDisjoint`, `PagesTrue` | one program, a ring of three, eight keys, four characters or events; a process and a handler, pages of four slots, sizes 6, 7 and 30, two pages |
| `files` | `EntriesBacked`, `AllowedOnly`; `ReadsInOrder`, `LookupRight` | two processes of two descriptors, six entries, one restart; two readers, two drives that may fail, blocks of eight bytes, reads of 1 and 5 |
| `iso_whole_blocks` | `BytesOfFile` is violated | as the file system of `files`, reads of 8, the size of a block |
| `devices` | `RightBlocks`, `FailureIsFinal`, `TransferEnds`; `BytesThere`; `HandlersReady`, `MouseBufferWhole`, `BootEnds`; `SleepsNearlyAsAsked`, `SleepEnds`; `TimeWas` | two processes, a disk and a CD, a CD alone or nothing, transfers of one or two blocks, failures; three blocks of two bytes, ranges of up to four; 33 pages, blocks of the heap up to three, a timeout of two clicks; 4 clicks a second, a counter of seconds that wraps at 20, sleeps up to 12 units, delay up to 1; days of 3 x 2 x 3 |
| `sleep_short` | `SleepsLongEnough` is violated | the clock of `devices` |
| `display` | `PictureKept` (with `PointerSaved`), `NearWindow`; `EchoTrue`, `WordsTyped`, `PathFits`; `TextRight` | two processes, 5 by 3 pixels, a window one pixel from the corner; a console of 3 by 2 cells, lines of three keys, paths of up to three parts; strings of up to three characters, numbers of 64 values in base 3 |
| `window_clip` | `InsideWindow` is violated | as `display` |

What they show:

* **Lists and places** (`kernel`). Whatever the order of system calls,
  ticks, keys and preemptions, no node is linked twice, no tail pointer dangles,
  and every process is where its state says. The pointer structure implements
  first-in first-out queues step by step, including the pushes interrupted by
  nothing but still made of four statements.
* **The mutex** (`kernel`). The hand-over is not direct, so a waiter can be
  overtaken, but while the mutex is free and someone waits somebody else is on
  its way to it, and it does move, whatever the other programs compute.
* **Acknowledgement** (`kernel`). Exactly one process owes the end of a clock
  interrupt that preempted; the idle loop is never entered while it is owed. If
  the process that the preemption starts computes for ever it is not paid: the
  machine then stays with that process. This is why `MutexMoves` has
  `Acknowledged` as a premise.
* **Containment** (`memory`). On every path of
  `sys_run`, with its failures, the counters equal what was faulted in plus what
  was promised to living children, and nothing else; a process and all it has given away
  stay within what it was given (`Budget`). Capabilities are counted nowhere, contrary to
  what their documentation says (section 4). Capabilities never outlive their owner or
  change hands during `sys_run`.
* **Pages** (`memory`). However creations, failures, faults, ends and the
  heap interleave, no page serves two processes or two purposes and none in use is
  free, although `pagetable_delete` frees some bits many times and others never; a
  page of memory is always behind a table, except while the table is the very next
  thing allocated.
* **Keys and events** (`input`). The line and the ring together always hold the
  characters in the order typed; one is lost only when the ring holds all it can, and
  one that got in is returned by `keyboard_read`. But the test for a full ring is wrong
  at one place (`keyboard.c:134`): a key that is then stored makes the full ring look
  empty, and those in it are not read. `LostOnlyWhenFull` and `KeyIsRead` (with
  `overtaken`) except that case; `KeysInOrder` does not: keys get lost in it but never
  out of order.
* **The heap** (`input`). Blocks stay apart and within their page, the free vector is
  exactly the union of the blocks, and `max_free_gap` is right between calls.
* **Descriptors** (`files`). One entry per open descriptor, through opens that fail
  half-way, although `fs_open` opens all descriptors at once; a name is allowed below
  a directory only with a slash behind it.
* **The file system** (`files`). Paths resolve to what the directories say and
  reads return the bytes of their position, over blocks, with one cached block
  shared by all readers and a drive that fails at any read, as long as no read takes
  whole blocks. The cache is labelled with the extent *after* the seek (`iso.c:319`),
  which is right unless the read ended with its last block (`iso_whole_blocks`).
* **Transfers** (`devices`). A transfer reported as good moved its own blocks, in
  order; one reported as failed left nothing behind for the next; each ends.
* **Ranges** (`devices`). The bytes asked for arrive, across any block boundary.
* **The pointer** (`display`). It never damages what is drawn beneath it or beside
  it, at the edges too, and its lines, at their real size of 15, lie in the saved
  square. What is drawn in a window goes past it by its distance from the corner at
  most, to the right and below (`NearWindow`), and that far it goes (`window_clip`).
* **The line** (`display`). What stands before the cursor is the line the shell will
  take, after any backspaces and over line ends, until the screen is cleared. Paths fit
  their buffer, whatever parts they have and whatever the working directory is.
* **Boot** (`devices`). The machine comes up whether the mouse, the drives and the keys
  answer or not, and no interrupt finds the default handler. The two pages of the
  mouse's buffer are neighbours, although its handler allocates an event with every move
  while `kernel_main` goes on: its line is opened behind them.
* **Time** (`devices`). A sleep is short by less than a click, whatever counters turn
  over, and longer than asked by less than two clicks and the process's own delay; it
  ends. That it can be short at all is `sleep_short`. The time drawn is one the clock
  showed, although registers are read one by one.

*Bounds.* In `Kernel` three processes are the fewest with two waiters and a holder,
or with an interrupted, a preempting and an idle role, and give every list a first,
a middle and a last node. With one click per preemption every tick in a process
preempts, the worst case for the hand-over of the acknowledgement; ticks that do not
are those that wake the idle loop, and the proofs are for every rate. In `Clock`,
12 units are more than a turn of the second, `seconds` starts at every value so
that the wrap falls everywhere in a sleep, and `passed` stops at `PassedBound`, past
every value the properties compare. In `Containment` three pages allow a chain
shell-child-grandchild and siblings with different maxima; `Word` only has to exceed
what is counted, and a third of three pages is the default share the code gives
(`DEFAULT_FRACTION_OF_MEMORY`). In `AddressSpace` 14 pages are three for the shell,
five for each of two programs, and one for a fault, the heap or a leaked directory;
with one program there is room for faults that need a table, for leaks and for its
successor. The kernel's half has no tables in that instance (`KernelTables` is 0:
they are allocated and freed like any other table); its program's one page of code
is off the diagonal of indices, as at the real size, and its faults can be on it.
`MaxHeap` bounds the pages the heap takes.

In `Input` a ring of three holds two and goes round once with four characters
(`MaxTyped`), so the wrong test is met; the eight keys are one of each kind of row.
In `Heap` the sizes fill exactly one slot, just need a second, and fill a page:
four slots are enough for a gap between blocks, and two pages (`MaxPages`) for a
choice. In `Files` `MaxLives` 3 lets one process end; six entries are more than can
be used then. In `Iso` the medium has a root directory of two blocks with a record
on each side of the boundary, a directory in it, a file of two blocks and one of
half a block; reads of 5 cross the boundary. No record begins in the last `MAX_DR_SIZE`
bytes of a block and ends before it (section 4, `iso.c:92`), and a directory ends with a zero.
One of the paths looked up goes through a directory that does not exist. In `Drive` two blocks have a first and a
last. In `Disk` ranges of up to four bytes touch up to three blocks of two. In
`Screen` a pointer of 3 makes a square of 5 by 5, as large as the screen, so it is
clipped on every side; the window is at (1, 1), so that its bounds are a column too
wide. In `Shell` six cells are the prompt and more than one full
line; a buffer of 10 is full after one long name. In `Text` 64 values are more than
twice base 3 cubed. In `Boot` 33 pages fill eight cells and a bit, so that the
blocked cell 5 and the bits behind the last byte both matter; `MaxTaken` 3 lets the
heap need a second page. In `Rtc` three seconds are the fewest with which the times
before and after a given one differ in their seconds too.

Deadlock is not checked where the system may stop: in `Kernel` a process that
computes for ever takes no step; in `Containment` and `AddressSpace` no step is left
when no page is free for another process, where the kernel halts; in `Input` when the
bounded number of characters is typed; in `MCDevices` when no drive was found or a
range has been moved.

Every property of a passing run has a mutant in `PROJECT.json`, a plausible bug in
one definition which makes TLC find that property violated. The mutants are
defined beside the definitions they change.

## 4. Where code and documents disagree

Six disagreements are runs of their own, which TLC finds violated:

1. `kernel_yield_lost`: between the push in `process_wait` and the switch an
   interrupt can wake or preempt the process. Its one node is linked twice, the
   rest of `ready_list` is cut off, and processes that are READY are in no queue,
   although `sys_process.h:29-30` promises that a process that yields runs again.
2. `containment_race`: `sys_run` writes back a count it saved before it could be
   preempted. If another child of the caller ends in between, the new child
   starts with a negative count and gets more pages than its maximum.
3. `address_space_leak`: `pagetable_delete` looks at `q->entry[i]` in its loop over `j`
   (`pagetable.c:178`) and the directory is never freed, so that the code of a program
   that ends is lost; `pagetable.h:98-100` says it frees the memory that is mapped.
4. `iso_whole_blocks`: after a read that ends with a block, `iso_media_read` labels the
   block in its cache as the one behind it, so the next read of that one gets the bytes of
   the one before. `sys_run` loads programs in pieces of 2048 bytes, one block
   (`syscall_handler_process.c:107-109`): every second block of a larger program is
   wrong, although `iso.h:75-76` says that `iso_fread` reads from the file. The shell's
   `cat` reads single bytes, so that a test with it does not meet this.
5. `sleep_short`: `clock_wait` (`clock.c:59-64`) may be called anywhere between two clicks
   and counts the first one as a whole, so a sleep is up to a click too short, where
   `sys_clock.h:26` says that it lasts the number of units given.
6. `window_clip`: a window's bounds add its own place to its size (`window.c:51`), so one
   that begins at `x` lets `2x + width` through, where `window.h` says of every shape
   that it is clipped outside the window. `bin/test_window.c:11` has its window at
   (10, 10), `bin/test_clock.c` at (250, 250).

The following are part of the models as the code has them, and either excepted in a
property, which then says so, or switched off by a constant of section 5:

* A capability is to count toward its creator's memory until it is deleted
  (`permissions_capabilities.h:29-33`, `sys_permissions.h:14-18` and `30-31`, and the comment
  at `permissions_capabilities.c:85`). No code counts it: `CapabilityCreate` and
  `CapabilityDelete` leave `using` alone, and `Accounting` says that a counter is the pages
  faulted in and promised to children, and nothing else.
* `clock_read` can be torn by a tick that turns the second over (`clock.c:39-40`): the
  elapsed time wraps and `clock_wait` returns at once (`Torn`).
* With no identifier free a capability is stored at place 0, which no clean-up
  visits (`permissions_capabilities.h:49` says all of a process's are deleted;
  `TableFills`).
* `opened` is never set in `fs_open` (`fs.c:180`): it opens the file in every free
  descriptor and returns 64, which no call accepts; `fs.h:60` says it returns the
  descriptor. `fs_close` returns 0 where `fs.h:32` says 1.
* `disk_write` reads the first block in every turn (`disk.c:56`), so what it does not
  overwrite in the later blocks is filled with bytes of the first; `WrittenThere`
  excepts those blocks.
* `kmalloc` of 3631 or 3632 bytes, which `kmalloc.h` allows, needs 455 slots of 454: no gap
  is found in the new page and the block is put at slot -1. The sizes of `input.cfg`
  fit; with 31 in place of 30 `BlocksDisjoint` is violated.
* `printf`'s search for the power of ten wraps from 1000000000 on (`string.c:155`);
  `PrintsRight` is about smaller numbers.
* The rest of a line is cut from the line as typed by the length of the first word
  without backspaces and leading spaces (`cmd_line.c:39`); `WordsTyped` excepts lines that
  have them. A line of one word leaves the rest at address 0.
* `get_directory_record` always reads 64 bytes and goes back by what is too much
  (`iso.c:92`). If a record begins in the last 64 bytes of a block and ends before the
  block does, the read runs into the next block and the way back gives an offset below
  zero in that block, which `iso_media_seek` does not correct. `iso_look_up` then
  peeks at memory ahead of its block, and skips what is left of one block or goes on past the
  directory; `iso_dread` is not affected, since it keeps the place and not the two parts of
  it. `Bytes` has it: with a record of one byte at place 12 in front of `BIN` in the
  medium of `MCFiles`, `LookupRight` is violated. The medium there has no such record.
* `iso_recursive_look_up` goes on below an entry whether it is a directory or not
  (`iso.c:512`): for a path through a file it reads the file's bytes as directory records,
  up to an end it computes from them (`iso.c:463`), where `iso.h:60` promises null. With a
  file `F` of zeros in the block in front of that of `BIN`, `/F/LS` is found as `BIN`'s `LS`,
  and `LookupRight` is violated. `PathsFit` excepts such paths.
* The test for a full ring (`keyboard.c:134`) fails with the write index at the end and
  the read index at 0: the key is stored and the full ring looks empty. Neither that key
  nor those before it are read then; `KeyIsRead` excepts them (`overtaken`).

Seen while reading, with no property of their own, beyond the hazards listed in
`PROJECT.json`:

* Children survive their parent, with a pointer to its freed page, where
  `sys_process.h:15` says that exit should kill them and `process.c:178` has a "todo".
* The pages `process_create` maps for code and stack are counted for no one, although
  `sys_memory.h:18` speaks of the pages in use.
* `process_exit` goes on on the kernel stack it has freed until the next process
  runs (`process.c:113`).
* `memory_detect_map` clears bits of a map that `memset` fills afterwards
  (`memory_raw.c:40`): reserved ranges leave no trace.
* An event allocated while no window is active is neither queued nor freed
  (`window_manager.c:14`), and every move of the mouse allocates one (line 30), from
  `mouse_init` on; `active_window` is not cleared when its process ends.
* The search for a free entry runs to one behind the table of open files when it is
  full (`fs.c:119`): with `MAX_OS_OPEN_FILES` 2 `files.cfg` shows descriptors that share it.
* `iso.c` puts a read's buffer of any number of blocks on a stack of one page (`iso.c:303`)
  and goes on with a byte nobody has read when a peek fails (`iso.c:267`).
* `fs_init_security` copies allowances before `sys_run` has stored the permissions
  (`process.c:99`), so the list is whatever lies behind a null pointer: any list, in `Files`.
* `ls_dir` closes its directory twice (`fs_terminal_commands.c:105`).
* `mouse_map` compares a bit with 1 that is never 1 (`mouse.c:64`); a lost byte of a packet
  shifts the rest.
* In twelve-hour mode 12 PM becomes hour 24 (`rtc.c:111`). `strtok` has one static
  pointer for all callers (`string.c:73`).

## 5. Assumptions and fairness

Constants switch assumptions on and off. In the passing runs all are FALSE, except
`Patient`, `Fails` and `DriveFails`, which are TRUE. What the code does not ensure is
violated when the switch is turned, which TLC shows on the same configuration:

| Constant | FALSE means | TRUE violates |
|---|---|---|
| `Kernel!Unprotected` | no interrupt in the few instructions of the windows of section 1 | `ReadyIsQueued` (`kernel_yield_lost`); what holds regardless is proved |
| `AddressSpace!Unprotected` | none between the test of a bit in `memory_alloc_page` and its clearing | `PrivatePages` |
| `Containment!Preempted` | `sys_run` is not preempted between its count and its charge | `WithinMaximum` (`containment_race`) |
| `Containment!TableFills` | no more capabilities are asked for than there are | with two identifiers: `CapabilityOwnersLive`, `CapabilityStillOwned` |
| `Clock!Torn` | no tick between two adjacent loads | `SleepsNearlyAsAsked` |
| `Input!Unprotected` | no key between `keyboard_read`'s test and its wait | `KeyIsRead`: the shell sleeps on a ring that is not empty |
| `Heap!Nested` | no call of `kmalloc` or `kfree` inside another | `BlocksDisjoint`, `PagesTrue` |
| `Files!Interleaved` | one `fs_open` at a time, though it waits for the drive | `EntriesBacked`, `AllowedOnly`: two opens pick one entry |
| `Iso!Unprotected` | no preemption between filling the cache and labelling it | `ReadsInOrder`, `LookupRight` |
| `Drive!Unprotected` | no interrupt before the sleep it is for, no packet after a timeout, no error after the last block of a write | `TransferEnds`, `RightBlocks` |
| `Screen!MidPixel` | no mouse interrupt or switch inside `plot_pixel` | `PictureKept` |
| `Shell!Unprotected` | no cursor drawn inside `console_putchar`, no backspace typed in the first cell | `EchoTrue` |

`Patient` says that programs end after their children; else `process_cleanup` corrects
the counter of whoever lives in their parent's page by then, and `Accounting` fails.
`Fails` and `DriveFails` are the drive's errors and late answers.

`Iso!ReadSize` has sizes below that of a block in `files`, the shell's single bytes among
them: with whole blocks, which `sys_run` reads, `BytesOfFile` is violated
(`iso_whole_blocks`).

In `Containment`, if the directory and the binary's header were found without a wait,
`Preempted` = FALSE is so in the code; after a wait it is luck.

A single C statement on one word is taken as atomic, and so are lines 60-66 and
70-85 of `sys_run`: they write the child, which no one else sees yet, and the
caller's counter. So is `process_cleanup` in the error returns of `sys_run`: setting a
bit again takes a page back from whoever was given it meanwhile only if the image
has a page on the diagonal of indices, that is, 513 pages of code. In `Kernel` a
transfer ends, with data or by the timeout; `Drive` has its protocol. In `Screen` a shape
is drawn in an order of the model's; `Disk`'s transfers succeed.

*Fairness.*

* `Kernel`: weak fairness of the handlers and of the return from a preemption:
  nothing interrupts them, the processor just goes on. Strong fairness of
  `ClockInterrupt`: the timer's request is latched in the controller and delivered when
  it can be. Strong fairness of each process's kernel steps and of `Halt`: clock
  interrupts are millions of instructions apart, and a process that has the processor
  again and again gets through a few of them. Strong fairness of `MutexUnlock`: the
  drive is not polled for ever. *No fairness is asked of programs*: they may compute for
  ever.
* `Drive`: weak fairness of the probe, of each process's steps and of each drive's: a
  process that can run does, and a drive with a command answers. None of `Lock`: nobody
  has to ask.
* `Input`: weak fairness of the shell, which preemption gives its turn. None of keys.
* `Boot`: weak fairness of `kernel_main`, of the clock's ticks and of the delivery of
  each line. None of the mouse, the keyboard or the drives, which may be silent.
* `Clock`: weak fairness of the ticks and of the woken process; `MaxDelay` bounds how
  long it waits for the processor.
* `Rtc`: weak fairness of the steps of a fetch.

## 6. The proofs

TLAPS checks these for every value of the constants, under the assumptions named.

**`KernelProofs`** has three parts; the second is the lemmas on `list.c`.
*Without the lists*, including interrupts in the windows. `IInv` is `TypeOK`,
`MutualExclusion`, `EndOfInterruptOwed` and three strengthenings:
`PushHasNode` (a push onto `ready_list` has a real child, else the links lose their
type), `ClicksBelow` (`clicks` is below the limit outside the handler, so one more
tick keeps its type) and `CriticalHolds` (whoever is in the critical section has
taken the mutex itself, so that an unlock frees its own). Each action has a lemma
step. The lists are *not* assumed intact: `Dispatch` may give the processor to any
node, and `EndOfInterruptOwed` survives because a process that owes cannot leave its
interrupted place without paying. Theorems `KernelTypeOK`, `KernelMutualExclusion`,
`KernelEndOfInterrupt`.

*The lists*: `NoProcessLost`, `MutexNoLostWakeup`, `IdleHearsInterrupts` and the
refinement `ImplementsRoundRobin`, for any finite set of processes and every bound, with
the hypothesis `Unprotected = FALSE`: section 4 shows what an interrupt inside a window
does to the lists. `ListInv` says that there are four sequences `Q` of distinct processes
behind the pointers (`Holding`: the links are those of `Q`, or of `Q` and the statements
already executed of the one push under way), that each process is on the list its own
state calls for and on no other (`Placed`), and that one between its push and
`process_switch` is the last of its list (`BlockLast`). Beside the sequences it needs that
the windows belong to the process that has the processor (`WindowsClosed`), who pushes a
child (`ChildrenKnown`), who can be blocked or owe an acknowledgement (`Standing`,
`IdleOwesNothing`), and that while the mutex is free and somebody sleeps for it another
is on its way to take it (`MutexRetried`). A push, a pop and a dispatch are lemmas about
sequences and pointers; each action takes a `Q` to the `Q` that `RoundRobin` would have,
which makes the refinement a matter of reading `Q` off. That the chain of pointers
determines `Q` is induction along the chain: it is done with the least index where two
readings differ.

**`RoundRobinProofs`**: `RoundRobinOnePlace`, that no process is twice in a queue, in
two queues, in one while it runs or before it starts. Assumed only that `None` is
not a process and `First` is one. The invariant is split into what each queue has
(`QueuesOnce`) and who is nowhere else (`CpuAlone`, `ReadyAlone`, `WaitingAlone`), with
lemmas on `Append`, `Head` and `Tail`. With `ImplementsRoundRobin` this is the reason
why one list node per process is enough.

The same module has `TextRightAlways`, the functions of `string.c`, in its three parts, for
any set of characters, lines of any length, and numbers of any base and even width.
Assumed are what the code's sizes give: `TextAssumption` (a character is not 0, the numbers
hold twice the base and more), `HexAssumption` (the digits of `%x` hold every number) and
`PowerAssumption` (multiplied by the base often enough, f wraps to 0 or below, so that the
first loop of `printf_putint` ends; 10 is even and the width a power of 2).
* `ComparesRightAlways`: two strings agree in front of the place where `strcmp` stops
  (`Agree`), and what comes first is decided at the first place where they differ
  (`PrecedesAt`), so that the sign of the difference there is the answer (`OrderingAt`).
* `WordsSplitAlways`: `TokInv` says of the static pointer of `strtok` that a word may begin
  where it points, that the line is still unharmed from there on, and that what has been found
  is the words that begin before it, each at its rank (`Cut`). `StopsAt` says where one call
  stops, `NextWord` that it has found the next word and that there is none between.
* `PrintsRightAlways`: the sought power is the first that is not below the number
  (`PowerAboveIs`), and if it was reached without wrapping, so were those before it
  (`PowersGrow`). The second loop comes down the same powers (`LoopGoes`); what it has
  written, times the power it has reached, and what is left make the number
  (`OneDigit`, `DigitsWrite`). `PutHexRight` is the same with a power for each digit.
  `ConvertPrints` carries both through `printf`, for a number with a character behind it
  and a `%` at the end of the format.

The loops are functions over the turns, `0 .. Width`, which is more turns than any of them
takes. What they compute is proved without the library's induction theorems, which take an
operator: `NumbersIn` is induction for a *set* of numbers, from the theorem that an injection
of a finite set into itself is a surjection, `MinIs` gives the turn at which a loop ends,
and `TurnsExist` says that a recursion with a bound has a function that obeys it.

**`ContainmentProofs`** has three parts: capabilities, accounts and the shell.
*Capabilities*: `CapabilityOwnersLive`, `CapabilityStillOwned` and `TypeOK`,
with or without preemption and orphans, assuming only that the table does not fill.
`Inv` adds `FirstPlaceEmpty` (place 0, which `delete_capabilities_owned_by_process`
skips, is never used), `RunnersLive` (only live processes are in `sys_run`, so a
process that ends is nobody's caller), `ChildIsEmbryo` (a child under construction
is not live, so its cleanup deletes nobody's capabilities) and `ChildrenDiffer` (two
callers never construct the same page).
*Accounts*: `Accounting`, `WithinMaximum` and the refinement
`ImplementsBudget`, for any number of pages, processes and capabilities, with
`Preempted = FALSE` and `Patient = TRUE` as well: section 5 and the run `containment_race`
show what each is for. `TreeInv` is `Accounting` with what keeps it when a process starts,
fails to start or ends: a page that is free or under construction counts nothing
(`CountersClean`), parents are alive (`ParentsLive`) and known to the child that is being
charged for (`ParentSet`), one caller at a time is between its count and its charge
(`SectionAlone`) and has counted what is there (`BeforeTrue`), and no counter is above its
maximum, nor a maximum above the memory (`UsingBelow`). `ContainmentContained` reads
`Budget`'s promise off it: at every level of the tree what a process uses and what it has
given away are within what it was given. The sums over children are folds, of which the
prover knows nothing; `SumWithout`, `SumWith` and `SumAgrees` say what they do when a child
comes, goes or changes, by induction on the finite set, as a set of subsets that is closed
under adding an element.
*Shell*: `PathFits`, `WordsTyped` and `EchoTrue`, for a console of any size and any keys,
lines, paths, names and buffer. It is here since paths are measured with the sums of the
accounts. `PathInv` says that the working directory fits the buffer too, for a relative path
begins with it. `WordsInv` is that the words are those of the line; `FirstWordIs` finds the end
of the first word, and `CutAt` that what is behind it, from one place further on, is the rest.
`EchoTrue` needs two hypotheses: `Unprotected = FALSE` (section 5), and `PrintsForward`, that
what is printed has no backspaces: with enough of them, which `cat` would print from a file, the
cursor goes to a row above the screen. TLC evaluates both (`ConsoleAssumption`). `EchoInv` says
that the cursor is on the screen and that, until the screen is cleared, the line it shows ends
before the cursor: the cell `k` places back shows key `k` from the end of the stripped line. A
printed character is one step forward in the order of the cells (`PutForward`), a backspace one
step back (`PutBack`), over the ends of rows too, and neither touches any other cell than the
two the cursor is drawn in (`PlacesDiffer`). `strip_backspace` and `console_putstring` go along
a string; here they are functions of the place in it. What is needed of them is what one more
key does (`StripAppend`) and that the cursor stays on the screen (`PutsOnScreen`); both follow
from the existence and uniqueness of such a walk (`WalkExists`, `WalkUnique`), by induction on
the place, as the set of places where it holds.

**`AddressSpaceProofs`**: `PrivatePages`, `MappedThroughTable` and `SpaceTypeOK`, for any
number of processes, pages, tables and any image, assuming that no interrupt arrives
inside `memory_alloc_page`. `Private` states the property of any free map, heap and
assignment of pages; `TakeFacts` and `GiveBackFacts` show that a page moving from `free`
to one place, and a process's pages moving back, preserve it, whatever subset is
given back: this is why the wrong index in `pagetable_delete` loses pages but never
shares one. `Inv` adds `FoundIsFree` (a page found is still free when it is taken),
`OneFinds` and `TodoForChild`.

**`InputProofs`** has three parts.
*Heap*: `BlocksDisjoint`, `PagesTrue` and `HeapTypeOK`, for any number of slots,
pages, callers and sizes, assuming that calls do not nest and that every request
fits a page (`Fitting`); section 5 and section 4 say what happens otherwise. `Inv`
relates the three things a page says of itself: `HeadersTrue` (what `kfree` will
believe), `Apart`, `VectorTrue` (the vector is the union of the blocks) and `GapsTrue`
(between measurements `max_free_gap` is right, which is why a page that is chosen has
the gap that `Locate` looks for), with `Progress` for a call under way.
*Input*: `KeysInOrder`, `LostOnlyWhenFull` and `EventsInOrder`, for any size of the ring, number
of keys and programs, wherever a key falls between the statements of `keyboard_read`. `InputInv`
says that the numbers of the keys grow from the beginning of the line through the ring to the
last key typed (`KeysOrdered`), and that a queue, newest first, stays above what its program has
been given (`EventsOrdered`). `RingFacts` reads the places of the ring without the modulus; with
it the wrong test for a full ring, which lets `buffer_write` meet `buffer_read`, is seen to empty
the ring and not to disorder it.
*Screen*: `PictureKept` and `NearWindow`, for any screen, windows, shapes, fonts, colours and
moves of the mouse, with two hypotheses: no interrupt falls between the two stores of
`plot_pixel` (`MidPixel` = FALSE), and the pointer's lines lie in the square that is saved
(`PointerFits`, which `MousePointerFits` proves for 15, the size in `mouse.h`, from what
`graphics_line` does). `ScreenInv` says of each place, separately, that it is in the buffer and
covered by the pointer, or on the screen (`PixelKept`), but for the one pixel a process has
drawn half of, of which there is one at most (`OneHalf`); and that the window a process draws
in was clipped to the screen (`Clips`). The redrawing of the pointer is then three functions
applied in turn, place by place: the old square put back, the new one saved, the lines drawn.
`NearWindow` reads off the bounds of the window that a process draws in how far it gets,
wherever the window lies: section 4 says why this is more than the window.

**`TimeProofs`** has three parts.
*Boot*: `HandlersReady`. `KernelMainOrdered` looks at the list `KernelMain` itself: each
`enable` is behind the `register` of its line, and `pic` is the second step. `BootInv` says
that what has been registered since then is in the table (`InTheTable`) and a line is open
only behind its handler, so that no interrupt, wherever it falls between two steps, finds
none. `MouseBufferWhole`, for any amount of memory, sizes and bits behind the map, with the
mouse's events wherever they fall. `MemoryInv` says that what is free has no gaps but for the
blocked cells (`NoGaps`), which holds because `memory_alloc_page` takes the lowest page
(`FirstFacts`) and nothing is freed before the shell is there; that what was given out is
disjoint (`Separate`); that the mouse's handler is registered only behind the two
allocations (`MouseLater`), so that nobody takes a page between them; and that between them
the neighbour of the first page is free and nothing below it is (`NextIsBeyond`). Writing it
down showed that the statement needs a second exception beside the blocked cell: if the first
of the two pages is the last of the map, the other is a page of the bits behind it that were
never set, or none, and the property now says so. `BufferStepIs` finds the two steps in
`KernelMain`.
*Clock*: `SleepsNearlyAsAsked` and `ClockTypeOK` for every rate of the clock, word, length of a
sleep and delay, wherever between two clicks it begins and ends,
assuming that `clock_read` is not torn and that the longest sleep fits a word
(`Roomy`). `Elapsed` says that from `start` the two counters went on by whole seconds and
clicks that add up to the ticks passed; the seconds wrap modulo the word, and
`clock_diff`'s borrow and subtraction give exactly the ticks back. `TestedBefore` says that
at the last test too little had passed, so that a sleep ends at the first test after its
time. The edges of the clicks are counted exactly, and what is left between them and the
real time is less than a click at either end.
*Rtc*: `TimeWas` and `RtcTypeOK` for every length of minute, hour and day. The second is read
first and compared last, and the clock moves at most once in a fetch, so there are two
candidate times, and their seconds differ; `Agree` says that if the second read first is
the one shown at the end, everything was read at that time. Lemmas on `\div` and `%` that
both cite stand between them.

**`DriveProofs`** has two parts.
*Drive*: `RightBlocks` and `FailureIsFinal`, for any number of processes, drives, kinds, blocks
and block numbers, with failures and late answers, with the hypothesis
`Unprotected = FALSE`: an interrupt before the sleep it should end leaves the process asleep,
and the drive with a command that the next transfer would meet. `DriveInv` says that one
process at a time commands the channel (`OneAtATime`: the probe, then the one that has the
mutex), that a drive which has a command is the selected one and has it from that process
(`Commands`, `Followed`), and, place by place, what the process then knows (`Proceeds`): how
many blocks it has, that they are its own and in order (`InOrder`), that those written are on
the medium (`Kept`), and how many its drive has left. `FailureIsFinal` is the last line of it:
a process that is through, well or badly, leaves no command.
*Disk*: `BytesThere`, for every block size, size of the drive, place and number of bytes.
`DiskInv` says that between two turns of the loop the first `Got` bytes have been moved, and
that outside what is asked for only the blocks behind the first one may differ, each after
its turn. `TurnFacts` is the arithmetic of `memcpy_offset`, `bytes_to_copy` and the number of
blocks: a turn begins in the block it reads, ends in it, and the last one ends with the call.

**`FilesProofs`** has two parts, on `Files` and on `Iso`.
*Files*: `EntriesBacked` and `AllowedOnly`, for any number of processes, descriptors
and entries, any allowances and any paths, with two hypotheses. `Interleaved = FALSE`: section
5 says what happens when two calls of `fs_open` overlap. `Roomy`: the table of open files has
room for all descriptors of all processes there have been, since `process_exit` closes nothing
(`Restart`); with 64 descriptors and 1024 entries that is sixteen processes, and past the
end of the table `fs_open` takes an entry that is none (section 4).
`FilesInv` says that what is open was allowed (`OpenedAllowed`), that the
entry which `create_fs_agnostic_file` has picked still waits for its file while the drive is
read (`Picked`), that open descriptors have entries of their own (`Owned`, `Backed`), and that
no more entries are in use than descriptors are open, but for those that ended processes have
left (`Counted`): this is why a free entry is found whenever a free descriptor is, and it is
proved by counting, with the theorems on `Cardinality`. `PermittedMeans` reads
`path_permitted_by_allowance`, character by character, as the path itself or one below it.
*Iso*: `ReadsInOrder`, for any number of readers, units and paths, any size of block and any
medium, also when the drive fails. The hypotheses, `MediumFits` and `~Unprotected`, are what
the code takes for granted. Reads are smaller than a block (`SmallReads`; with whole blocks it
is false, run `iso_whole_blocks`). No one is preempted between the filling of the cache and
its label (section 5). Of the medium, `RecordsFit`: a record lies in one block, and one that
begins in the last `MAX_DR_SIZE` bytes of a block ends with it; a directory of several blocks
may well have one that does not, and what then goes wrong is in section 4 (`iso.c:92`).
`DirectoriesFit`: a directory is whole blocks that begin with a record, records follow each
other up to the end of their block or a zero, and the last is followed by a zero. TLC
evaluates what is asked of the medium (`MediumAssumption`) in every run on `MCFiles`.
`IsoInv` has three parts. `HandleFits`: of a file as many bytes have been returned as the
position says, of a directory exactly the records in front of the position, and the position
is at a record or nothing but zeros follow in its block. `CallFits`: a call under way is at
the place of its handle and asks for less than a block, within the file. `CacheFits`: the
label of the cache names the block it holds, but while one reader has filled it and not yet
labelled it, and there is one such reader at most. The invariant is needed since neither a hit
in the cache nor an offset that `iso_media_seek` leaves at the size of a block can be
told right from the returned bytes alone. The proof
goes through `SeekSetFacts`, `SeekCurFacts` and `AfterRecordFacts` (a seek changes extent and
offset but keeps the place they stand for), `ReceivedFits` (what each call does with the bytes
it was given) and one lemma for each action.

`LookupRight`, in the same generality and under the same hypotheses and two more. `SelvesFit`:
the first two records of a directory are its own, with its own place and size, and its
parent's. `PathsFit`: the way to what is looked up goes through directories (section 4 has
what happens otherwise); a path may well name what does not exist. TLC evaluates both for the
medium and the paths of `MCFiles`. The meaning of a path (`Way`) is a function over the
positions in it, so that it can be walked name by name: it exists (`WayExists`), it begins
at the root and goes on from each directory to the first entry of the next name (`WayFacts`),
and once it leads nowhere it leads nowhere (`WayEnds`). `LookFits`, the invariant of a
look-up, says that what is left of its path belongs to the directory that its way has come to,
that it stands at a place in that directory, behind its parent's record once that has been read,
that no entry before that place has the name it looks for (`Passed`), and that `final` is the
last block of that very directory. A place in a directory (`At`) is one that `iso_dread` could
have come to: so `NextRecord` and `NextBlock`, proved for `ReadsInOrder`, serve the
search as well. `EntriesAre` and `NamedIs` connect the order of the records with what `Named`
chooses; the five `Looks...` lemmas are the five places at which the search reads.

*Only model-checked:* liveness (`MutexMoves`, `KeyIsRead`, `TransferEnds`, `BootEnds`,
`SleepEnds`), which takes fairness and `ENABLED` and which the prover does not reach. Every
invariant and every action property of the runs that pass is a theorem, under the hypotheses
named with it above.

## 7. What is not modelled, and why

* *Processor set-up*: `bootblock.S`, `kernelcore.S` up to `kernel_main`, the descriptor
  tables, the programming of the timer. They run once. Of `kernelcore.S` only the
  effect of the gates on the interrupt flag is used.
* *Register frames and page contents*: what a switch saves, what `sys_run` copies
  into the child, what a read puts into the caller's buffer.
* *Fonts and glyphs*, which are data; the arithmetic of `math.c` for arcs and circles,
  for which `Screen` takes any pixels; colours and wording.
* *Bytes of formats*: a directory record and a drive's command are records here.
* *Windows with a parent*, the second drive channel (a copy of the first),
  `clock_compare`, `pagetable_copy` and `pagetable_load`, `fs_check_open_conflict` (always
  agrees): nothing that is modelled calls them or depends on them.
* *The fields above the hour* of the real-time clock, and its twelve-hour mode.
* *The repository's tests*, and the programs in `bin` but for the calls they make.

## 8. What could come next

* `Kernel` with `AddressSpace`: the kernel stack that `process_exit` goes on using after
  freeing it, while the idle loop lets handlers allocate.
* `Files` over `Iso` over `Drive` in one instance, with an abstract file as a sequence of
  blocks that reading implements.
