# Torch OS: TLA+ models and proofs

This directory holds the formal models of Torch OS, a small 32-bit x86 kernel
(`kernel/`, `lib/`): its cooperative scheduler with time accounting, paging and
heap, in-memory filesystem, boot sequence and interrupt dispatch, keyboard,
terminal, logger, and the gates and stubs interrupts go through. TLC checks the
models on small instances; TLAPS proves nearly all of their safety properties,
and that scheduler and filesystem implement their abstract specifications, for
every instance.

## The system

| Part | State | Operations | Hard behaviour |
|---|---|---|---|
| Scheduler (`tasking.c`, `utility.asm`) | `ready_to_run`, `terminated`, `current_task`, `previous_task`, the `next_task` links, one stack per task | `create_kernel_task`, `schedule`, `terminate_task`, `switch_to_task`, the assembly stub | two lists share one link per task; a switch is several steps, during which interrupts arrive; termination has no way back |
| Timer (`timer.c`) | `ticks` | `timer_callback` (IRQ 0), `read_timer`, `elapsed_time` | ticks fall between reading the clock and switching; the counter wraps around |
| Memory (`memory.c`) | page directory, page tables, two bitmaps, `heap_current`, `heap_mapped` | `init_paging`, `map_page`, `page_frame_allocate`, `page_table_allocate`, `heap_allocate` | the tables that map memory are themselves reached through the mapping; order of initialisation; pools at their limit |
| Filesystem (`filesystem.c`) | nodes with buffer, size and offset; the root directory | `fs_read`, `fs_write`, `fs_seek`, `fs_add_dirent`, `read_ramdisk`, `init_filesystem` | boundaries of size and offset; a boot flow of dependent calls; runs on the heap before the heap is set up |
| Boot (`kernel.c`, `boot.asm`) | the multiboot information | `kmain`, `check_multiboot_info` | order of initialisation while devices already request interrupts |
| Interrupts (`isr.c`, `pic.c`, `idt.c`, `interrupts.asm`) | `interrupt_handlers`, the IDT, the controllers' registers | `irq_handler`, `isr_handler`, `pic_send_eoi`, the stubs | interrupts at any point, priorities and end of interrupt, lines without a handler |
| Keyboard (`keyboard.c`) | `shift`, `keymap` | `keyboard_handler`, `process_key_press`, `process_key_release` | scan codes are read later than the keys are hit; key repeat, unhandled keys |
| Terminal (`tty.c`) | row, column, the VGA buffer | `terminal_putchar`, `terminal_print` | shared by tasks and interrupt handlers; leaves the screen at newlines |
| Logger (`logger.c`, `logger.asm`) | the UART | `logf`, `put_serial` | tasks and handlers share the UART; number conversion |
| Descriptor tables (`gdt.c`, `idt.c`) | the GDT and the IDT | `gdt_set_gate`, `idt_set_gate` | addresses and flags packed by halves, decoded only by the CPU |
| String library, initial ramdisk | | copies, `strlen`, `strrev`; the host script `make_initrd.py` | |

`kmain` calls the parts' init functions in order and ends in `init_tasking`,
whose loop is the kernel task. Memory serves the scheduler (task structures and
stacks) and the filesystem (nodes and buffers) through `heap_allocate`; an
interrupt passes its gate and stub to `irq_handler`, which calls the timer and
keyboard handlers, which count, print and log on whatever stack is in use; the
scheduler reads the timer's counter.

At this commit `kmain` stops in `panic("stop")` (`kernel.c:73`) right after
`init_filesystem`. Everything behind that line is modelled as it runs once the
stop is removed; `Kernel` has both (`boot.stop`).

What makes the parts correct:

* Scheduler: the ready list holds every live task once; control always resumes
  on the right stack; terminated tasks never come back; every live task runs
  again; every tick is charged once.
* Memory: blocks never overlap, in virtual or physical memory; the mapping in
  use is never destroyed; only the heap limit stops an allocation.
* Filesystem: files behave as byte sequences with a cursor; the root directory
  is the ramdisk; boot succeeds on every ramdisk whose files fit.
* Boot and interrupts: nothing interrupts the kernel before it is prepared; every
  interrupt is ended; each request of the timer is one tick.
* Keyboard: every key that is hit is printed, once, in order and in its case.
* Terminal: as long as no line is full, interrupts cost no more characters than they
  print; the screen shows the last characters.
* Logger: the line carries what the format says, with nothing lost in between.
* Gates: a handler finds the context of the code it interrupted, and this code
  does not notice the interrupt.

## Modules

### Tasking, RoundRobin

`Tasking` models `tasking.c`, the counter and `elapsed_time` of `timer.c`, and
`switch_to_task_stub`. A task is its pid. `pc[s]` is the control point of the
code on stack `s`, and `esp` the stack in use; this makes a context switch what
it is in the code: `SwitchStub` saves `esp` in `previous_task` and continues
wherever the code on the other stack stopped, in a fresh task's function, behind
the call in `schedule`, or at the `panic` that ends `terminate_task`.

| Action | Code |
|---|---|
| `CreateTask` | one `enqueue_task(&ready_to_run, create_kernel_task(..))` of `init_tasking` |
| `StartLoop` | `init_tasking` enters its loop |
| `Schedule`, `ScheduleAlone` | `schedule`, with and without a successor |
| `Terminate` | `terminate_task` up to its call of `switch_to_task` |
| `ReadTimer`, `UpdateTime` | `update_time`, split where a tick makes a difference |
| `SwitchToTask` | the two assignments of `switch_to_task` |
| `SwitchStub` | `switch_to_task_stub` |
| `TimerCallback` | IRQ 0, possible before each of the steps above |

The interrupt handlers never touch the lists, so `schedule` and `terminate_task`
need no finer steps. The bodies of tasks are parameters: `Loops` are the tasks
that yield for ever (the kernel task and `task2`), any other task yields one of
`Rounds[p]` times and terminates (`task1` yields ten times). The name and the
page directory of a task are left out: the first is never read, the second is
the same for all tasks. `BLOCKED` tasks and the lists `blocked` and `waiting` are
never used by the code; `RUNNING` is only the zero that a fresh structure holds.

`RoundRobin` is the abstract specification: a queue whose head runs. `Tasking`
implements it with the walk along `next_task` (`Followed`) as its queue.

### Memory

`Memory` models `memory.c`. Pages and regions are page numbers, a page table is
named by the physical page it occupies, and `Translate` is what the MMU does with
them. Once `paging` is on, every write to a page table goes through the mapping
itself (`Physical`), as in the code, which uses a table's physical address as a
pointer. `init_paging` is a sequence of steps (`InitPaging`, `MapKernel`,
`InitPageFrames`, `MapTables`, `InitAllocators`, `EnablePaging`), and
`heap_allocate` is `HeapAllocate` (the overflow check), `Grow` (one
`page_frame_allocate` of its loop) and `HeapReturn`. `init_filesystem` allocates
before `init_paging`, so `HeapAllocate` is also possible at the control point
"boot", where both heap pointers are still 0; `EarlyMax` bounds it. A panic or a
page fault leads to "halt", and `hang` says why. Present entries are page
numbers; the read/write and user bits are left out, because all mappings have
the same. Addresses are natural numbers: `heap_current + size` (`memory.c:186` and
`192`) is a `uint32_t` in the code and would wrap around, past both checks, for a size
near 2^32, which no caller passes.

`PlacementAssumption` says of the layout what `memory.h` and `linker.ld` make true: the
heap begins in a directory slot behind those of the page table area and of the
kernel (slot 60, behind the area's two), the first tables of the area, as many as the
slots of the area or of the heap need (2 and 8), lie in the area and in the
first two slots (pages 1280 to 1288, below 2048), and the frames suffice for what is
allocated before `init_paging`, which ends below the VGA buffer (page 184 of 57000).

`unmap_page` has no caller and is left out. `memset(page_table_bitmap, 0,
sizeof(page_frame_bitmap))` at `memory.c:119` runs past its array. What lies
behind it is the linker's choice: linking the C sources with GNU ld, `linker.ld`
and common symbols puts `heap_current`, `previous_task` and `current_task` there
and nothing else, all of which are assigned later. The model assumes a layout in
which nothing in use is hit. Physical memory is assumed to read as zero at reset
(page tables are never cleared by the code), as it does under QEMU.

### Filesystem, FileStore

`Filesystem` models `filesystem.c`: nodes with their buffers, sizes and offsets,
the root directory's entries, `read_ramdisk` and `init_filesystem` call by call,
and afterwards any caller (`Client`) of `fs_read`, `fs_write` and `fs_seek` with
any size, position and data up to `MaxSize`. Every panic is a way to "halt". The
ramdisk is chosen in the initial state from a set of block sequences, the output
of `make_initrd.py`. Byte 0 is reserved for what `kalloc` leaves in a buffer, so
that a byte which was never written can be told apart. The directory's linked list,
which only `fs_add_dirent` changes and only at its end, is a sequence (`entries`).

`FileStore` is the abstract specification, a set of byte sequences with cursors;
`Filesystem` implements it.

### Kernel, Keyboard, Input

`Kernel` is `kmain` and the way of an interrupt. `kmain` is the sequence of its
calls; `Check` makes the ones that may panic, `init_pic`, `init_idt`, `InitDevice`
and `Sti` the ones that matter to interrupts, `InitOther` the rest. The two
interrupt controllers are their request and service registers: `Highest` is the
line they offer, `Acknowledge` the CPU that takes it through its gate,
`pic_send_eoi` the nonspecific end of interrupt that `irq_handler` sends before
it calls the handler (`SendEoi`, then `Dispatch`). The stubs run with interrupts
disabled until their `iret`, so there is no nesting. Devices request at any
time, before `init_pic` as well. An exception (`Fault`) enters `isr_handler`,
which has a handler for page faults only.

`Keyboard` is the driver, with both key maps, and the keyboard in front of it:
keys that are pressed, repeat and are released put scan codes into a queue, and
extended keys put the prefix E0 before theirs. `intended` records what each key
stood for at the moment it was hit.

`Input` composes the two: the controller signals the first code that waits
(`Signals`), and `Handles` is the dispatch that reads it. Everything else is a step
of `Kernel` that leaves the output buffer of the keyboard controller alone.

### Terminal

The kernel is compiled without optimisation, so `++terminal_column == VGA_WIDTH`
is a load, an addition, a store, and another load to compare. `Terminal` has one
action for each of these accesses of a task, and the handlers, which run with
interrupts disabled, in one step (`Interrupt`) between any two of them.
Colours are left out. A write beyond the page that `init_paging` maps for the VGA
buffer is a page fault. `Blank` is a cell nothing has been printed to, and no
character a task or handler prints (`TextAssumption`): a space that is printed is
one of `Chars`. The history `filled` says that `terminal_column` has once reached
`VGA_WIDTH`: `LossBounded` speaks of all the lines printed until then, however many
there are. With the kernel's own texts (15 and 27 characters with their newlines) only
what is typed between two newlines can fill a line.

### Logger

`Logger` is a task's call of `logf` with everything below it: the directives of
the format, the loop that produces decimal digits, `strrev`, the hexadecimal
routines of `logger.asm`, and `put_serial` on the UART with its transmit FIFO.
`put_serial` is two steps, `Test` and `Write`; an interrupt whose handler logs may
come between them. The characters between two directives are handed to
`put_serial` together (`rest`); nothing but the UART sees them. A call comes with one parameter for
each directive of its format, of its kind (`CallsAssumption`): all calls in the kernel do,
and what `logf` reads otherwise is not defined by its code. A number is 32 bits, `v \div 65536
< 65536`, so that TLC's integers do not overflow.

### Gates

`Gates` packs descriptors as `gdt_set_gate` and `idt_set_gate` do, decodes them
as the CPU does (`Segment`, `Interrupt`), and pushes and pops what the stubs of
`interrupts.asm` push and pop, with and without an error code. The vectors 17 and 21,
whose error codes the stubs do not expect, cannot be raised in ring 0 and by
this kernel's code. `InterruptedAssumption` describes the code that is interrupted: its
selectors are those `utility.asm` loads behind `gdt_flush`, 8 and 16. The limit of the IDT is one byte too large, which no vector
reaches.

### MC modules

The modules `MC...` instantiate the specifications. The definitions with a
suffix after the name of the definition that follows them
(`Terminate_requeues`, `NeedsPage_one_late`, ...) are faulty variants.
Each property is known to fail when the variant that `PROJECT.json` names for it
takes the place of the original.

## Runs

| Run | Shows |
|---|---|
| `tasking` | five tasks, four of which terminate after 0 to 2 rounds in every combination, with ticks at every point of a switch: `ReadyListExact`, `NoPanic`, `StacksMatchTasks`, `TimeConserved`, `TerminatedForever`, `ImplementsRoundRobin`, and the liveness properties `StarvationFree` and `FiniteTasksTerminate` |
| `tasking_wrap` | `TimeConserved` fails once the counter wraps around |
| `memory_heap` | `BlocksDisjoint`, `HeapBacked`, `BlocksUsable`, `UsedTablesIdentityMapped`, `OnlyHeapOverflows` and `CallsReturn`, from reset until the heap overflows |
| `memory_area` | part of the page table area loses its identity mapping (`TableAreaIdentityMapped` fails) |
| `filesystem` | every ramdisk of up to two files, then any calls on the root directory and the first file: `RootMatchesRamdisk`, `ReadBackWhole`, `NoHoles`, `BootCompletes`, `ImplementsFileStore` |
| `filesystem_room` | a file larger than the local buffer is read into it (`ReadFitsBuffer` fails) |
| `input` | `Kernel` and `Keyboard` composed, from every boot information, with both SHIFT keys, a repeating letter, an extended key and a key without a character, the timer, the mouse line and page faults: `ServiceEnds`, `OnlyForeignLinesHang`, `RequestsCountedOnce`, `TypedAsHeld`, `ShiftFollowsKeys`, `InterruptHasCode`, `BootCompletes`, `EveryKeyPrinted` |
| `keyboard_repeat` | with a SHIFT key that repeats `ShiftFollowsKeys` fails |
| `terminal` | a task and handlers that print, line after line and around the screen: `LossBounded`, `RingOfLastCharacters` |
| `terminal_newline` | the timer's lines alone lead to a page fault (`NoPageFault` fails) |
| `logger` | calls of two pieces, interrupted at every point by handlers that log: `PrintsParameters`, `NothingLost`, `LoggedGetsOut` |
| `gates` | all 48 vectors: `ContextMatches`, `InterruptedResumes`, `EntersKernel` |

Findings, each a counterexample of one of the failing runs:

1. `timer.c:20`: over a wrap-around of the tick counter `elapsed_time` returns one
   tick too few.
2. `memory.c:116-119`: the table bitmap is cleared after mapping the page table
   area has taken table 0 for the third directory slot. The first heap page then
   gets table 0 again, and heap entries replace identity mappings. It is harmless
   as long as no page table from the lost part of the area is in use:
   `UsedTablesIdentityMapped` holds.
3. `filesystem.c:163`: files of 101 to 256 bytes overrun `test[100]`. The
   repository's own ramdisk has files of 99 and 23 bytes.
4. `tty.c:44`: a newline increments the row without wrapping around. The mapped page
   ends within the 26th row, so that the 27th line printed falls beyond it and the
   kernel hangs in `page_fault_handler`. The timer prints a line each second: alone it
   gets there in the 27th second, after the ten lines of `task1` in the 17th.
5. `keyboard.c:32`: a SHIFT key that repeats is counted several times and released
   once, and the SHIFT map stays in use.

Observations made while modelling, outside what the runs show:

* `tasking.c:93`: the first task put on an empty list keeps its link. On the
  terminated list this link leads into the ready list, which the cleaner task
  planned in the file's TODO list would follow.
* `memory.c:250`: tables are put into the directory uncleared, so that the heap
  sees entries of the page table area beyond `heap_mapped`, where a page fault
  should catch a stray access.
* `filesystem.c:262`: `ramdisk_seek` checks against the size of the buffer, not of
  the file. The next write then panics, so no hole can arise (`NoHoles`).
* `pic.c:41`: a key hit before `init_pic` leaves its byte in the keyboard
  controller, and the reset of the interrupt controllers forgets its request; nobody
  reads port 0x60, and no key is ever signalled. `Input` has keys from `init_pic` on.
* `keyboard.c:59`: a SHIFT key held while the kernel starts makes the counter
  negative at its release, and the assertion hangs the kernel. `Keyboard` starts with
  no key held.
* `keyboard.c:18`: the comment on `shift` says "> 1 if the shift key is pressed"; the
  code (line 24) and the comment on line 21 mean > 0, and so does the model.
* `keyboard.c:134`: the SHIFT map has 'U' at scan code 0x4e, so SHIFT and u
  hang as an unhandled key.
* `isr.c:20`: `irq_handler` logs at 38400 baud with interrupts disabled, which takes
  longer than a period of the timer; periods that end while a request is
  pending are not counted. `RequestsCountedOnce` speaks of the requests.
* `tty.c:49`: when a handler prints between a task's store of column `VGA_WIDTH` and
  its comparison, the task misses the end of the line, and the column runs on. It takes
  a line the keyboard has filled. `LossBounded` and `RingOfLastCharacters`
  leave this case out.
* `isr.h:10`: `esp` and `ss` of `context_t` are not pushed by the CPU in ring 0; no
  handler reads them.

### Bounds

* Tasking: the code has three tasks; five tasks with up to two rounds bring lists
  of every length, terminations next to each other and apart, and both branches of
  `enqueue_task` for both lists. `WordMod` stands for 2^32; 4, with a timer that
  stops at 3, charges tasks with 0, 1 and more ticks in one switch.
  `tasking_wrap` lets 6 wrap around.
* Memory: four pages to a table and three bytes to a page keep the shape of
  `memory.h`: the kernel in slot 0, the table area from the middle of slot 1 into
  slot 2, the heap over two slots, more frames than heap pages. Block sizes 2, 4
  and 7 end inside, at and across page boundaries. `EarlyMax` (one page) allows
  none, one or several allocations before `init_paging`.
* Filesystem: buffers of 3 bytes stand for 256, room for 2 for the 100 of `test`;
  files of 0 to 4 bytes reach below, at and beyond both limits. The second file of a
  ramdisk has one byte value only.
* Input: line 12 is a device of the slave controller without a handler. Two scan
  codes may wait (`MaxCodes`), an extended key needs both; two keys with a character are
  hit (`MaxTyped`), among any number of SHIFT presses that fit in between. `Burst`
  says how many timer periods and bytes come before the interrupted code executes an
  instruction: with 2 the next request arrives during the handler of the last. Without
  this bound interrupts could keep the code from ever executing.
* Terminal: 4 columns and 2 rows, a page of 10 cells as the page ends behind the
  screen; nine characters wrap around the screen, three newlines stay on it, leave
  it, or leave the page, and eight of the characters can be printed, over several lines
  and with losses, before a line is full. Two interrupts suffice for one within the
  call that another has moved.
* Logger: a FIFO of two bytes is the smallest larger than the transmit register (the
  UART's has 16). Two interrupts fill it twice within one test and write. Numbers
  are 0, a round number, one with hexadecimal letters and the largest that TLC has,
  which has as many digits as 2^32 - 1.
* Gates: all vectors; stubs on both sides of a 64 KB boundary; two states of the
  registers.

### Fairness

`WF_vars(Cpu)` in `Tasking`, `Kernel`, `Input` and `Logger`: the CPU keeps
executing, and handlers return. There is no fairness on the timer, on devices or on the
typist. In `Input` the keyboard controller signals a code that waits
(`SF_ivars(Signals)`): its output buffer becomes free again and again, and it cannot pass
over a code for ever. In `Logger` the line takes what the UART holds
(`WF_vars(Transmit)`). In `Memory` and `Filesystem` a single thread runs; weak
fairness says only that it goes on.

## Proofs

Each `...Proofs` module shows an invariant inductive, with one lemma per action, and
derives the properties from it. All theorems hold for every value of the constants
that the named assumptions of the modules allow.

| Module | Theorem | States |
|---|---|---|
| `TaskingProofs` | `InductiveInvariant` | `IInv` of `Tasking` |
| | `TypeCorrect`, `ReadyListCorrect`, `TerminateNeverPanics`, `StacksCorrect` | the invariants of `tasking` except `TimeConserved` |
| | `TerminateHasSuccessor` | `SuccessorExists` (which no run checks) |
| | `TerminatedStaysTerminated` | the action property `TerminatedForever` |
| | `SchedulerImplementsRoundRobin` | `ImplementsRoundRobin` |
| | `TicksAccounted` | `TimeConserved`, if the counter does not wrap around (`MaxTicks < WordMod`) |
| `MemoryProofs` | `Invariance` | `IInv` of `Memory` |
| | `TypeCorrect`, `DisjointBlocks`, `BackedHeap`, `UsableBlocks`, `IdentityMapped`, `HeapLimitOnly` | all invariants of `memory_heap`: `TypeOK`, `BlocksDisjoint`, `HeapBacked`, `BlocksUsable`, `UsedTablesIdentityMapped`, `OnlyHeapOverflows` |
| `FilesystemProofs` | `Invariance` | the inductive invariant of `Filesystem` |
| | `TypeCorrect`, `FilesHaveNoHoles`, `DirectoryIsRamdisk`, `FilesReadBack` | `TypeOK`, `NoHoles`, `RootMatchesRamdisk`, `ReadBackWhole` |
| | `FilesystemImplementsFileStore` | `ImplementsFileStore` |
| `KeyboardProofs` | `DriverFollowsKeys` | `TypedAsHeld` and `ShiftFollowsKeys` of the driver alone |
| | `KeyboardTypes` | `KTypeOK`, with no condition on the keys |
| `InputProofs` | `ImplementsKernel`, `ImplementsKeyboard` | the composition behaves as each of its parts (safety) |
| | `EveryServiceEnds`, `BootOrderCorrect`, `TicksCorrect`, `ReadsAreFresh` | `ServiceEnds`, `OnlyForeignLinesHang`, `RequestsCountedOnce`, `InterruptHasCode` |
| | `TypingCorrect`, `ShiftCorrect` | `TypedAsHeld`, `ShiftFollowsKeys` in the composition |
| | `KernelTypeCorrect`, `TypesCorrect` | `TypeOK` of `Kernel`, `InputTypeOK` |
| `TerminalProofs` | `Invariance`, `TypeCorrect` | `IInv` of `Terminal`, and its types |
| | `TornCallsPay`, `ShowsTheLastCharacters` | `LossBounded`, `RingOfLastCharacters` |
| `LoggerProofs` | `InductiveInvariant`, `NoByteLost` | `IInv` of `Logger`, `NothingLost` |
| | `CallInvariance`, `TypeCorrect`, `PrintsWhatIsAsked` | `LogfInv`, `TypeOK`, `PrintsParameters` |
| `GatesProofs` | `Invariance`, `ContextFound`, `Resumed`, `KernelEntered` | `IInv` of `Gates`, `ContextMatches`, `InterruptedResumes`, `EntersKernel` |

What the provers know of a recursive function is its equation. Where a proof needs what
such a function computes for data of any length (the walk along links, a sum
over tasks, a fold over the characters printed, the text of a format), it takes the least index at which the
function would differ: every nonempty set of natural numbers has a least element
(`LeastElement`).

### Scheduler

For any number of tasks, any set of endless tasks that contains the kernel task, any
numbers of rounds and any word size (`TasksAssumption`, `BodyAssumption`,
`WordAssumption`). `ReadyListExact` alone is not inductive. That the list stays exact
when `terminate_task` drops its head needs that the list has a second element, hence
that the kernel task is live and is not the one terminating (`TerminatedInv`), and
that the running task is the head (`SwitchInv`); that appending to the terminated
list leaves the ready list's links alone needs that the terminated list's tail is
a terminated task (`TerminatedInv`). That the head runs after a switch needs that
every live task off the CPU can be resumed in its body (`ResumeInv`), which needs
that no live task is suspended inside `terminate_task` (`SwitchInv` on `frame`).
`CreationInv` describes the list while it is built. For `Schedule` and `Terminate` the
new list is given explicitly as a rotation and as the tail of the old one.

The refinement of `RoundRobin` shows that the walk from the head is this list, and that
`CreateTask` appends to it (`Appends`), `Schedule` rotates it (`Rotates`) and
`Terminate` drops its head (`Drops`); every other step leaves the links it follows alone.

That ticks are accounted for needs that clocks only go forward (`ClockInv`: the
time of the last switch, the time read and the counter are in this order, and at most
`MaxTicks`), and that a sum over the tasks changes by what one of its terms changes
(`SumUpdate`). The hypothesis that the counter does not wrap around cannot be
dropped: this is finding 1.

### Memory

For every layout, any sizes of pages, tables and directory, any block sizes
(`LayoutAssumption`, `PlacementAssumption`). What is invariant about paging
changes with the control point: `AtBoot`, then `MappingKernel` and `MappingTables`, which
say how far the loops of `init_paging` have come, then `Complete`. At the centre of
`Complete` is that the pools are handed out in order: heap page p has the frame
p - `HEAP_AREA_START` and heap slot s the table s - `FirstSlot` (`HeapMap`), so that
`heap_mapped` tells which entries count and entries left over in an uncleared
table (an observation above) never do. Tables are handed out twice (finding 2), and it is
harmless because every table that is allocated lies among the pages of the first
two slots (`LowSlots`), whose tables are static and keep mapping kernel, VGA buffer and
these pages to themselves (`LowTables`): what the heap overwrites is the entries of a
third slot. `OnlyHeapOverflows` then is arithmetic: while the heap has pages, the
pools of frames and tables, which the layout makes large enough, have an
unused element. Blocks are disjoint because `heap_current` only grows (`BlocksInv`), those
from before the pointer moved to the heap being below `EarlyMax`.

### Filesystem

For every set of ramdisks, any sizes of buffer and directory, and any calls of clients
(`FileAssumption`). The invariant `Solid` says that exactly the bytes below
`canonical_size` have been written; it is what makes offsets, sizes and contents agree,
and gives `NoHoles` at once. At each control point of `init_filesystem` it is
completed by what has been made so far: how many nodes and entries there are
(`Counts`), that entry i is node i + 1, that the nodes made before have the contents
of their blocks (`Loaded`), and what the buffers hold (`Loading`, `Showing`). The lemmas
`SeekCall`, `ReadCall` and `WriteCall` say what a call does if it does not panic. For
`FileStore`, node i + 1 is file i; each call is one step of the store, panics
and the walk over the directory stutter.

### Terminal

For every size of the screen and all texts (`SizeAssumption`, `TextAssumption`).
The invariant for `LossBounded` must also account for what a stale register
will do. `Position` is where the cursor will be when the task has finished its call,
whatever a handler does in between (the value in the register decides it once it has been
loaded), and `Stray` is 1 while the task is about to write elsewhere than at the cursor.
`Paid` says that the characters printed, plus those shown at `Position` or behind it, which
will be overwritten, plus `Stray`, are at most those shown plus `torn`. A task's
step never moves `Position` back (it is why the newline's step matters); a handler
that writes n characters from the cursor costs nothing there (`Cheap`) and at most n from
any other position (`Bounded`), and within a call `torn` grows by n. `Columns` says that
the cursor, and the column the task has loaded, are within a line as long as `filled` is
false: a store that would not be sets it, so nothing wraps, and a newline, from wherever on
its line, goes forward.

For `RingOfLastCharacters` the invariant is the place of the cursor at each control point
of `terminal_putchar` (`InRing`), modulo the size of the screen, in terms of the
number of characters printed; a handler between two characters keeps it by
induction over its text (`RingWrite`).

### Boot, interrupts and keyboard

For any devices, exceptions, boot information, keys, `Burst`, `MaxCodes` and
`MaxTyped`. The invariant ties the step `kmain` has reached to what is set up by then
(`Prepared`: interrupts are on, or one is handled, only behind step 13), says that
the line of the interrupt being taken is the only one in service and only until its
end of interrupt is sent (`Serviced`), that what the timer is owed is what is pending
or being handled (`Counted`), and that a request of the keyboard means a byte at port
0x60, and this byte a scan code (`Waiting`).

What is printed later than it was typed is related to it by `Between`: there is a
sequence of sets of SHIFT keys and a sequence of texts, one of each before every code
that waits and one behind the last, which lead from what the driver has counted and
printed to what is held and intended now, each code accounting for its step. A key
that is hit or released adds a last element, a code that is read takes the first one
away. The condition `PlainShifts` is that no SHIFT key repeats (finding 5 is what
happens otherwise) and that no extended key has the code of one: keyboards that send
E0 2A before some keys are outside it.

### Logger

For any calls of `logf`, any messages of handlers and any FIFO of at least two bytes
(`LoggerAssumption`). The invariant is that a handler which has seen the transmitter
empty still finds it so, that a task in the same position finds one byte at most
(of a handler's last write), and that the FIFO therefore never holds more than two.
With a FIFO of one byte, which is a UART whose FIFO is not enabled, the property fails
(the mutant of `NothingLost`).

What a call prints is a second invariant, `LogfInv`, for any calls that satisfy
`CallsAssumption` and any buffer of more than ten bytes. What is left of the format and of
the parameters are suffixes of what was passed, and the number of parameters taken is the
number of directives read (`ArgsInv`); that needs that a step never stops between a '%' and
its directive. While a number is divided, the buffer holds its last digits and `n` is
the number without them; while it is reversed, the outer digits are in place
(`NumberInv`). A number of 32 bits has at most ten digits, so the buffer is never left.
What the task wrote followed by what it still gives to `put_serial` is the text of the
characters read (`PrintInv`); the bytes of handlers drop out of it. The lemmas under
these say what `FlattenSeq`, the task's part of a sequence of bytes and the powers of a base
are for every argument: such functions exist (`RecursionExists`) and their equations
determine them (`RecursionUnique`).

### Gates

For any layout of the stubs in memory and any state of the interrupted code
(`LinkerAssumption`, `InterruptedAssumption`). The invariant says, at each control point
of the way in and out, that the interrupted code's stack lies unchanged under what
has been pushed and not yet popped (`Above`, `StackInv`), and which registers still, or
again, hold what they held (`CpuInv`); a handler may change `eax`, `ecx` and `edx`
only, which `popa` restores. That the stub which runs belongs to the vector needs that
the addresses of stubs differ and survive being packed by halves. `EntersKernel` decodes
what `gdt_set_gate` packed (`FlatSegments`).

### Only model-checked

The liveness properties `StarvationFree`, `FiniteTasksTerminate`, `CallsReturn`,
`BootCompletes`, `EveryKeyPrinted` and `LoggedGetsOut`: fairness is out of the prover's
reach. Every invariant a passing run checks is also proved.

## Not modelled, and plan

Next, in this order:

1. Proofs: that `init_filesystem` never panics on a ramdisk whose files fit.
2. `Terminal` under the handlers of `Input` instead of arbitrary ones, so that the
   number of characters on a line follows from who prints.

Left out for good:

* `unmap_page`: nothing calls it, so it has no place in a behaviour.
* Programming of the PIT, the interrupt controllers and the UART beyond its effect: the
  registers are written once, with constants.
* `boot.asm` and the assembly that loads the descriptor tables, beyond the state they
  leave: a straight line before `kmain`.
* The multiboot structures of `multiboot.h`, and what `kmain` logs of them.
* `strcpy` and `strncmp` on names: names are atomic. `strcpy` of a name without a
  terminating zero (`filesystem.c:103`) reads on in the ramdisk and is a hazard without
  a property.
* Colours of the terminal, which no state depends on.
* `make_initrd.py`, which runs on the host; its output is the set of initial ramdisks.
