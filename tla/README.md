# A verification project for blackbox-profiling

The repository measures how much each heap page of a program matters to the run
time of one of its functions, on an ARM board under Linux. A user-space profiler
(`functime_debugger/functime.c`) runs the program again and again under ptrace,
times the function between two breakpoints, and before each timed call asks a
kernel module, through `/proc/memprofile`, to make heap pages noncacheable.

Source paths below are relative to `src/`.

## 1. Inventory

| part | state | operations | talks to |
|---|---|---|---|
| tracer, `functime.c:374-692` | `done`, static `stage`, `tparams` (pid, breakpoint addresses and saved words, `t_start`, `t_end`), `samples`, `heap_size`, the SIGCHLD disposition | `run_debuggee`, `handle_tracee_signals`, `child_exit_handler`, `handle_trace_event`, `set_breakpoint`, `get_LR`, `set_PC`, `set_realtime` | tracee (ptrace, SIGCHLD), module (one write per run) |
| campaign, `functime.c:822-933` | `count`, `j`, `page[]`, `output[]`, `kernel_params` | profile one page at a time, average, sort, cumulative runs | tracer |
| heap scan, `functime.c:200-307` | `vma_idx`, `vmas[]` | parse `/proc/<pid>/maps` | tracer, once, at the first entry |
| module, `functime_debugger/kernel/both_multiple.c` | the global `cp`; per call: `temp_buff`, `data`, the address list; per process: areas, `vm_page_prot`, page table | `memprofile_proc_write`, `__mm_populate_mod`, `print_mem` | tracer, memory management |
| page change, `both_multiple.c:308-340` | page-table entry, TLB, L1, L2, memory | `invalidate_page_l1`, `invalidate_page_l2`, `set_pte_ext`, `__flush_tlb_page` | hardware |
| command line and symbol, `functime.c:440-518, 694-832` | options, `brkpnt_addr[TRACEE_ENTRY]` | `getopt` loop, `resolve_symbol` | campaign |
| second module, `functime_kernel_module.c` | as the first, for several areas | `filling_params`, `get_vma`, `vma_finder`, `cacheability_modifier` | as the first |
| one-page modules, `cacheable_except_one/`, `noncacheable_except_one/` | page number `p` | change one page, or all but one | every process called `hello` or `mser` |
| test programs, the two `hello.c` | the next page number, printed lines | a write before each timed loop | the one-page modules |
| loading of modules | the one name `/proc/memprofile` | `mm_exp_load`, `mm_exp_unload` of each module | whoever has it open |
| ELF tools, `elf_manipulator/` | a file's sections, name table and header table | append or replace a `.profile` section | files, libelf |
| localization, `script_localization.c` | particles, handles, `index`, `icount` | read a record, update the particles, leave a result | sd-vbs routines |
| sd-vbs routines, `sd_vbs/sd-vbs/common/c` | none | matrices, sorting, convolution, images, checks, timing | the benchmarks |
| benchmarks, toolbox, MATLAB code, `two_loops.c` | | programs to be profiled | |

### What is hard

* **A signal handler against the main flow.** `child_exit_handler` is installed in
  the first run and never removed; SIGCHLD is masked only inside the handler. From
  the second run on it can run to completion between any two statements of `main`:
  before `tparams.pid` is assigned, between the test of `done` and `sigsuspend`.
* **A tracee that runs while the handler does.** `stage` is assigned after
  `PTRACE_CONT`, so the next stop may come while `stage` still has its old value.
* **State that outlives a run.** `stage` is static, `done` global, `/proc/memprofile`
  is opened once per run, `tparams` keeps the last run's data.
* **Tracees that misbehave**: never call the function, exit inside it, get killed or
  stopped by some other signal.
* **A kernel request in one global** without a lock.
* **Partial failure**: populating may fail, and nothing looks at its result.
* **Caches and TLB** act on their own while a page changes its attribute.
* **Five modules for one name**: each registers `/proc/memprofile`, and its error path
  removes that name, whoever registered it; two do not remove it when they go.
* **Attributes that stay**: a page, and the protection of its area, keep what an earlier
  write has made of them.
* **Boundaries**: pages counted from 0 in one program and from 1 in the other;
  inclusive comparisons of addresses; a cycle counter that wraps.

The hazards, each with its line, are listed in `PROJECT.json`.

### What makes each part correct

* tracer: each program is timed exactly once, over exactly the function's body, with
  its pages configured; its code is put back; every run ends.
* module: when a write returns, exactly the requested heap pages are noncacheable and
  nothing else has changed, and no memory of the module is lost.
* page change: no store of the program is lost and the new attribute is in force.
* campaign: pages are ranked by their own cost; the k-th cumulative run keeps the k
  cheapest cacheable.
* other modules: exactly the pages asked for change, and no store is left in a cache
  that is no longer read.
* ELF tools: sections do not overlap, the old ones keep their content and their name, and
  what is loaded stays where the segments say it is.
* localization: no matrix is freed twice or lost, every result has a column, the first
  fix places the particles.
* sd-vbs routines: two ways to compute the same agree; a check that passes has compared
  everything; a time is the number of cycles that passed.

## 2. Modules

| module | models | notes |
|---|---|---|
| `TimedRuns` | what a series of measurements promises | abstract |
| `Tracer` | `functime.c`, sampling | implements `TimedRuns` |
| `TracerProofs` | theorems about `Tracer`, under any schedule and under its own priorities | |
| `PageFlip` | one page, its caches and its TLB entry | two variants of the code |
| `PageFlipProofs` | theorems about `PageFlip` | |
| `Memprofile` | a write to `/proc/memprofile` | uses `PageFlip`'s result: a page changes in one step |
| `MCMemprofile` | its instances | |
| `MemprofileProofs` | theorems about `Memprofile`, any number of writers and one | |
| `Campaign` | `main` of `functime.c` from the command line to the last row | a launch is one step |
| `MCCampaign` | its instances | |
| `CampaignProofs` | theorems about `Campaign`, any costs and while sums fit an int | |
| `OtherModules` | the second module, the four one-page modules, their loading, `hello` | a write is one step |
| `MCOtherModules` | its instance | |
| `OtherModulesProofs` | theorems about `OtherModules` | uses `Iteration` |
| `Elf` | the two tools of `elf_manipulator/` | libelf is external |
| `ElfProofs` | theorems about `Elf` | uses `Iteration` |
| `Localization` | `script_localization.c` | arithmetic left out |
| `Matrix` | routines of `sd_vbs/sd-vbs/common/c` | operators over integers |
| `BenchmarkProofs` | theorems about `Localization` and `Matrix` | uses `Iteration` |
| `MCParts` | `Campaign`, `PageFlip`, `Elf`, `Localization` and `Matrix` side by side, and the instances of the last three | the parts share nothing |
| `Iteration` | induction and loops over numbers | lemmas only |

### Tracer

Three actors. *main* is the launching loop and `handle_tracee_signals`; its position
is `main`, and `run` numbers the launches and stands for the pid. The *handler* is
`child_exit_handler` with `handle_trace_event`; its position is `handler`, and it can
only start when main is between two steps (`Deliver`), as a signal does. The *tracee*
is the child half of `run_debuggee` and then any program that calls the timed
function a given number of times: `loc` and `lr` are its PC and LR, `text` is the code
at the two addresses that matter, its entry and its return.

Each action is a whole branch of the code. `StageEntry` for instance scans the heap,
writes the request (`ConfigureKernel`), restores the entry, plants the return
breakpoint, takes `t_start` and continues the tracee; the tracee cannot run before the
continue, so nothing can interleave. `AdvanceStage` is a separate action because the
tracee does run between `PTRACE_CONT` and the assignment of `stage`.

`pending` is one bit, as SIGCHLD is not queued. `Notify` drops the signal when the
handler has not been installed yet: its default action is to be ignored.

`StrictFifo` chooses the scheduling. TRUE: both processes stay on one CPU under
SCHED_FIFO, the tracee above the tracer, and neither sleeps in a system call. FALSE:
any interleaving, which is what remains as soon as the `printf` after `fork` or a
page read from disk blocks. `FaultKinds` and `MaxFaults` say which mishaps happen.

Abstracted: the `printf`s; memory that `set_breakpoint` cannot write; a function that
calls itself (the entry is restored while it runs, so inner calls are not seen); the
contents of the maps file.

### PageFlip

One line stands for the page, and each copy of it is dirty or clean, and *fresh* when
it holds what was stored last. Between any two steps of `print_mem` L1 and L2 may
evict or fetch the line (through the kernel's cacheable mapping of the page too) and
the TLB may load or drop the entry. The program itself is stopped at its breakpoint.
`CleansCaches` and `FlushesPage` select the variant: TRUE and TRUE is
`both_multiple.c`; `all_cacheable_except_one.c` does not clean and flushes another
page's entry. Flushes are broadcast to the other CPUs, so one TLB is enough.

### Memprofile

Each writer goes through `memprofile_proc_write` with its own `temp_buff`, `task`,
area, list and walk position; `cp` is shared. The processes have two areas, data and
heap, in address order; areas above the heap never pass the test and are left out.
Populating goes in turns: `TakeLock` takes `mmap_sem` if the last turn dropped it,
`PopulateSome` gets any number of pages, and `PopulateNone` is the turn whose first fault
had to wait, dropped the lock and got nothing, so that `ret` is 0, `nend` is `nstart` and the
loop asks for the same page again. With `OutOfMemory` it may also give up
(`PopulateGivesUp`), and a `kmalloc` may return NULL (`AllocFails`, `Undefined`). A request
has two pointers, to the structure and to the list, and `bad` says which of them is not
mapped: `ParamsFault` and `ListFault` return -EFAULT, the first leaving in `cp` what was
copied of it, the second leaving the buffer allocated. A list of no page is undefined, as
the code prints the first words of a buffer of no bytes. The process written about stands still while a write about it is under way, and touches
pages and grows its heap before and after. When another writer has replaced `cp`, so
that a pointer is not the writer's own or an index is past its list, the outcome is
undefined and the writer stops (`Undefined`). A page-table entry that is made from an
absent one is `frame0`.

### Campaign

`main` above the tracer. Options are read one at a time; each reason to refuse a command
line is a conjunct of `Refused`.

A launch is one step, and what happens in it depends on `stage`, the static variable of
`handle_trace_event`, and on `ret_addr`, the return address last stored. If the launch
before it went through all stages (`stage` is INIT): `Timed` reaches the function and
returns, adds the run's cost to `samples` and, while `heap_size` is 0, scans a maps file;
`NeverCalled` ends before the function and leaves ENTRY; `EndsInside` ends inside it and
leaves EXIT. After the former the stop at execv is taken for the entry (`EntryMisread`): the
LR is 0 there, no breakpoint can be planted at it (`LinkAtExec`), and the program is started in the function.
After the latter it is taken for the return (`ReturnMisread`): what is added to `samples` is
the number of cycles since the earlier program's call, one of `Gaps`, and the program is
sent behind the call. `TraceFails` is a stop at which nothing can be restored, which ends main,
`NotStarted` a child that ends before execv, `ForkFails` one that cannot be made,
`ScanOverflows` the write through `vma_alloc`'s NULL; the scan happens wherever a stop is
handled as the entry, and at execv there is no heap (`MapsNow`).

`qsort` returns any sorted order of its entries, and any order
at all where `cmpfunc`, which subtracts machine integers, is not `Consistent` on them. `spent` and `truth` are
history: what the runs of this group, and of each page, really cost, and whether one of them
was taken for a return at execv (`misread`). `output[]` is written
and read back at once, one past its end for the last row; the model keeps the value and
leaves that write out. `page` keeps what the code appends, `allocated` how many entries
there is room for. What the tracer's `Tracer` refines, `TimedRuns`, is what `Timed` relies
on: one launch, one cost. `AveragesExact`, `CheapestListed` and `RowsInOrder` say what holds
in spite of such launches, and `LapseLasts` what does not: after one program that ended before
the function, no run of the campaign is timed.

### OtherModules

The five other modules side by side, as they share the name `/proc/memprofile`. `loaded`,
`entry` and `fd` are the modules inserted, whose handler the name has, and what `hello`
has open. An error return of `mm_exp_load` without a value leaves the module in or out.
The one-page modules act on every process of a fixed name, for each area that passes the
heap test, and `Change` is what they do to page table, `vm_page_prot` and caches; an absent
page becomes `frame0`. Populating by the second module may stop where memory runs out, at
one of `Reaches`, and its result is ignored. The second module walks the areas once for all indices
(`vma_finder`). `Store` and `Exec` are the programs; `mser` touches its pages as it goes,
`hello` has locked its memory. `asked`, `by`, `visited` and `served` record what was asked
and what the last write reached. `oops` ends everything: code that is gone was run, or a
user pointer followed. Writes do not overlap here; `Memprofile` has writers that race.

### Elf, Localization, Matrix

`Elf` keeps a file twice: as its headers say (`file`) and as its units lie on the disk
(`disk`), so that a section that was overwritten is one that cannot be read back. `elfie`
keeps the layout and moves the header table; `elf_manipulator` leaves it to libelf, which
puts the sections one after the other. `Manipulate` is limited to undamaged files.

`Localization` runs, for each record, the list of matrices the branch of the code
allocates, uses and frees (`Perform` does one of them), and keeps where the particles came
from. A record of type 4 takes two rows.

`Matrix` is the routines as operators, a matrix being a function from places to integers.
Each step of its transition system is one call on one input, and the properties compare its
result with another way to compute the same, or say what it tells. A file of expected
results is its numbers, possibly none, whether a blank follows the last one, and whether it
opens.

## 3. Runs

| run | question | bounds | result |
|---|---|---|---|
| `interleaved` | undisturbed tracee, any interleaving | 2 runs, 1 or 2 calls, counter mod 8 | holds; implements `TimedRuns`; work runs out |
| `fifo` | strict priorities | 3 runs, 3 descriptors | holds; every run ends |
| `faults` | up to two mishaps of any kind | 2 runs, 0 to 2 calls | holds |
| `write` | one write, 32 requests of which 8 have an unmapped pointer, growth by one page | 1 data page, 2 heap pages | holds; the write returns unless a page is never populated |
| `races` | two writers, faults, no memory, turns that gain no page | 1 data page, 2 heap pages | holds; writers advance |
| `modules` | five modules, three writers, two programs | 3 areas, 3 heap pages, 2 writes, 2 insertions | holds |
| `parts` | campaign: averages, ranking, lists and rows, with programs that end before or inside the function | 11 command lines, 3 maps, 2 costs, 2 gaps, up to 3 heap pages | holds |
| | the change of one page | unbounded use by the program | holds |
| | tools, localization, routines | 3 files and 3 tool runs; all files of up to 4 records; columns up to 4 high, images up to 6 by 6 | holds |
| `lost_wakeup` | `EveryRunEnds` with any interleaving | 2 runs | violated |
| `stale_pid` | `WindowConfigured` with any interleaving | 2 runs | violated |
| `killed` | a program that is killed | 1 run | violated |
| `stale_stage` | `EventMatchesStage` when a program never calls the function | 2 runs, 0 or 1 calls | violated |
| `one_page` | is page k timed alone? | as `modules` | violated |

`parts` is one run of five parts that share nothing: the variable `part` says which of them a
behaviour is of, and the others stand still where they start, so that it checks each of them
as a run of its own would.

Why the bounds are enough. Two runs show everything that passes from a run to the
next (handler installed or not, `stage`, `done`, `tpid`); the third run of `fifo` shows
that nothing accumulates but descriptors. The counter is small so that every window
length occurs with and without a wrap. In `write`, two heap pages are a listed and an
unlisted one, the third comes by growth, and the lists include none, all, page 0 and
one above the heap. In the campaign of `parts`, three heap pages are a first, a middle and a last one,
two costs give every order of three averages, one of the gaps leaves a
sum within an int and the other does not, and `max_num_vma` is small enough that the
second scan overflows it. In `modules`, three pages are what `Ranges` tells apart, two
writes show what stays of the first, and two insertions are enough for one module to
meet the other's entry. In the tools of `parts`, the name table of a file is last or is not and the
sections have a gap or have none; three tool runs are both orders of the tools and a
repetition; four records of four types hold every order of a fix and an accelerometer
reading, before and after each other; images of 5 and 6 rows have an inside for a kernel
of 5. Deadlock is checked where the system may not stop; it is not checked where stopping
is the system's own behaviour: a tracer asleep for ever after a lost wake-up, writers or
programs that have ended.

**Fairness.** `Tracer!FairSpec` has weak fairness on each of the three actors: each is
a runnable process that the scheduler picks once the one above it sleeps or stops, and
both do. Mishaps are not fair. `Memprofile!FairSpec` has weak fairness on each writer: a
system call in the kernel runs on. Nothing is assumed of the outcome of its steps: a page
may be waited for again and again, and `WriteReturns` therefore says that the write returns
or stays in the populate loop for ever. Page faults and heap growth are not fair.

**Violations.** Each violation run checks one sentence the repository says of itself
against the code; `PROJECT.json` quotes it. What they show:

* `lost_wakeup`: SIGCHLD should be blocked around the test of `done`.
* `stale_pid`: `kernel_params.pid = tparams.pid` uses the last run's pid when a child
  gets to its function before `main` returns from `run_debuggee`; the module is then
  asked about a process that is gone and the run is timed with nothing configured.
* `killed`: the wait loop has no case for WIFSIGNALED, and after ECHILD it tests a status
  nobody wrote: with `UnsetStatus` other than `"exited"` it loops or handles a stop of no
  process.
* `stale_stage`: `stage` counts stops and does not look at them; a program that never calls the
  function leaves it at TRACEE_ENTRY, and the next program's stop at execv is handled as the
  function's entry. What this does to a campaign is in `Campaign` (`LapseLasts`).
* `one_page`: the module does not give back the page before, so hello's line for page 2 is
  timed with two pages noncacheable. The theorem `LinesOfFirst` says what is timed.

The passing runs exclude some circumstances by a constant, because the property fails in
them and no sentence of the repository is there to be held against the code:

* `FdLimit` below the number of runs: descriptors of `/proc/memprofile` are never closed,
  and past the limit a run is timed unconfigured (`WindowConfigured`).
* `DataEnd = StartBrk`: a data segment that ends where the heap starts passes the
  inclusive test of `both_multiple.c:395` and is taken for the heap (`RequestHonoured`).
* `OutOfMemory`: pages that could not be faulted in are mapped to frame 0
  (`NoFrameZero`).
* two writers: the second replaces the request of the first, which then uses a pointer
  that is not its own (`Undefined`).
* a stray signal, in `interleaved`: it is taken for a breakpoint (`EventMatchesStage`).
* `FlushesPage = FALSE`, `all_cacheable_except_one.c`: it flushes the TLB entry of the
  region's first page, and a stale cacheable translation of the page it changed survives
  (`ChangeTakesEffect`).
* an `IntMax` below `-n` times the largest cost: `samples` wraps and an average is not that
  of its page's runs (`AveragesExact`), and far-apart averages are sorted in any order
  (`CheapestListed`).

Some properties name the circumstance in which the code does well and say, with an
equivalence where it can be said, that it does not do well in any other. `ServedUntilDescent`:
indices after one that does not ascend are skipped. `AskedPagesChanged`: pages that come later
in an area of which one page was changed are noncacheable too. `StoresNotLeftInCache`: a
module that cleans by virtual address must be written to by the program itself.
`OnlyListFaultsLeak`: a write refused for its list never frees its buffer. `AveragesExact`,
`CheapestListed`, `RowsInOrder`: a stop at execv taken for a return adds what is not the cost
of a call. `LapseLasts`: a campaign does not recover from a program that ends before the
function. `SectionsReadable`:
elfie needs a name table behind all other sections, so it can be used once.
`LoadedMoveOnlyFromGaps`: libelf closes the gaps between loaded sections. `FirstProfileGiven`:
a new profile of the old one's size need not be written. `ResultsFit`, `HandlesBalance`,
`PlacedByFirstFix`: which files of records touch memory behind a matrix, lose matrices, or
leave the particles where no fix put them. `PositivesSorted`, `ReportsHold`,
`RoutinesMatchReference`: sorting is right for positive numbers, a check passes over the end of
its buffer where a file that is not empty does not end with a blank, a time is right on the ARM, an image is read right if its rows are
not filled up.

## 4. Proofs

All theorems are about every value of the constants that meets the module's
assumptions. TLAPS checks them to the last leaf.

**TracerProofs.** `TypeCorrect`, `Recoverable` and `ReapedBeforeFork` hold for any
schedule and any mishap. `Discipline`, `StageMatch` and `Refinement` assume
`Undisturbed`: no mishap, and a program that calls its function at least once; they need
no assumption on scheduling, the number of runs, or the counter's width. Planting
and restoring are correct only relative to the position of the tracee, so the inductive
invariant says, for each stage and each position of the handler, where the tracee can
be, which of the two words carries a breakpoint, what was saved, and how many cycles
have passed since `t_start` modulo the counter's width. `Refinement` then maps each step
to a step of `TimedRuns` or to a stutter; that a window adds exactly `BodyCost` is the
one place where the modular arithmetic of the wrap is needed.

`FiniteWork`, also under `Undisturbed` alone, is the half of termination that is not about
being scheduled: `Left` is a tuple of six numbers (runs, calls, the tracee's position, a
pending signal, the handler's and main's positions) that every step lowers in
lexicographic order: a step that lowers one of them raises at most those that come after it.
The invariant is needed where the tracee is resumed: it must stand past a breakpoint that
is gone. So such a campaign ends, sleeps, or has a handler that spins in `WaitNoChild`,
a step that changes nothing; that no stop finds it asleep is the next theorem, under more assumptions.

`NoStopIsLost` and `PagesConfigured` assume `Strict`: `Undisturbed`, and
neither process blocking in a system call, so that the priorities alone decide (the runs
`lost_wakeup` and `stale_pid` show what happens when they do not). `FifoInv` lists the
situations such a run goes through: the child is held back until the tracer has recorded
its pid, installed its handler and gone to sleep; its first stop wakes the tracer; and
from then on the handler does not return before the program has ended, because whenever
it looks the tracee has already come to its next stop. Hence no stop can fall between the
test of `done` and `sigsuspend`. `PagesConfigured` needs a descriptor for every run
(`Runs <= FdLimit`) as well; `FdInv` counts that a run has taken none before its function is
entered.

**PageFlipProofs.** `NoStoreLost`, `TakesEffect` and `NoWriteback` assume `BothMultiple`,
the variant of `both_multiple.c`. The invariant says that while the page is cacheable the
topmost copy is the fresh one and only a dirty copy hides stale data below it, that L1 is
clean after the first step and both levels after the second, and that an entry of the TLB
is cacheable after the change only until the flush.

**MemprofileProofs.** `TypeCorrect`, for any number of writers, needs that a writer between `FoundTask` and `WalkDone`
has a valid area and task. `Others` assumes `Apart`, a data segment that ends below the
heap (see `DataEnd` above), and holds for any number of racing writers, any
requests, and failing population. Its invariant carries who has asked: `cp.pid` belongs to
a writer that has started, the process being walked was such a `cp.pid` once, and asking is
never undone.

`Advance` holds for any number of writers with no assumption but the layout's: the measure
of a writer is the processes left to look at, the stage of its request, the pages left
below `MaxBrk` and a lock to take, and what has to be invariant is that no walk is past `MaxBrk` (`WithinHeap`).
Since an order on four natural numbers has no infinite descent, a write takes finitely many
steps whatever other writers do to `cp`, turns of the populate loop that gain no page apart:
such a turn leaves the measure as it was, but for the lock, so that it is the only way to go on
for ever. That a write then ends with a return, where one writer is alone, is `WriteReturns`.

`Honoured`, `NoZero` and `ListsFreed` assume `Apart` and `Lone`, one writer, memory enough and
lists of at least one page (the circumstances above show why each is needed), and the process list
having distinct pids; requests, heap sizes, the list and the moments the program touches
pages or grows its heap are arbitrary. The result alone is not inductive: `Holds` says that
`cp`, the kernel buffer and the address list are the writer's own request at each position,
and `Progress` that the heap pages below `next` are present and as asked, while those from
`next` to the break are present and cacheable. This is where populating matters: it makes
the walk find every page present, so the page the walk is at goes from cacheable to what
was asked and never to frame 0. `Holds` also says at which positions the kernel buffer is
allocated, after -EFAULT for the list for good, which is `ListsFreed`.

**CampaignProofs.** The inductive invariant has five named parts: `Typed`; `Stages`, which
stage `pc` is in and what `count` and the length of `page` are there; `Unlaunched`, that nothing is
measured without a launch; `Fits`, that
`allocated` is the heap size of the first stored page and stays so because the map is
scanned again only while `heap_size` is 0; `Numbered`, that the entry stored k-th has number
k-1 until the sort, and that sorting only permutes them. `ProfileInBounds` and
`LastPageLeftOut` follow. They hold for any command lines, maps, costs and widths.
Here all that is used of `qsort` is that it permutes.

`TypeCorrect` holds for all constants. `Averages`, `Cheapest` and `Rows`
assume `SumsFit`: a number of runs that `-n` may give, times a cost, fits an int (the run's
instance is at that limit, and the property fails beyond it). Then, by induction on the
steps, `samples` is the real cost of the group (`Summed`: no more than the dearest cost so far
for each run) unless one of its runs was misread, after which nothing is said of it before the next
group; a launch that is not timed adds nothing to either. Each entry holds the average of the
page it names (`Means`, which sorting
keeps since it moves whole entries), and while no page was misread differences of entries do
not wrap, so `cmpfunc` is `Consistent` on them and `qsort` leaves them in order (`Ranked`). With `Requested`, that
the list is the first `count` entries, and `Numbered`, that these name each heap page
once, `Cheapest` follows; `Written` adds that row i lists the first i entries.
`LapseFinal`, for all constants, is about single steps: where a program has ended before the
function, the only launches left are those that leave `stage` at EXIT with nowhere to return to,
or end main.

**OtherModulesProofs.** `EntryOutlived` needs only who owns the entry: whoever inserts a
module owns it or there is none, and the modules that are not for `hello` take it along.
`OthersCovered` assumes `Fitting`: only the heap passes the heap test, the page number the
module has built in is that of the last page, and only pages of the heap are asked for.
The lemma below it, `RangesCoverOthers`, is the arithmetic: for p = 1, for the last page
and between, the ranges are exactly the other pages.
`StoresReachMemory` holds for all constants, from `Clean`: a page with stores in a cache
is cacheable as long as its process was written about only by itself and never to
`all_cacheable_except_one.c`. Each handler either cleans what it changes or takes the
process out of that condition; population keeps pages that are present.
`ServedAscending` is about the walk of `functime_kernel_module.c`, for any layout and any
list of indices. The walk is a loop over the list; `WalkedTo` is its invariant: after k
indices either all were served and the walk is behind the last of them, or those before the
first that does not ascend were, and the walk is at its end. From it `WalkStays`, that only areas there are get served, which the next
theorem needs.
`AskedIsChanged` assumes `Fitting`. The induction needs more than the property: what changed
is in an area (`AskedOf`), so that its area has an attribute, and `hello` has no absent page,
so that no later page is added to it.
`LinesOfFirst` assumes `Fitting` too: as long as only `hello` has written about itself, and
only to the module that makes one page noncacheable, `Counted` ties the number of lines it
has printed to the pages that are noncacheable, through every loading and unloading.

**ElfProofs.** All rest on `FilesAssumption`, what a linker leaves: names that are in the
name table, none of them `.profile`, no section is empty, what is loaded is numbered before the name table,
nothing overlaps and all is within `MaxFile`. Content, names, offsets, the number of sections
and of tool runs, and the sizes of the profiles are arbitrary. The invariant is `Sound` and
`Readable`. `Sound` says the headers are those of a file, `named` is what they say, and
(`LoadedKept`) each loaded section has its old number and size, and either its old offset or
the end of the one before it, once libelf has laid the file out. `Readable`: while `inOrder`, each
unit of each section holds that section's content and nothing overlaps. The lemmas below
it are about the two loops: `WrittenSteps` and `WriteSection`, that writing one section onto
a stretch no other section has (`Clear`) leaves the others as they were; `EndsGrow`, that
libelf's offsets leave room for each section; `GreatestExists`, that the section `elfie`
takes for the last one is there, and lies behind all others. Each tool then only writes
behind what is there, except that `elfie` with a name table in the middle does not, which is
where `inOrder` is needed. `FirstIsGiven` and `LoadedStayUnlessGaps` are in the same invariant.

**BenchmarkProofs.** About `Localization`, for every file of records, whatever their
kinds, their order and their number (`InputsAssumption`: only a GPS record has a second row). `ResultsHaveColumns`: `Rows` relates
the position in the file to the records read (one row each, two for GPS, unless the file
cuts the last one short) and `Columns` the results to them. `FixesPlace`: `Placed` says where
the particles come from by which records were read, and whether a GPS record came before
any of the accelerometer. `MatricesBalance`: each branch of the code is a script of allocations,
uses and frees. `Takes(s, A, B, n)` says that a script, begun with exactly the matrices A
held, ends with exactly B held, has lost n and done nothing wrong; `Then` composes two
scripts, and the script of each branch is so taken apart. `Balanced` is then that a
pass begins and ends with the same matrices, and that the lost ones count the fixes.
About `Matrix`, for columns, results and files of any length and words of any size
(`MatrixAssumption`; the run has words of eight values, the code of 2^32). `SortListsPositives`:
`Chosen` is the invariant of the selection, after k places: what was taken is zero in the
column and the rest is as it was; while there are positive elements, k of them were
taken, in falling order, and none that is left is greater. `ReportsTrue` needs for the time that division is
unique (`DivMod`): with `photonReportTiming` taking the low word for the high one, the
difference is that of the low words times 2^32 plus that of the high words, so it is
right exactly if nothing was carried.
`RoutinesMatch` is about images and kernels of any sizes, of any integers. Matrices are compared
place by place (`SameMatrix`), and for each routine a lemma says what is at each place of its
result. `Shift` compares two sums over the same values that begin at different places: the
one convolution sums over the kernel, the other over the image, and what only one of them has
lies outside the image or the kernel and counts as zero; so rows agree (`RowsAgree`) and the
sums of rows do (`SumsAgree`), if the kernel is odd and its two halves are of one size.
`PassTransposed` gives the derivatives, `BlurAt` the smaller image, `DivMod` the reshaped
matrix and the rows of a bitmap, and `FoundAll` pairs the places that are not zero
with the entries of the list.

**Iteration.** `Loop` says that a loop over 1 to m whose body is a function has its sequence
of values, which is what `Written`, `Ends`, `vma_finder`, `Run`, `Sorting`, `Sums` and
`Found` are written with, and `Induction` what is proved about them. They speak of sets and functions where the library's
theorems have operators as parameters, which the provers cannot instantiate.

**Types.** `FlipTypeOK` and `TypeOK` of `Memprofile` are in no run: `TypeCorrect` proves it for
every instance. In `Tracer` and `Campaign` a run checks it as well, since a cycle counter
that wraps and an index past `max_num_vma` would break it.

**Model-checked only.** Liveness (`EveryRunEnds`, `HandlerReturns`, `WriteReturns`), which is
beyond the prover. `FiniteWork` and `Advance` prove the descent the first and the last
rest on; what remains to TLC is that a step is possible until the end.

## 5. Not modelled

* The benchmarks under `sd_vbs/sd-vbs/benchmarks`, the toolbox and the MATLAB code: vendored
  numerical programs that are profiled; nothing of the repository depends on what they
  compute. `readSensorData` is modelled because `script_localization.c` reads with it.
* Of `common/c`: random numbers, printing, copies, element-by-element operations that differ
  from a modelled one only in the operator or the element type. Rounding: `Matrix` is over
  integers, and leaves out the division by the sum of a kernel.
* Of `functime.c`: option `-e`, which nothing reads, and debugging output. A line of the maps
  file is a record, not text.
* Registers of the cycle counter: fixed values are written to them once.
* `two_loops.c`: an example to be profiled.
* Page-table walks, cache and TLB hardware, procfs, ptrace, libelf: external, modelled by what
  the code relies on.
