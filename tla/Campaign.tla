------------------------------ MODULE Campaign ------------------------------
(***************************************************************************)
(* functime_debugger/functime.c, main: read the command line, resolve the   *)
(* symbol, time the program sample_size times with each heap page listed    *)
(* alone, sort the pages by their average, and time it once for each i with *)
(* the i cheapest pages listed; one row of output.csv per i.                *)
(*                                                                         *)
(* One launch is one step here; TimedRuns and Tracer say what it is made    *)
(* of.  What a launch hands to the next one is the static stage of          *)
(* handle_trace_event: a program that ends before or inside the function    *)
(* leaves it behind, and the next program's first stop is handled as        *)
(* another.  Page 0 of a request selects no page (Memprofile, PageAddr).    *)
(***************************************************************************)
EXTENDS Integers, Sequences, SequencesExt

CONSTANTS CommandLines, \* [options, command, elf]
          Maps,         \* what /proc/<pid>/maps may hold at the breakpoint
          Costs,        \* cycles one timed call may take
          Gaps,         \* cycles from a call's start to a later program's
          IntMax,       \* largest int of the build
          MaxVmas,      \* max_num_vma
          MaxPages      \* bound: no heap of Maps is larger

ASSUME CostsAssumption ==
  /\ IntMax \in Nat /\ Costs \subseteq 0..IntMax /\ Costs # {} /\ Gaps \subseteq Nat
  /\ MaxVmas \in Nat \ {0} /\ MaxPages \in Nat

\* Arguments as getopt gives them, -n with a number of runs.
Options == [opt : {"n"}, arg : Int] \cup [opt : {"c"}, arg : BOOLEAN]
           \cup [opt : {"s", "m", "e", "o", "h", "?", ":"}, arg : STRING]

ASSUME LinesAssumption ==
  /\ \A line \in CommandLines : line.options \in Seq(Options)
  /\ \A maps \in Maps : /\ maps \in Seq(ToSet(maps))
                        /\ \A k \in DOMAIN maps : maps[k].pages \in 0..MaxPages

VARIABLES
  phase, args, cmd,
  params,              \* -n, -c and -s as read so far
  entry,               \* tparams.brkpnt_addr[TRACEE_ENTRY]
  kernel_params,       \* [size, buff, shouldSkip]; Len(buff) longs allocated
  count, sample, samples, heap_size, vma_idx,
  page, allocated,     \* the profile, and how many entries it has room for
  stage, ret_addr,     \* static stage; tparams.brkpnt_addr[TRACEE_EXIT]
  rows,                \* output.csv
  spent, misread,      \* of this group: what its calls cost, and whether an
                       \* execv stop was taken for a return
  truth                \* the same of each page

setup == <<args, cmd, params, entry>>
heapVars == <<heap_size, vma_idx>>
group == <<samples, spent, misread>>
profile == <<page, allocated, truth>>
cvars == <<phase, setup, kernel_params, count, sample, stage, ret_addr, heapVars, group,
          profile, rows>>

-----------------------------------------------------------------------------
NoAddr == -1

\* Bug: samples goes on from one page to the next.
KeepSamples == samples

ResetSamples == 0

\* What the register of sample_size holds when there is no -n.
Garbage == 0..2

\* An int is IntMax + 1 away from its sign bit.
ToInt(x) == ((x + IntMax + 1) % (2 * (IntMax + 1))) - (IntMax + 1)
Magnitude(x) == IF x < 0 THEN -x ELSE x
\* Division truncates towards zero.
Quotient(a, b) ==
  LET q == Magnitude(a) \div Magnitude(b) IN IF (a >= 0) = (b > 0) THEN q ELSE -q

\* Bug: the pages come in the opposite order.
CmpReversed(a, b) == ToInt(b.cycles - a.cycles)

cmpfunc(a, b) == ToInt(a.cycles - b.cycles)

scan_proc_maps_line(line) == line.file = "[heap]"

\* What heap_size may be after the scan: each line called [heap] sets it, so it
\* is that of the last one.
read_proc_maps_file(maps) ==
  LET heaps == {k \in DOMAIN maps : scan_proc_maps_line(maps[k])} IN
  IF heaps = {} THEN {heap_size}
  ELSE {maps[k].pages : k \in {l \in heaps : \A m \in heaps : m <= l}}

\* The scan runs while heap_size is 0, and never gives its entries back.
Scans == heap_size = 0

vma_alloc(n) == vma_idx + n

\* Bug: the test is one entry late.
VmasFitLate(n) == vma_alloc(n) <= MaxVmas

VmasFit(n) == vma_alloc(n) < MaxVmas

\* The first symbol of that name in the first symbol table, Thumb bit cleared.
resolve_symbol(elf, name) ==
  LET symtab == IF elf.symtabs = << >> THEN << >> ELSE Head(elf.symtabs)
      ii == SelectInSeq(symtab, LAMBDA sym : sym.name = name)
  IN IF elf.readable /\ ii # 0
       THEN symtab[ii].value - (symtab[ii].value % 2) ELSE NoAddr

CampaignInit ==
  /\ phase \in {"options", "failed"}   \* output.csv may not open
  /\ cmd \in CommandLines /\ args = cmd.options
  /\ params \in [n : Garbage, c : {FALSE}, s : {"unset"}] /\ entry = NoAddr
  /\ kernel_params = [size |-> 0, buff |-> << >>, shouldSkip |-> FALSE]
  /\ count = 0 /\ sample = 0 /\ samples = 0 /\ heap_size = 0 /\ vma_idx = -1
  /\ stage = "INIT" /\ ret_addr = "none"
  /\ page = << >> /\ allocated = 0 /\ rows = << >>
  /\ spent = 0 /\ misread = FALSE /\ truth = << >>

-----------------------------------------------------------------------------
ReadOption ==
  /\ phase = "options" /\ args # << >>
  /\ LET o == Head(args) IN
       /\ params' = IF o.opt \in {"n", "c", "s"}
                      THEN [params EXCEPT ![o.opt] = o.arg] ELSE params
       /\ phase' = CASE o.opt = "h" -> "over" [] o.opt = "?" -> "failed"
                  [] OTHER -> "options"
  /\ args' = Tail(args)
  /\ UNCHANGED <<cmd, entry, kernel_params, count, sample, stage, ret_addr, heapVars,
                 group, profile, rows>>

Refused == params.s = "unset" \/ ~cmd.command \/ resolve_symbol(cmd.elf, params.s) = NoAddr

Refuse ==
  /\ phase = "options" /\ args = << >> /\ Refused
  /\ phase' = "failed"
  /\ UNCHANGED <<setup, kernel_params, count, sample, stage, ret_addr, heapVars, group,
                 profile, rows>>

Accept ==
  /\ phase = "options" /\ args = << >> /\ ~Refused
  /\ entry' = resolve_symbol(cmd.elf, params.s)
  /\ kernel_params' = [size |-> 1, buff |-> <<0>>, shouldSkip |-> params.c]
  /\ phase' = "profile"
  /\ UNCHANGED <<args, cmd, params, count, sample, stage, ret_addr, heapVars, group,
                 profile, rows>>

-----------------------------------------------------------------------------
(* One launch of the program, for either loop.                              *)
Launching == phase \in {"profile", "run"} /\ sample < params.n

\* A launch whose program is seen to end, in stage st, with a return to ra.
LaunchEnds(st, ra) ==
  /\ Launching /\ sample' = sample + 1 /\ stage' = st /\ ret_addr' = ra
  /\ UNCHANGED <<phase, setup, kernel_params, count, profile, rows>>

\* One after which main is over.
MainEnds(how) ==
  /\ Launching /\ phase' = how
  /\ UNCHANGED <<setup, kernel_params, count, sample, stage, ret_addr, heapVars, group,
                 profile, rows>>

\* What there is to scan: at execv no program has a heap yet.
MapsNow == IF stage = "INIT" THEN Maps
           ELSE {maps \in Maps : \A k \in DOMAIN maps : ~scan_proc_maps_line(maps[k])}

Scan ==
  \/ ~Scans /\ UNCHANGED heapVars
  \/ /\ Scans
     /\ \E maps \in MapsNow :
          /\ VmasFit(Len(maps))
          /\ heap_size' \in read_proc_maps_file(maps)
          /\ vma_idx' = vma_alloc(Len(maps))

ForkFails == MainEnds("failed")

\* vma_alloc has returned NULL, and the caller only says so.
ScanOverflows ==
  /\ Scans /\ \E maps \in MapsNow : ~VmasFit(Len(maps))
  /\ stage = "EXIT" => ret_addr = "return"
  /\ MainEnds("crashed")

\* The child ends before execv has stopped it.
NotStarted == LaunchEnds(stage, ret_addr) /\ UNCHANGED <<heapVars, group>>

NeverCalled ==
  stage = "INIT" /\ LaunchEnds("ENTRY", ret_addr) /\ UNCHANGED <<heapVars, group>>

EndsInside == stage = "INIT" /\ LaunchEnds("EXIT", "return") /\ Scan /\ UNCHANGED group

Timed ==
  /\ stage = "INIT" /\ LaunchEnds("INIT", "return") /\ Scan
  /\ \E cost \in Costs : samples' = ToInt(samples + cost) /\ spent' = spent + cost
  /\ UNCHANGED misread

\* Bug: the return address of an earlier program is kept.
LinkKept == ret_addr

\* At execv the link register is 0, where no breakpoint can be set.
LinkAtExec == "none"

\* execv's stop is taken for the entry: the program starts in the function, and
\* ends there.
EntryMisread ==
  stage = "ENTRY" /\ LaunchEnds("EXIT", LinkAtExec) /\ Scan /\ UNCHANGED group

\* It is taken for the return: the program goes on behind the call, to its end
\* or faulting twice, of which the second is taken for the entry.
ReturnMisread ==
  /\ stage = "EXIT" /\ ret_addr = "return"
  /\ \/ LaunchEnds("INIT", ret_addr) /\ UNCHANGED heapVars
     \/ LaunchEnds("EXIT", LinkAtExec) /\ Scan
  /\ \E gap \in Gaps : samples' = ToInt(samples + gap)
  /\ misread' = TRUE /\ UNCHANGED spent

\* A program started in the function returns to 0, or a stop is taken for a
\* return there: nothing can be restored at 0.
TraceFails == stage \in {"ENTRY", "EXIT"} /\ MainEnds("failed")

-----------------------------------------------------------------------------
\* Bug: page i of the profile is page i + 1 of the module.
NumberFromOne(n) == n + 1

PageNumber(n) == n

\* Bug: page is allocated before a run has found the heap.
RoomTooEarly == 0

Room == heap_size

NewGroup == sample' = 0 /\ samples' = ResetSamples /\ spent' = 0 /\ misread' = FALSE

\* malloc(0) still has room for one entry, which nothing reads.
StorePage ==
  /\ phase = "profile" /\ sample >= params.n /\ params.n # 0
  /\ allocated' = IF count = 0 THEN Room ELSE allocated
  /\ page' = Append(page, [cycles |-> Quotient(samples, params.n),
                           page_number |-> PageNumber(count)])
  /\ truth' = Append(truth, [cost |-> Quotient(spent, params.n), misread |-> misread])
  /\ count' = count + 1 /\ NewGroup
  /\ IF count + 1 < heap_size
       THEN /\ phase' = "profile"
            /\ kernel_params' = [kernel_params EXCEPT !.buff = <<PageNumber(count + 1)>>]
       ELSE phase' = "sort" /\ UNCHANGED kernel_params
  /\ UNCHANGED <<setup, stage, ret_addr, heapVars, rows>>

DividesByZero ==
  /\ phase = "profile" /\ params.n = 0 /\ phase' = "crashed"
  /\ UNCHANGED <<setup, kernel_params, count, sample, stage, ret_addr, heapVars, group,
                 profile, rows>>

\* Whether cmpfunc orders the entries, as qsort requires of it.
Consistent(s) ==
  \A j, k, l \in DOMAIN s :
    /\ cmpfunc(s[j], s[k]) < 0 <=> cmpfunc(s[k], s[j]) > 0
    /\ cmpfunc(s[j], s[k]) <= 0 /\ cmpfunc(s[k], s[l]) <= 0 => cmpfunc(s[j], s[l]) <= 0

\* The orders qsort may leave: any, if it is not.
qsort(s) ==
  {t \in {[j \in DOMAIN s |-> s[f[j]]] : f \in Bijection(DOMAIN s, DOMAIN s)} :
     Consistent(s) => \A j, k \in DOMAIN s : j < k => cmpfunc(t[j], t[k]) <= 0}

SortPages ==
  /\ phase = "sort"
  /\ \E sorted \in qsort(SubSeq(page, 1, heap_size)) :
       page' = sorted \o SubSeq(page, heap_size + 1, Len(page))
  /\ kernel_params' = [kernel_params EXCEPT !.shouldSkip = FALSE, !.buff = << >>]
  /\ params' = [params EXCEPT !.n = IF heap_size = 0 THEN @ ELSE 1]
  /\ count' = 1 /\ phase' = "list"
  /\ UNCHANGED <<args, cmd, entry, sample, stage, ret_addr, heapVars, group, allocated,
                 truth, rows>>

Listed(i) == [j \in 1..i |-> page[j].page_number]

ListPages ==
  /\ phase = "list" /\ count <= heap_size
  /\ kernel_params' = [kernel_params EXCEPT !.size = count, !.buff = Listed(count)]
  /\ NewGroup /\ phase' = "run"
  /\ UNCHANGED <<setup, count, stage, ret_addr, heapVars, profile, rows>>

\* output[i] is written and read back at once, past its end when i = heap_size.
WriteRow ==
  /\ phase = "run" /\ sample >= params.n
  /\ rows' = Append(rows, [cycles |-> Quotient(samples, params.n), spent |-> spent,
                           misread |-> misread, listed |-> ToSet(kernel_params.buff)])
  /\ kernel_params' = [kernel_params EXCEPT !.buff = << >>]
  /\ count' = count + 1 /\ phase' = "list"
  /\ UNCHANGED <<setup, sample, stage, ret_addr, heapVars, group, profile>>

CampaignOver ==
  /\ phase = "list" /\ count > heap_size /\ phase' = "over"
  /\ UNCHANGED <<setup, kernel_params, count, sample, stage, ret_addr, heapVars, group,
                 profile, rows>>

CampaignNext ==
  \/ ReadOption \/ Refuse \/ Accept
  \/ ForkFails \/ ScanOverflows \/ NotStarted \/ NeverCalled \/ EndsInside
  \/ Timed \/ EntryMisread \/ ReturnMisread \/ TraceFails
  \/ StorePage \/ DividesByZero \/ SortPages \/ ListPages \/ WriteRow \/ CampaignOver

CampaignSpec == CampaignInit /\ [][CampaignNext]_cvars

-----------------------------------------------------------------------------
TypeOK ==
  /\ phase \in {"options", "profile", "sort", "list", "run", "over", "failed", "crashed"}
  /\ samples \in -(IntMax + 1)..IntMax /\ heap_size \in 0..MaxPages
  /\ sample \in Nat /\ vma_idx \in -1..(MaxVmas - 1)
  /\ \A j \in DOMAIN page : page[j].cycles \in -(IntMax + 1)..IntMax

(* The average stored for a page is that of its own runs, up to the largest *)
(* sum an int holds, unless one of them added what execv's stop was taken   *)
(* for: an earlier page's programs cannot disturb it otherwise              *)
(* (functime.c:596, 605, 832, 855).                                         *)
AveragesExact ==
  \A j \in DOMAIN page :
    LET own == truth[page[j].page_number + 1] IN
    own.misread \/ page[j].cycles = own.cost

NoneMisread == \A k \in DOMAIN truth : ~truth[k].misread

(* The list the module is given while the program runs is as long as it     *)
(* says, and in the second loop no page left out was cheaper than a listed  *)
(* one, unless some page's runs were misread: what that adds may overflow   *)
(* the comparison and disorder all pages                                    *)
(* (functime.c:195, 605, 824, 833, 874, 891-898).                           *)
CheapestListed ==
  Launching =>
    /\ Len(kernel_params.buff) = kernel_params.size
    /\ phase = "run" /\ NoneMisread =>
         \A a \in ToSet(kernel_params.buff) :
           \A b \in (0..(heap_size - 1)) \ ToSet(kernel_params.buff) :
             truth[a + 1].cost <= truth[b + 1].cost

(* The pages listed are 0, which selects none, and all heap pages but the   *)
(* last: it is never measured, and stays noncacheable in every row          *)
(* (functime.c:833, 856, 862).                                              *)
LastPageNeverListed ==
  phase \in {"sort", "list", "run", "over"} /\ heap_size > 0 =>
    {page[j].page_number : j \in 1..heap_size} = 0..(heap_size - 1)

(* The entries of the profile lie in its allocation, made after the runs    *)
(* for page 0, except the one written when no heap was found                *)
(* (functime.c:853-862).                                                    *)
ProfileFits == Len(page) <= allocated \/ (heap_size = 0 /\ Len(page) = 1)

(* Each row is the cost of one run of its own, 0 if that did not return     *)
(* from the function, unless it was misread, with one page more than the    *)
(* row before; a program that ends well has all rows, and the last row lists *)
(* every profiled page (functime.c:596, 886-927).                           *)
RowsInOrder ==
  /\ \A i \in DOMAIN rows :
       /\ rows[i].misread \/ rows[i].cycles = rows[i].spent
       /\ \A k \in 1..(i - 1) :
            rows[k].listed \subseteq rows[i].listed /\ rows[k].listed # rows[i].listed
  /\ phase = "over" /\ entry # NoAddr => Len(rows) = heap_size

\* A program has ended before the function, or inside it when it was started
\* there.
Lapsed == stage = "ENTRY" \/ (stage = "EXIT" /\ ret_addr = "none")

(* One program that does not reach the function ends all timing: whatever   *)
(* the later ones do, no run adds to a sum any more, and the later pages   *)
(* and rows get 0 (functime.c:526, 547, 583-584, 596, 605, 610).            *)
LapseLasts == [][Lapsed => Lapsed' /\ samples' \in {0, samples}]_cvars
=============================================================================
