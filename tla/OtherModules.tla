---------------------------- MODULE OtherModules ----------------------------
(***************************************************************************)
(* The kernel modules besides both_multiple.c, which share the name         *)
(* /proc/memprofile with it and with each other:                            *)
(*   "except"    cacheable_except_one/all_cacheable_except_one.c            *)
(*   "except_sd" cacheable_except_one/all_cacheable_except_one_sd_vbs.c     *)
(*   "only"      noncacheable_except_one/all_noncacheable_except_one.c      *)
(*   "only_sd"   noncacheable_except_one/all_noncacheable_except_one_sd_vbs *)
(*   "areas"     functime_debugger/kernel/functime_kernel_module.c          *)
(* The first four act on one page number and on every process of a fixed    *)
(* name; the last on areas and pages of a pid.  Writes do not overlap here: *)
(* Memprofile has writers that race for the global request.                 *)
(***************************************************************************)
EXTENDS Integers, FiniteSets, Sequences, SequencesExt

CONSTANTS Areas,     \* of each process, in address order: [start, end], pages
          Heap,      \* which of them is the heap
          StartBrk, Brk,
          LastPage,  \* the page all_noncacheable_except_one.c takes for the last
          HelloPages, \* the pages hello's loop asks for
          Indices,   \* lists of area indices a request may hold
          PageLists, \* lists of page numbers a request may hold
          Numbers,   \* page numbers one may write to the one-page modules
          StorePages,\* bound: the pages programs store to
          Reaches,   \* bound: the page before which populating may run out of memory
          MaxWrites, MaxLoads \* bounds

Modules == {"except", "except_sd", "only", "only_sd", "areas"}
Procs   == {"hello", "mser"}
Pages   == UNION {a.start..(a.end - 1) : a \in ToSet(Areas)}
Space   == 0..(Areas[Len(Areas)].end + LastPage)

ASSUME LayoutAssumption ==
  /\ Areas \in Seq([start : Nat, end : Nat]) /\ Areas # << >> /\ Heap \in DOMAIN Areas
  /\ \A a \in ToSet(Areas) : 0 < a.start /\ a.start < a.end
  /\ Areas[Heap] = [start |-> StartBrk, end |-> Brk]
  /\ Pages \subseteq Space /\ StorePages \subseteq Pages /\ Indices \subseteq Seq(Nat)

VARIABLES
  loaded, entry,   \* the modules inserted; whose handler the /proc entry has
  fd,              \* the entry hello has open, "none" once it is removed
  pte, prot,       \* page table and vm_page_prot of each process
  dirty,           \* pages with stores that are only in its caches
  visited,         \* of the last write of a number: module, number and the
                   \* pages the callback was called for
  served,          \* areas of the last write to "areas", and what it listed
  hello, lines,    \* next page number of hello's loop, and what it has printed
  oops, writes, loads,
  asked, by        \* since exec: pages wanted noncacheable; <<module, by itself>>

memory == <<pte, prot, dirty>>
record == <<visited, served, asked, by>>
inserted == <<loaded, entry, fd>>
vars == <<inserted, memory, record, hello, lines, oops, writes, loads>>

-----------------------------------------------------------------------------
HeapPages == StartBrk..(Brk - 1)

\* Bug: page numbers from 0.
PageFromZero(a, n) == a.start + n

PageOf(a, n) == a.start + n - 1

\* hello has called mlockall before its first write; mser touches as it goes.
Fresh(p) == [x \in Space |-> IF x \in Pages /\ p = "hello" THEN "cached" ELSE "absent"]

Init ==
  /\ loaded = {} /\ entry = "none" /\ fd = "none" /\ oops = FALSE /\ writes = 0 /\ loads = 0
  /\ pte = [p \in Procs |-> Fresh(p)]
  /\ prot = [p \in Procs |-> [i \in DOMAIN Areas |-> "cached"]]
  /\ dirty = [p \in Procs |-> {}]
  /\ visited = [of |-> <<"none", 0>>, pages |-> {}] /\ served = [asked |-> << >>, got |-> << >>]
  /\ hello = 1 /\ lines = << >>
  /\ asked = [p \in Procs |-> {}] /\ by = [p \in Procs |-> {}]

\* The areas that pass for the heap: the walk does not stop at the first.
MatchesHeap(i) == Areas[i].start <= Brk /\ Areas[i].end >= StartBrk
HeapAreas == {i \in DOMAIN Areas : MatchesHeap(i)}
AreaOf(x) == CHOOSE i \in DOMAIN Areas : Areas[i].start <= x /\ x < Areas[i].end

-----------------------------------------------------------------------------
(* What the callback does to the pages it changes: the area's vm_page_prot  *)
(* and the entries; an absent page becomes frame 0.                         *)

Change(p, areas, pages, cleaned) ==
  /\ prot' = [prot EXCEPT ![p] = [i \in DOMAIN Areas |->
                                    IF i \in areas THEN "noncached" ELSE @[i]]]
  /\ pte' = [pte EXCEPT ![p] = [x \in Space |->
               IF x \notin pages THEN @[x]
               ELSE IF @[x] = "absent" THEN "frame0" ELSE "noncached"]]
  /\ dirty' = [dirty EXCEPT ![p] = @ \ cleaned]

Names(m) == IF m \in {"except", "only"} THEN "hello" ELSE "mser"

OnePages(n) == {PageOf(Areas[i], n) : i \in HeapAreas}
AllBut(n)   == UNION {Areas[i].start..(Areas[i].end - 1) \ {PageOf(Areas[i], n)} :
                        i \in HeapAreas}

\* Bug: no cache is cleaned.
CleanedByNone(w, p, pages) == {}

\* Cleaning by virtual address reaches the program's lines only if the writer
\* is the program itself.
CleanedBy(w, p, pages) == IF w = p THEN pages ELSE {}

Visits(m, n, pages) == visited' = [of |-> <<m, n>>, pages |-> pages]

\* all_cacheable_except_one.c cleans no cache.
print_mem_except(w, n) ==
  /\ Change("hello", HeapAreas, OnePages(n), {})
  /\ Visits("except", n, OnePages(n))

Baseline(n) == n = 0

print_mem_except_sd(w, n) ==
  IF Baseline(n) THEN Visits("except_sd", n, {}) /\ UNCHANGED memory
  ELSE /\ Change("mser", HeapAreas, OnePages(n), CleanedBy(w, "mser", OnePages(n)))
       /\ Visits("except_sd", n, OnePages(n))

print_mem_only_sd(w, n) ==
  /\ Change("mser", HeapAreas, AllBut(n), CleanedBy(w, "mser", AllBut(n)))
  /\ Visits("only_sd", n, UNION {Areas[i].start..(Areas[i].end - 1) : i \in HeapAreas})

\* Bug: the range before page n has it too.
RangesInclusive(a, n) == <<[from |-> a.start, len |-> n],
                           [from |-> a.start + n, len |-> a.end - a.start - n]>>

\* Two ranges around page n, one of them for the first and the supposed last.
Ranges(a, n) ==
  LET before == [from |-> a.start, len |-> n - 1]
      after  == [from |-> a.start + n, len |-> a.end - a.start - n]
  IN IF n = 1 THEN <<[after EXCEPT !.from = a.start + 1]>>
     ELSE IF n = LastPage THEN <<before>> ELSE <<before, after>>

\* apply_to_page_range refuses a range that is empty or ends before it starts.
InRange(r) == IF r.len <= 0 THEN {} ELSE r.from..(r.from + r.len - 1)

\* The change itself is commented out in this module.
print_mem_only(w, n) ==
  /\ Visits("only", n, UNION {InRange(r) :
               r \in UNION {ToSet(Ranges(Areas[i], n)) : i \in HeapAreas}})
  /\ UNCHANGED memory

Effect(m, w, n) == CASE m = "except"    -> print_mem_except(w, n)
                     [] m = "except_sd" -> print_mem_except_sd(w, n)
                     [] m = "only"      -> print_mem_only(w, n)
                     [] m = "only_sd"   -> print_mem_only_sd(w, n)

\* What the writer wants of the heap; 0 stands for no page.
Wanted(m, n) ==
  CASE m \in {"except", "except_sd"} -> {StartBrk + n - 1} \cap HeapPages
    [] m = "only"    -> {}
    [] m = "only_sd" -> HeapPages \ {StartBrk + n - 1}

Stale    == entry # "none" /\ entry \notin loaded
CanWrite == ~oops /\ writes < MaxWrites
WriteCounted == writes' = writes + 1 /\ UNCHANGED <<inserted, loads>>

\* Every process of the name is served, whoever writes.
WriteNumber(m, w, n) ==
  LET p == Names(m) IN
  /\ CanWrite /\ m \in loaded \ {"areas"}
  /\ Effect(m, w, n)
  /\ asked' = [asked EXCEPT ![p] = @ \cup Wanted(m, n)]
  /\ by' = [by EXCEPT ![p] = @ \cup {<<m, w = p>>}]
  /\ WriteCounted /\ UNCHANGED <<served, oops>>

\* A write to the entry of a module that is gone runs code that is gone.
WriteStale ==
  /\ CanWrite /\ Stale /\ oops' = TRUE /\ WriteCounted
  /\ UNCHANGED <<memory, record, hello, lines>>

\* cacheable_except_one/hello.c writes 1, 2, 3 ... to the entry it opened and
\* prints a line after each; that the write fails does not stop it.
HelloWrites ==
  /\ hello <= HelloPages
  /\ \/ fd \in loaded \ {"areas"} /\ WriteNumber(fd, "hello", hello)
     \/ fd = "none" /\ CanWrite /\ WriteCounted /\ UNCHANGED <<memory, record, oops>>
  /\ lines' = Append(lines, {x \in Space : pte'["hello"][x] = "noncached"})
  /\ hello' = hello + 1

\* noncacheable_except_one/hello.c, which has the same name, writes the number it
\* was started with, once.
HelloOnce ==
  /\ hello = 1 /\ fd \in loaded \ {"areas"}
  /\ \E n \in Numbers : WriteNumber(fd, "hello", n)
  /\ hello' = HelloPages + 1 /\ UNCHANGED lines

\* mser, and commands: only the sd-vbs module of "except" knows 0.
OthersWrite ==
  /\ entry \in loaded \ {"areas"}
  /\ \E w \in {"mser", "shell"}, n \in Numbers \cup {0} :
       (n # 0 \/ entry = "except_sd") /\ WriteNumber(entry, w, n)
  /\ UNCHANGED <<hello, lines>>

-----------------------------------------------------------------------------
(* functime_kernel_module.c.                                                *)

\* Bug: each index is looked for from the first area again.
VmaFinderRestarts(list) == SelectSeq(list, LAMBDA i : i < Len(Areas))

\* One walk over the areas for all indices: it goes on behind the area it
\* last served, and an index it has passed uses it up.
Advance(walk, i) ==
  IF i >= walk.count /\ i < Len(Areas)
    THEN [count |-> i + 1, got |-> Append(walk.got, i)]
    ELSE [count |-> Len(Areas), got |-> walk.got]

\* The walk before each of the indices, and behind the last.
Walk(list) ==
  LET walk[k \in 0..Len(list)] ==
        IF k = 0 THEN [count |-> 0, got |-> << >>] ELSE Advance(walk[k - 1], list[k])
  IN walk

vma_finder(list) == Walk(list)[Len(list)].got

ListedIn(a, list) == {PageOf(a, n) : n \in ToSet(list)}

cacheability_modifier(a, r) ==
  {x \in a.start..(a.end - 1) : IF x \in ListedIn(a, r.page_addr)
                                  THEN r.shouldSkip ELSE ~r.shouldSkip}

\* Each area served is populated first: its absent pages get its protection,
\* up to where memory runs out, which is ignored.
__mm_populate_mod(p, areas, reach) ==
  [x \in Space |-> IF /\ x \in Pages /\ pte[p][x] = "absent"
                      /\ AreaOf(x) \in areas /\ x < reach
                     THEN prot[p][AreaOf(x)] ELSE pte[p][x]]

Flipped(kind) == IF kind = "absent" THEN "frame0" ELSE "noncached"

get_vma(r, reach) ==
  LET got   == vma_finder(r.indices)
      areas == {i + 1 : i \in ToSet(got)}
      pages == UNION {cacheability_modifier(Areas[i], r) : i \in areas}
      flips == {i \in areas : cacheability_modifier(Areas[i], r) # {}}
      come  == __mm_populate_mod(r.pid, areas, reach)
  IN /\ prot' = [prot EXCEPT ![r.pid] = [i \in DOMAIN Areas |->
                   IF i \in flips THEN "noncached" ELSE @[i]]]
     /\ pte' = [pte EXCEPT ![r.pid] = [x \in Space |->
                  IF x \in pages THEN Flipped(come[x]) ELSE come[x]]]
     /\ dirty' = [dirty EXCEPT ![r.pid] = @ \ pages]
     /\ served' = [asked |-> r.indices, got |-> got]
     /\ asked' = [asked EXCEPT ![r.pid] = @ \cup pages]

Requests == [indices : Indices, page_addr : PageLists, shouldSkip : BOOLEAN, pid : Procs]

WriteAreas ==
  /\ CanWrite /\ entry = "areas" /\ entry \in loaded
  /\ \E r \in Requests, reach \in Reaches : get_vma(r, reach)
  /\ WriteCounted /\ UNCHANGED <<visited, by, hello, lines, oops>>

\* filling_params is void: a fault in one of its three copies is not noticed,
\* and a user pointer that was not replaced is given to kfree.
FillingFaults ==
  /\ CanWrite /\ entry = "areas" /\ entry \in loaded /\ oops' = TRUE /\ WriteCounted
  /\ UNCHANGED <<memory, record, hello, lines>>

-----------------------------------------------------------------------------
(* Loading and unloading.                                                   *)

Entry(e) == entry' = e /\ fd' = "none"
LoadCounted == loads < MaxLoads /\ loads' = loads + 1 /\ ~oops
ModuleStep  == UNCHANGED <<memory, record, hello, lines, oops, writes>>

\* The error path removes the name that proc_create has found in its way,
\* which is the entry of another module, loaded or gone.
EntryAfterRefusal(m) == "none"

\* The error path returns no value: most likely the module stays, without an
\* entry.
Insmod(m) ==
  /\ m \notin loaded /\ LoadCounted
  /\ IF entry = "none" THEN loaded' = loaded \cup {m} /\ Entry(m)
     ELSE loaded' \in {loaded, loaded \cup {m}} /\ Entry(EntryAfterRefusal(m))
  /\ ModuleStep

\* The modules that clean the second-level cache map its registers first.
MapsController(m) == m \in {"except_sd", "only_sd", "areas"}

\* The 1 they return when they cannot is no error to the loader.
InsmodUnmapped(m) ==
  /\ m \notin loaded /\ MapsController(m) /\ LoadCounted
  /\ loaded' = loaded \cup {m} /\ UNCHANGED <<entry, fd>> /\ ModuleStep

\* Bug: no module removes an entry.
RemovesNone(m) == FALSE

\* The two modules for hello do not.
RemovesEntry(m) == m \in {"except_sd", "only_sd", "areas"}

\* The entry is removed by its name, whoever made it.
Rmmod(m) ==
  /\ ~oops /\ m \in loaded /\ loaded' = loaded \ {m}
  /\ IF RemovesEntry(m) THEN Entry("none") ELSE UNCHANGED <<entry, fd>>
  /\ ModuleStep /\ UNCHANGED loads

-----------------------------------------------------------------------------
(* The programs.                                                            *)
\* A page that comes later takes the attribute of its area.
Store(p, x) ==
  /\ ~oops
  /\ LET kind == IF pte[p][x] = "absent" THEN prot[p][AreaOf(x)] ELSE pte[p][x] IN
       /\ pte' = [pte EXCEPT ![p][x] = kind]
       /\ dirty' = [dirty EXCEPT ![p] = IF kind = "cached" THEN @ \cup {x} ELSE @]
  /\ UNCHANGED <<inserted, prot, record, hello, lines, oops, writes, loads>>

\* hello opens the entry once, before its loop.
Exec(p) ==
  /\ ~oops /\ ~(p = "hello" /\ Stale)
  /\ pte' = [pte EXCEPT ![p] = Fresh(p)]
  /\ prot' = [prot EXCEPT ![p] = [i \in DOMAIN Areas |-> "cached"]]
  /\ dirty' = [dirty EXCEPT ![p] = {}]
  /\ asked' = [asked EXCEPT ![p] = {}] /\ by' = [by EXCEPT ![p] = {}]
  /\ IF p = "hello" THEN hello' = 1 /\ lines' = << >> /\ fd' = entry
     ELSE UNCHANGED <<hello, lines, fd>>
  /\ UNCHANGED <<loaded, entry, visited, served, oops, writes, loads>>

Next == \/ HelloWrites \/ HelloOnce \/ OthersWrite \/ WriteAreas \/ FillingFaults \/ WriteStale
        \/ \E m \in Modules : Insmod(m) \/ InsmodUnmapped(m) \/ Rmmod(m)
        \/ \E p \in Procs : Exec(p) \/ \E x \in StorePages : Store(p, x)

Spec == Init /\ [][Next]_vars

-----------------------------------------------------------------------------
(* Properties.                                                              *)

Changed(p) == {x \in Space : pte[p][x] \in {"noncached", "frame0"}}

\* However the modules follow each other, the pages of a process that have been
\* changed are those that were asked for and those that came later in an area
\* that was changed; hello, which is locked in memory, has none of the latter.
AskedPagesChanged ==
  /\ Changed("hello") = asked["hello"]
  /\ \A p \in Procs : /\ asked[p] \subseteq Changed(p)
                      /\ \A x \in Changed(p) \ asked[p] : prot[p][AreaOf(x)] = "noncached"

\* functime_kernel_module.c serves the indices up to the first that is not
\* beyond its predecessor or not in the process, and none after it.
ServedUntilDescent ==
  /\ IsPrefix(served.got, served.asked)
  /\ \A k \in DOMAIN served.asked :
       (\A j \in 1..k : /\ served.asked[j] < Len(Areas)
                        /\ j > 1 => served.asked[j - 1] < served.asked[j])
         <=> k \in DOMAIN served.got

\* all_noncacheable_except_one.c walks every page of the heap but the one,
\* for the first page, the last and those between.
OthersVisited ==
  visited.of[1] = "only" =>
    visited.pages = HeapPages \ {StartBrk + visited.of[2] - 1}

\* The entry that outlives its module is always of one of the two for hello,
\* although every module removes or loses entries of others; and what hello has
\* open is nothing, or that entry.
StaleEntryIsHellos == (Stale => entry \in {"except", "only"}) /\ fd \in {"none", entry}

\* No store is left in a cache that the program no longer reads through, unless
\* the module cleans none, or a module that cleans by address was written to by
\* another process.
StoresNotLeftInCache ==
  \A p \in Procs :
    (\A b \in by[p] : b[1] # "except" /\ b[2]) =>
      \A x \in dirty[p] : pte[p][x] # "noncached"

\* The module's first comment: it makes "just one page at a time
\* non-cacheable" (all_cacheable_except_one.c:1), so that hello, left to itself,
\* times page k alone at its k-th line, which says "Cycles when page k is
\* non-cacheable" (cacheable_except_one/hello.c:90, 126-127).
OnePageAtATime ==
  (fd = "except" /\ by["hello"] \subseteq {<<"except", TRUE>>}) =>
    \A k \in DOMAIN lines : lines[k] = {StartBrk + k - 1}
=============================================================================
