------------------------- MODULE OtherModulesProofs -------------------------
(***************************************************************************)
(* The invariants that OtherModules' run checks, for every layout   *)
(* of the processes, every request and any number of writes and loads.      *)
(***************************************************************************)
EXTENDS OtherModules, Iteration

(* The walk finds the heap alone, the number all_noncacheable_except_one.c  *)
(* takes for the last page is that of the last page, and none beyond it is  *)
(* asked for.                                                               *)
Fitting ==
  /\ \A i \in DOMAIN Areas : MatchesHeap(i) <=> i = Heap
  /\ StartBrk \in Nat /\ Brk \in Nat /\ LastPage = Brk - StartBrk
  /\ Numbers \subseteq 1..LastPage /\ HelloPages \in Nat /\ HelloPages <= LastPage

-----------------------------------------------------------------------------
(* Which entry there is, whose it is, and what hello has open.              *)
Owned == /\ entry \in loaded \cup {"none", "except", "only"}
         /\ fd \in {"none", entry}

(* A program, or a write, inserts no module and opens only what there is.   *)
LEMMA OthersKeepOwned ==
  ASSUME Owned, NEW p \in Procs,
         HelloWrites \/ HelloOnce \/ OthersWrite \/ WriteAreas \/ FillingFaults \/ WriteStale
           \/ Exec(p) \/ \E x \in StorePages : Store(p, x)
  PROVE Owned'
<1>1. CASE Exec(p)
  <2>1. entry' = entry /\ loaded' = loaded /\ fd' \in {fd, entry}  BY <1>1 DEF Exec
  <2>2. QED BY <2>1 DEF Owned
<1>2. CASE ~Exec(p)
  <2>1. UNCHANGED inserted
    BY <1>2 DEF HelloWrites, HelloOnce, OthersWrite, WriteAreas, FillingFaults, WriteStale, Store,
                WriteNumber, WriteCounted
  <2>2. QED BY <2>1 DEF Owned, inserted
<1>3. QED BY <1>1, <1>2

(* A module that is inserted owns the entry, or there is none; one that is   *)
(* removed takes the entry along unless it is one of the two for hello.      *)
LEMMA LoadingKeepsOwned ==
  ASSUME Owned, NEW m \in Modules, Insmod(m) \/ InsmodUnmapped(m) \/ Rmmod(m)
  PROVE Owned'
<1>1. CASE Insmod(m)
  <2>1. \/ loaded' = loaded \cup {m} /\ entry' = m /\ fd' = "none"
        \/ entry' = "none" /\ fd' = "none"
    BY <1>1 DEF Insmod, Entry, EntryAfterRefusal
  <2>2. QED BY <2>1 DEF Owned
<1>2. CASE InsmodUnmapped(m)
  BY <1>2 DEF InsmodUnmapped, Owned
<1>3. CASE Rmmod(m)
  <2>1. CASE RemovesEntry(m)
    BY <1>3, <2>1 DEF Rmmod, Entry, Owned
  <2>2. CASE ~RemovesEntry(m)
    <3>1. m \in {"except", "only"}  BY <2>2 DEF RemovesEntry, Modules
    <3>2. loaded' = loaded \ {m} /\ entry' = entry /\ fd' = fd
      BY <1>3, <2>2 DEF Rmmod
    <3>3. QED BY <3>1, <3>2 DEF Owned
  <2>3. QED BY <2>1, <2>2
<1>4. QED BY <1>1, <1>2, <1>3

LEMMA OwnedStep == ASSUME Owned, [Next]_vars PROVE Owned'
<1>1. CASE Next
  <2>1. ASSUME NEW m \in Modules, Insmod(m) \/ InsmodUnmapped(m) \/ Rmmod(m) PROVE Owned'
    BY <2>1, LoadingKeepsOwned
  <2>2. ASSUME NEW p \in Procs,
               HelloWrites \/ HelloOnce \/ OthersWrite \/ WriteAreas \/ FillingFaults \/ WriteStale
                 \/ Exec(p) \/ \E x \in StorePages : Store(p, x)
        PROVE Owned'
    BY <2>2, OthersKeepOwned
  <2>3. "hello" \in Procs  BY DEF Procs
  <2>4. QED BY <1>1, <2>1, <2>2, <2>3 DEF Next
<1>2. CASE UNCHANGED vars
  BY <1>2 DEF Owned, vars, inserted
<1>3. QED BY <1>1, <1>2

(* In whatever order the five modules are inserted and removed, whether or  *)
(* not a refused one stays, only the entry of a module for hello can outlive *)
(* it: a write to /proc/memprofile runs no other code that is gone           *)
(* (all_cacheable_except_one.c:158, all_noncacheable_except_one.c:206,       *)
(* functime_kernel_module.c:545).                                           *)
THEOREM EntryOutlived == Spec => []StaleEntryIsHellos
<1>1. Init => Owned  BY DEF Init, Owned
<1>2. Owned /\ [Next]_vars => Owned'  BY OwnedStep
<1>3. Owned => StaleEntryIsHellos  BY DEF Owned, StaleEntryIsHellos, Stale
<1>4. QED BY <1>1, <1>2, <1>3, PTL DEF Spec

-----------------------------------------------------------------------------
(* The ranges around page n of an area cover all its pages but that one.    *)
LEMMA RangesCoverOthers ==
  ASSUME NEW a, a.start \in Nat, a.end \in Nat, LastPage = a.end - a.start,
         NEW n \in 1..LastPage
  PROVE UNION {InRange(r) : r \in ToSet(Ranges(a, n))}
          = (a.start..(a.end - 1)) \ {a.start + n - 1}
<1>1. DEFINE before == [from |-> a.start, len |-> n - 1]
             after  == [from |-> a.start + n, len |-> a.end - a.start - n]
<1>2. InRange(before) = a.start..(a.start + n - 2)
  BY DEF InRange
<1>3. InRange(after) = (a.start + n)..(a.end - 1)
  BY DEF InRange
<1>4. CASE n = 1
  <2>1. Ranges(a, n) = <<after>>  BY <1>4 DEF Ranges
  <2>2. ToSet(Ranges(a, n)) = {after}  BY <2>1 DEF ToSet
  <2>3. QED BY <2>2, <1>3, <1>4
<1>5. CASE n # 1 /\ n = LastPage
  <2>1. Ranges(a, n) = <<before>>  BY <1>5 DEF Ranges
  <2>2. ToSet(Ranges(a, n)) = {before}  BY <2>1 DEF ToSet
  <2>3. UNION {InRange(r) : r \in ToSet(Ranges(a, n))} = InRange(before)  BY <2>2
  <2>4. a.start..(a.start + n - 2) = (a.start..(a.end - 1)) \ {a.start + n - 1}  BY <1>5
  <2>5. QED BY <2>3, <2>4, <1>2
<1>6. CASE n # 1 /\ n # LastPage
  <2>1. Ranges(a, n) = <<before, after>>  BY <1>6 DEF Ranges
  <2>2. ToSet(Ranges(a, n)) = {before, after}  BY <2>1 DEF ToSet
  <2>3. UNION {InRange(r) : r \in ToSet(Ranges(a, n))} = InRange(before) \cup InRange(after)
    BY <2>2
  <2>4. (a.start..(a.start + n - 2)) \cup ((a.start + n)..(a.end - 1))
          = (a.start..(a.end - 1)) \ {a.start + n - 1}
    BY <1>6
  <2>5. QED BY <2>3, <2>4, <1>2, <1>3
<1>7. QED BY <1>4, <1>5, <1>6

(* The number hello writes next is that of a page.                          *)
Walks == OthersVisited /\ hello \in Nat \ {0} /\ loaded \subseteq Modules

(* Of the modules only all_noncacheable_except_one.c walks the ranges.       *)
LEMMA WriteWalks ==
  ASSUME Fitting, OthersVisited, NEW m \in Modules \ {"areas"}, NEW w, NEW n \in Nat,
         m = "only" => n \in 1..LastPage, WriteNumber(m, w, n)
  PROVE OthersVisited'
<1>1. Effect(m, w, n)  BY DEF WriteNumber
<1>2. CASE m = "only"
  <2>1. print_mem_only(w, n)  BY <1>1, <1>2 DEF Effect
  <2>2. HeapAreas = {Heap}  BY LayoutAssumption DEF Fitting, HeapAreas
  <2>3. visited' = [of |-> <<"only", n>>,
                    pages |-> UNION {InRange(r) : r \in ToSet(Ranges(Areas[Heap], n))}]
    <3>1. UNION {ToSet(Ranges(Areas[i], n)) : i \in HeapAreas} = ToSet(Ranges(Areas[Heap], n))
      BY <2>2
    <3>2. QED BY <2>1, <3>1 DEF print_mem_only, Visits
  <2>4. /\ Areas[Heap].start = StartBrk /\ Areas[Heap].end = Brk
        /\ StartBrk \in Nat /\ Brk \in Nat /\ LastPage = Brk - StartBrk
    BY LayoutAssumption DEF Fitting
  <2>5. UNION {InRange(r) : r \in ToSet(Ranges(Areas[Heap], n))}
          = (StartBrk..(Brk - 1)) \ {StartBrk + n - 1}
    BY <1>2, <2>4, RangesCoverOthers
  <2>6. QED BY <2>3, <2>5 DEF OthersVisited, HeapPages
<1>3. CASE m # "only"
  <2>1. \/ m = "except" /\ print_mem_except(w, n)
        \/ m = "except_sd" /\ print_mem_except_sd(w, n)
        \/ m = "only_sd" /\ print_mem_only_sd(w, n)
    BY <1>1, <1>3 DEF Effect, Modules
  <2>2. \E pages : visited' = [of |-> <<m, n>>, pages |-> pages]
    BY <2>1 DEF print_mem_except, print_mem_except_sd, print_mem_only_sd, Visits
  <2>3. visited'.of[1] = m  BY <2>2
  <2>4. QED BY <1>3, <2>3 DEF OthersVisited
<1>4. QED BY <1>2, <1>3

(* hello and the other writers name pages of the heap.                      *)
LEMMA WritersWalk ==
  ASSUME Fitting, Walks, HelloWrites \/ HelloOnce \/ OthersWrite
  PROVE Walks'
<1>1. CASE HelloWrites
  <2>1. hello <= HelloPages /\ hello' = hello + 1 /\ hello \in 1..LastPage
    BY <1>1 DEF HelloWrites, Walks, Fitting
  <2>2. CASE fd \in loaded \ {"areas"} /\ WriteNumber(fd, "hello", hello)
    <3>1. fd \in Modules \ {"areas"} /\ hello \in Nat /\ loaded' = loaded
      BY <2>1, <2>2 DEF Walks, WriteNumber, WriteCounted, inserted
    <3>2. OthersVisited'  BY <2>1, <2>2, <3>1, WriteWalks DEF Walks
    <3>3. QED BY <2>1, <3>1, <3>2 DEF Walks
  <2>3. CASE CanWrite /\ WriteCounted /\ UNCHANGED <<memory, record, oops>>
    BY <2>1, <2>3 DEF Walks, OthersVisited, WriteCounted, inserted, record
  <2>4. QED BY <1>1, <2>2, <2>3 DEF HelloWrites
<1>2. CASE OthersWrite
  <2>1. PICK w \in {"mser", "shell"}, n \in Numbers \cup {0} :
          (n # 0 \/ entry = "except_sd") /\ WriteNumber(entry, w, n)
    BY <1>2 DEF OthersWrite
  <2>2. entry \in Modules \ {"areas"} /\ UNCHANGED <<hello, loaded>>
    BY <1>2, <2>1 DEF OthersWrite, Walks, WriteNumber, WriteCounted, inserted
  <2>3. n \in Nat /\ (entry = "only" => n \in 1..LastPage)
    BY <2>1 DEF Fitting
  <2>4. OthersVisited'  BY <2>1, <2>2, <2>3, WriteWalks DEF Walks
  <2>5. QED BY <2>2, <2>4 DEF Walks
<1>3. CASE HelloOnce
  <2>1. PICK n \in Numbers : WriteNumber(fd, "hello", n)
    BY <1>3 DEF HelloOnce
  <2>2. fd \in Modules \ {"areas"} /\ n \in 1..LastPage
    BY <1>3 DEF HelloOnce, Walks, Fitting
  <2>3. OthersVisited'  BY <2>1, <2>2, WriteWalks DEF Walks
  <2>4. hello' \in Nat \ {0} /\ loaded' = loaded
    BY <1>3, <2>1 DEF HelloOnce, Fitting, WriteNumber, WriteCounted, inserted
  <2>5. QED BY <2>3, <2>4 DEF Walks
<1>4. QED BY <1>1, <1>2, <1>3

(* Nothing else counts for a walk.                                          *)
LEMMA RestWalks ==
  ASSUME Walks, NEW p \in Procs, NEW m \in Modules,
         WriteAreas \/ FillingFaults \/ WriteStale \/ Exec(p)
           \/ Insmod(m) \/ InsmodUnmapped(m) \/ Rmmod(m)
           \/ \E x \in StorePages : Store(p, x)
  PROVE Walks'
<1>1. visited' = visited
  BY DEF WriteAreas, FillingFaults, WriteStale, Exec, Insmod, InsmodUnmapped, Rmmod, Store,
         ModuleStep, record
<1>2. hello' \in {hello, 1}
  BY DEF WriteAreas, FillingFaults, WriteStale, Exec, Insmod, InsmodUnmapped, Rmmod, Store,
         ModuleStep
<1>3. loaded' \subseteq loaded \cup {m}
  BY DEF WriteAreas, FillingFaults, WriteStale, Exec, Insmod, InsmodUnmapped, Rmmod, Store,
         WriteCounted, inserted
<1>4. OthersVisited'  BY <1>1 DEF Walks, OthersVisited
<1>5. QED BY <1>2, <1>3, <1>4 DEF Walks

LEMMA WalksStep == ASSUME Fitting, Walks, [Next]_vars PROVE Walks'
<1>1. CASE HelloWrites \/ HelloOnce \/ OthersWrite
  BY <1>1, WritersWalk
<1>2. CASE UNCHANGED vars
  BY <1>2 DEF Walks, OthersVisited, vars, inserted, record
<1>3. CASE Next /\ ~(HelloWrites \/ HelloOnce \/ OthersWrite)
  <2>1. "hello" \in Procs /\ "only" \in Modules  BY DEF Procs, Modules
  <2>2. PICK p \in Procs, m \in Modules :
          WriteAreas \/ FillingFaults \/ WriteStale \/ Exec(p)
            \/ Insmod(m) \/ InsmodUnmapped(m) \/ Rmmod(m)
            \/ \E x \in StorePages : Store(p, x)
    BY <1>3, <2>1 DEF Next
  <2>3. QED BY <2>2, RestWalks
<1>4. QED BY <1>1, <1>2, <1>3

(* For every size of the heap and whatever is written to which module, the   *)
(* ranges before and after the page all_noncacheable_except_one.c is given   *)
(* cover every other page of the heap, for the first page and the last too   *)
(* (all_noncacheable_except_one.c:132-145).                                 *)
THEOREM OthersCovered == Fitting => (Spec => []OthersVisited)
<1>1. SUFFICES ASSUME Fitting PROVE Spec => []OthersVisited  OBVIOUS
<1>2. Init => Walks  BY DEF Init, Walks, OthersVisited
<1>3. Walks /\ [Next]_vars => Walks'  BY <1>1, WalksStep
<1>4. Walks => OthersVisited  BY DEF Walks
<1>5. QED BY <1>2, <1>3, <1>4, PTL DEF Spec

-----------------------------------------------------------------------------
(* Page tables and caches.  A page that has stores in a cache is cacheable, *)
(* as long as the process was served only by modules that clean and only by *)
(* its own writes.                                                          *)
Kinds == {"absent", "cached", "noncached", "frame0"}

OwnWrites(p) == \A b \in by[p] : b[1] # "except" /\ b[2]

Tables ==
  /\ pte \in [Procs -> [Space -> Kinds]]
  /\ prot \in [Procs -> [DOMAIN Areas -> {"cached", "noncached"}]]
  /\ dirty \in [Procs -> SUBSET Space]
  /\ by \in [Procs -> SUBSET (Modules \X BOOLEAN)]

DirtyCacheable ==
  \A p \in Procs : OwnWrites(p) => \A x \in dirty[p] : pte[p][x] = "cached"

Clean == Tables /\ DirtyCacheable /\ loaded \subseteq Modules

LEMMA Member == ASSUME NEW S, NEW s \in Seq(S), NEW i \in DOMAIN s PROVE s[i] \in S
  OBVIOUS

(* A page of an area is found in one.                                       *)
LEMMA AreaFound == ASSUME NEW x \in Pages PROVE AreaOf(x) \in DOMAIN Areas
<1>1. PICK a \in ToSet(Areas) : x \in a.start..(a.end - 1)  BY DEF Pages
<1>2. PICK i \in DOMAIN Areas : Areas[i] = a  BY <1>1 DEF ToSet
<1>3. Areas[i] \in [start : Nat, end : Nat]
  <2>1. Areas \in Seq([start : Nat, end : Nat])  BY LayoutAssumption
  <2>2. QED BY <2>1, <1>2, Member
<1>4. Areas[i].start <= x /\ x < Areas[i].end  BY <1>1, <1>2, <1>3
<1>5. QED BY <1>2, <1>4 DEF AreaOf

(* One process served by one of the four: what is changed has been cleaned, *)
(* or the process is not in the condition any more.                         *)
LEMMA ChangeClean ==
  ASSUME Tables, DirtyCacheable, NEW p \in Procs, NEW areas, NEW pages, NEW cleaned,
         Change(p, areas, pages, cleaned),
         by' \in [Procs -> SUBSET (Modules \X BOOLEAN)],
         \A q \in Procs : by[q] \subseteq by'[q],
         OwnWrites(p)' => pages \subseteq cleaned
  PROVE  Tables' /\ DirtyCacheable'
<1>1. pte' \in [Procs -> [Space -> Kinds]]
  <2>1. [x \in Space |-> IF x \notin pages THEN pte[p][x]
                         ELSE IF pte[p][x] = "absent" THEN "frame0" ELSE "noncached"]
          \in [Space -> Kinds]
    BY DEF Tables, Kinds
  <2>2. QED BY <2>1 DEF Tables, Change
<1>2. prot' \in [Procs -> [DOMAIN Areas -> {"cached", "noncached"}]]
  <2>1. [i \in DOMAIN Areas |-> IF i \in areas THEN "noncached" ELSE prot[p][i]]
          \in [DOMAIN Areas -> {"cached", "noncached"}]
    BY DEF Tables
  <2>2. QED BY <2>1 DEF Tables, Change
<1>3. dirty' \in [Procs -> SUBSET Space]  BY DEF Tables, Change
<1>4. ASSUME NEW q \in Procs, OwnWrites(q)', NEW x \in dirty'[q]
      PROVE  pte'[q][x] = "cached"
  <2>1. OwnWrites(q)  BY <1>4 DEF OwnWrites
  <2>2. x \in dirty[q] /\ x \in Space  BY <1>4 DEF Change, Tables
  <2>3. pte[q][x] = "cached"  BY <2>1, <2>2 DEF DirtyCacheable
  <2>4. CASE q # p
    <3>1. pte'[q] = pte[q]  BY <2>4 DEF Change, Tables
    <3>2. QED BY <2>3, <3>1
  <2>5. CASE q = p
    <3>1. x \notin pages  BY <1>4, <2>5 DEF Change, Tables
    <3>2. pte'[p][x] = pte[p][x]  BY <2>2, <3>1 DEF Change, Tables
    <3>3. QED BY <2>3, <2>5, <3>2
  <2>6. QED BY <2>4, <2>5
<1>5. QED BY <1>1, <1>2, <1>3, <1>4 DEF Tables, DirtyCacheable

LEMMA UnchangedClean ==
  ASSUME Tables, DirtyCacheable, UNCHANGED memory,
         by' \in [Procs -> SUBSET (Modules \X BOOLEAN)],
         \A q \in Procs : by[q] \subseteq by'[q]
  PROVE  Tables' /\ DirtyCacheable'
<1>1. Tables'  BY DEF Tables, memory
<1>2. \A q \in Procs : OwnWrites(q)' => OwnWrites(q)  BY DEF OwnWrites
<1>3. QED BY <1>1, <1>2 DEF DirtyCacheable, memory

(* A number written to one of the four.                                     *)
LEMMA WriteClean ==
  ASSUME Tables, DirtyCacheable, NEW m \in Modules \ {"areas"}, NEW w, NEW n,
         WriteNumber(m, w, n)
  PROVE  Tables' /\ DirtyCacheable'
<1>1. DEFINE p == Names(m)
<1>2. p \in Procs  BY DEF Names, Procs
<1>3. by' = [by EXCEPT ![p] = @ \cup {<<m, w = p>>}]  BY DEF WriteNumber
<1>4. <<m, w = p>> \in Modules \X BOOLEAN  OBVIOUS
<1>5. /\ by' \in [Procs -> SUBSET (Modules \X BOOLEAN)]
      /\ \A q \in Procs : by[q] \subseteq by'[q]
      /\ <<m, w = p>> \in by'[p]
  <2>1. HIDE DEF p
  <2>2. QED BY <1>2, <1>3, <1>4 DEF Tables
<1>6. OwnWrites(p)' => m # "except" /\ w = p
  <2>1. HIDE DEF p
  <2>2. ASSUME OwnWrites(p)' PROVE m # "except" /\ w = p
    <3>1. PICK b : b = <<m, w = p>>  OBVIOUS
    <3>2. b[1] # "except" /\ b[2]  BY <1>5, <2>2, <3>1 DEF OwnWrites
    <3>3. b[1] = m /\ b[2] = (w = p)  BY <3>1
    <3>4. QED BY <3>2, <3>3
  <2>3. QED BY <2>2
<1>7. Effect(m, w, n)  BY DEF WriteNumber
<1>8. CASE UNCHANGED memory
  BY <1>5, <1>8, UnchangedClean
<1>9. CASE m = "except"
  <2>1. p = "hello" /\ Change("hello", HeapAreas, OnePages(n), {})
    BY <1>7, <1>9 DEF Effect, print_mem_except, Names
  <2>2. ~OwnWrites(p)'  BY <1>6, <1>9
  <2>3. HIDE DEF p
  <2>4. QED BY <1>2, <1>5, <2>1, <2>2, ChangeClean
<1>10. CASE m \in {"except_sd", "only_sd"} /\ ~UNCHANGED memory
  <2>1. PICK pages : Change("mser", HeapAreas, pages, CleanedBy(w, "mser", pages))
    BY <1>7, <1>10 DEF Effect, print_mem_except_sd, print_mem_only_sd
  <2>2. p = "mser"  BY <1>10 DEF Names
  <2>3. OwnWrites(p)' => pages \subseteq CleanedBy(w, "mser", pages)
    BY <1>6, <2>2 DEF CleanedBy
  <2>4. HIDE DEF p
  <2>5. QED BY <1>2, <1>5, <2>1, <2>2, <2>3, ChangeClean
<1>11. CASE m = "only"
  BY <1>7, <1>8, <1>11 DEF Effect, print_mem_only
<1>12. QED BY <1>8, <1>9, <1>10, <1>11 DEF Modules

(* functime_kernel_module.c cleans what it changes, whoever writes.         *)
LEMMA AreasClean ==
  ASSUME Tables, DirtyCacheable, NEW r \in Requests, NEW reach, get_vma(r, reach), by' = by
  PROVE  Tables' /\ DirtyCacheable'
<1>1. r.pid \in Procs  BY DEF Requests
<1> DEFINE areas == {i + 1 : i \in ToSet(vma_finder(r.indices))}
           pages == UNION {cacheability_modifier(Areas[i], r) : i \in areas}
           flips == {i \in areas : cacheability_modifier(Areas[i], r) # {}}
           come  == __mm_populate_mod(r.pid, areas, reach)
<1>2. /\ prot' = [prot EXCEPT ![r.pid] = [i \in DOMAIN Areas |->
                      IF i \in flips THEN "noncached" ELSE @[i]]]
      /\ pte' = [pte EXCEPT ![r.pid] = [x \in Space |->
                   IF x \in pages THEN Flipped(come[x]) ELSE come[x]]]
      /\ dirty' = [dirty EXCEPT ![r.pid] = @ \ pages]
  BY DEF get_vma
<1> HIDE DEF areas, pages, flips
<1>3. \A x \in Space :
        come[x] \in Kinds
          /\ (pte[r.pid][x] # "absent" => come[x] = pte[r.pid][x])
  BY <1>1, AreaFound DEF Tables, Kinds, __mm_populate_mod
<1> HIDE DEF come
<1>4. pte' \in [Procs -> [Space -> Kinds]]
  <2>1. [x \in Space |-> IF x \in pages THEN Flipped(come[x]) ELSE come[x]]
          \in [Space -> Kinds]
    BY <1>3 DEF Kinds, Flipped
  <2>2. QED BY <1>1, <1>2, <2>1 DEF Tables
<1>5. prot' \in [Procs -> [DOMAIN Areas -> {"cached", "noncached"}]]
  <2>1. [i \in DOMAIN Areas |-> IF i \in flips THEN "noncached" ELSE prot[r.pid][i]]
          \in [DOMAIN Areas -> {"cached", "noncached"}]
    BY <1>1 DEF Tables
  <2>2. QED BY <1>1, <1>2, <2>1 DEF Tables
<1>6. Tables'  BY <1>1, <1>2, <1>4, <1>5 DEF Tables
<1>7. ASSUME NEW q \in Procs, OwnWrites(q)', NEW x \in dirty'[q]
      PROVE  pte'[q][x] = "cached"
  <2>1. OwnWrites(q)  BY <1>7 DEF OwnWrites
  <2>2. x \in dirty[q] /\ x \in Space /\ (q = r.pid => x \notin pages)
    BY <1>1, <1>2, <1>7 DEF Tables
  <2>3. pte[q][x] = "cached"  BY <2>1, <2>2 DEF DirtyCacheable
  <2>4. pte'[q][x] = pte[q][x]  BY <1>1, <1>2, <1>3, <2>2, <2>3 DEF Tables
  <2>5. QED BY <2>3, <2>4
<1>8. QED BY <1>6, <1>7 DEF DirtyCacheable

(* Running programs: a store leaves a line in a cache only if its page is    *)
(* cacheable, a new program has none.                                       *)
LEMMA StoreClean ==
  ASSUME Tables, DirtyCacheable, NEW p \in Procs, NEW x \in StorePages, Store(p, x)
  PROVE  Tables' /\ DirtyCacheable'
<1>1. x \in Pages /\ x \in Space  BY LayoutAssumption
<1>2. PICK kind :
        /\ kind = IF pte[p][x] = "absent" THEN prot[p][AreaOf(x)] ELSE pte[p][x]
        /\ pte' = [pte EXCEPT ![p][x] = kind]
        /\ dirty' = [dirty EXCEPT ![p] = IF kind = "cached" THEN @ \cup {x} ELSE @]
  BY DEF Store
<1>3. kind \in Kinds /\ (pte[p][x] = "cached" => kind = "cached")
  BY <1>1, <1>2, AreaFound DEF Tables, Kinds
<1>4. UNCHANGED <<prot, by>>  BY DEF Store, record
<1>5. Tables'  BY <1>1, <1>2, <1>3, <1>4 DEF Tables
<1>6. ASSUME NEW q \in Procs, OwnWrites(q)', NEW y \in dirty'[q]
      PROVE  pte'[q][y] = "cached"
  <2>1. OwnWrites(q)  BY <1>4, <1>6 DEF OwnWrites
  <2>2. y \in Space  BY <1>5, <1>6 DEF Tables
  <2>3. y \in dirty[q] \/ (q = p /\ y = x /\ kind = "cached")
    BY <1>2, <1>6 DEF Tables
  <2>4. y \in dirty[q] => pte[q][y] = "cached"  BY <2>1 DEF DirtyCacheable
  <2>5. pte'[q][y] = IF q = p /\ y = x THEN kind ELSE pte[q][y]
    BY <1>2, <2>2 DEF Tables
  <2>6. QED BY <1>3, <2>3, <2>4, <2>5
<1>7. QED BY <1>5, <1>6 DEF DirtyCacheable

LEMMA ExecClean ==
  ASSUME Tables, DirtyCacheable, NEW p \in Procs, Exec(p)
  PROVE  Tables' /\ DirtyCacheable'
<1>1. Fresh(p) \in [Space -> Kinds]  BY DEF Fresh, Kinds
<1>2. Tables'  BY <1>1 DEF Exec, Tables
<1>3. ASSUME NEW q \in Procs, OwnWrites(q)', NEW x \in dirty'[q]
      PROVE  pte'[q][x] = "cached"
  <2>1. q # p  BY <1>3 DEF Exec, Tables
  <2>2. dirty'[q] = dirty[q] /\ by'[q] = by[q] /\ pte'[q] = pte[q]
    BY <2>1 DEF Exec, Tables
  <2>3. OwnWrites(q)  BY <1>3, <2>2 DEF OwnWrites
  <2>4. QED BY <1>3, <2>2, <2>3 DEF DirtyCacheable
<1>4. QED BY <1>2, <1>3 DEF DirtyCacheable

LEMMA CleanStep == Clean /\ [Next]_vars => Clean'
<1>1. SUFFICES ASSUME Clean, [Next]_vars PROVE Clean'  OBVIOUS
<1>2. loaded' \subseteq Modules
  BY <1>1 DEF Clean, Next, vars, inserted, HelloWrites, HelloOnce, OthersWrite, WriteAreas,
    FillingFaults, WriteStale, WriteNumber, WriteCounted, Insmod, InsmodUnmapped, Rmmod,
    Store, Exec
<1>3. CASE HelloWrites \/ HelloOnce \/ OthersWrite
  <2>1. \/ UNCHANGED <<memory, record>>
        \/ \E n, w : \E m \in loaded \ {"areas"} : WriteNumber(m, w, n)
    BY <1>3 DEF HelloWrites, HelloOnce, OthersWrite
  <2>2. CASE UNCHANGED <<memory, record>>
    BY <1>1, <1>2, <2>2, UnchangedClean DEF Clean, Tables, record
  <2>3. QED BY <1>1, <1>2, <2>1, <2>2, WriteClean DEF Clean
<1>4. CASE WriteAreas
  <2>1. PICK r \in Requests, reach \in Reaches : get_vma(r, reach)  BY <1>4 DEF WriteAreas
  <2>2. by' = by  BY <1>4 DEF WriteAreas
  <2>3. QED BY <1>1, <1>2, <2>1, <2>2, AreasClean DEF Clean
<1>5. CASE \E p \in Procs : Exec(p) \/ \E x \in StorePages : Store(p, x)
  BY <1>1, <1>2, <1>5, ExecClean, StoreClean DEF Clean
<1>6. CASE \/ FillingFaults \/ WriteStale \/ UNCHANGED vars
           \/ \E m \in Modules : Insmod(m) \/ InsmodUnmapped(m) \/ Rmmod(m)
  <2>1. UNCHANGED <<memory, record>>
    BY <1>6 DEF FillingFaults, WriteStale, Insmod, InsmodUnmapped, Rmmod, ModuleStep, vars
  <2>2. QED BY <1>1, <1>2, <2>1, UnchangedClean DEF Clean, Tables, record
<1>7. QED BY <1>1, <1>3, <1>4, <1>5, <1>6 DEF Next

(* For any layout, requests and order of writes, loads and launches: while a *)
(* process is served only by modules that clean, and by address only of its  *)
(* own writes, none of its stores is left in a cache it does not read        *)
(* through (all_cacheable_except_one_sd_vbs.c:162-166,                       *)
(* functime_kernel_module.c:296-362).                                       *)
THEOREM StoresReachMemory == Spec => []StoresNotLeftInCache
<1>1. Init => Clean
  <2>1. SUFFICES ASSUME Init PROVE Clean  OBVIOUS
  <2>2. \A p \in Procs : Fresh(p) \in [Space -> Kinds]  BY DEF Fresh, Kinds
  <2>3. Tables  BY <2>1, <2>2 DEF Init, Tables
  <2>4. QED BY <2>1, <2>3 DEF Init, Clean, DirtyCacheable
<1>2. Clean => StoresNotLeftInCache
  BY DEF Clean, DirtyCacheable, OwnWrites, StoresNotLeftInCache
<1>3. QED BY <1>1, <1>2, CleanStep, PTL DEF Spec

-----------------------------------------------------------------------------
(* The walk of functime_kernel_module.c: where it is, and what it listed.    *)
Positions == [count : 0..Len(Areas), got : Seq(Nat)]

LEMMA WalkSteps ==
  ASSUME NEW list \in Seq(Nat)
  PROVE  /\ Walk(list)[0] = [count |-> 0, got |-> << >>]
         /\ \A k \in 1..Len(list) : Walk(list)[k] = Advance(Walk(list)[k - 1], list[k])
<1> DEFINE start == [count |-> 0, got |-> << >>]
           Body(f) == [k \in 0..Len(list) |->
                         IF k = 0 THEN start ELSE Advance(f[k - 1], list[k])]
           G == [p \in Positions \X (1..Len(list)) |-> Advance(p[1], list[p[2]])]
<1>1. Len(Areas) \in Nat  BY LayoutAssumption
<1>2. start \in Positions  BY <1>1 DEF Positions
<1>3. \A s \in Positions, k \in 1..Len(list) :
        G[<<s, k>>] = Advance(s, list[k]) /\ G[<<s, k>>] \in Positions
  <2>1. ASSUME NEW s \in Positions, NEW k \in 1..Len(list)
        PROVE  Advance(s, list[k]) \in Positions
    <3>1. list[k] \in Nat  OBVIOUS
    <3>2. s.count \in 0..Len(Areas) /\ s.got \in Seq(Nat)  BY DEF Positions
    <3>3. QED BY <1>1, <3>1, <3>2 DEF Positions, Advance
  <2>2. QED BY <2>1
<1>4. \E f : f = Body(f)
  <2>1. PICK f \in [0..Len(list) -> Positions] : Runs(f, Len(list), start, G)
    <3> HIDE DEF start, G
    <3>1. Len(list) \in Nat  OBVIOUS
    <3>2. Stays(Len(list), Positions, G)  BY <1>3 DEF Stays
    <3>3. QED BY <1>2, <3>1, <3>2, Loop
  <2>2. \A k \in 1..Len(list) : f[k - 1] \in Positions
    <3>1. \A k \in 1..Len(list) : k - 1 \in 0..Len(list)  OBVIOUS
    <3> HIDE DEF start, G
    <3>2. QED BY <3>1
  <2>3. \A k \in 1..Len(list) : f[k] = Advance(f[k - 1], list[k])
    <3> HIDE DEF G
    <3>1. QED BY <1>3, <2>1, <2>2 DEF Runs
  <2>4. f = Body(f)
    <3> HIDE DEF start
    <3>1. f = [k \in 0..Len(list) |-> f[k]]  BY <2>1
    <3>2. \A k \in 0..Len(list) :
            f[k] = IF k = 0 THEN start ELSE Advance(f[k - 1], list[k])
      <4>1. \A k \in 0..Len(list) : k # 0 => k \in 1..Len(list)  OBVIOUS
      <4>2. QED BY <2>1, <2>3, <4>1 DEF Runs
    <3>3. QED BY <3>1, <3>2
  <2>5. QED BY <2>4
<1>5. Walk(list) = CHOOSE f : f = Body(f)
  BY DEF Walk, Advance
<1>6. Walk(list) = Body(Walk(list))
  <2> HIDE DEF Body
  <2>1. QED BY <1>4, <1>5
<1>7. QED BY <1>6

(* An index that there is, and beyond the one before it.                    *)
Ascends(list, j) == list[j] < Len(Areas) /\ (j > 1 => list[j - 1] < list[j])

(* After k indices: all were served, or the walk is at its end since the     *)
(* first that was not.                                                      *)
WalkedTo(list, k) ==
  LET w == Walk(list)[k] IN
  /\ w.got \in Seq(Nat) /\ Len(w.got) <= k
  /\ \A j \in 1..Len(w.got) : w.got[j] = list[j] /\ Ascends(list, j)
  /\ \/ Len(w.got) = k /\ w.count = IF k = 0 THEN 0 ELSE list[k] + 1
     \/ Len(w.got) < k /\ w.count = Len(Areas) /\ ~Ascends(list, Len(w.got) + 1)

LEMMA WalkHolds ==
  ASSUME NEW list \in Seq(Nat) PROVE \A k \in 0..Len(list) : WalkedTo(list, k)
<1> DEFINE T == {k \in 0..Len(list) : WalkedTo(list, k)}
<1>1. 0 \in T
  <2>1. Walk(list)[0].got = << >> /\ Walk(list)[0].count = 0  BY WalkSteps
  <2>2. WalkedTo(list, 0)  BY <2>1 DEF WalkedTo
  <2>3. QED BY <2>2
<1>2. ASSUME NEW k \in 0..(Len(list) - 1), k \in T PROVE k + 1 \in T
  <2> DEFINE w == Walk(list)[k]
             v == Walk(list)[k + 1]
             i == list[k + 1]
  <2>1. v = Advance(w, i)
    <3>1. k + 1 \in 1..Len(list) /\ (k + 1) - 1 = k  BY <1>2
    <3>2. QED BY <3>1, WalkSteps
  <2>2. /\ w.got \in Seq(Nat) /\ Len(w.got) <= k
        /\ \A j \in 1..Len(w.got) : w.got[j] = list[j] /\ Ascends(list, j)
        /\ \/ Len(w.got) = k /\ w.count = IF k = 0 THEN 0 ELSE list[k] + 1
           \/ Len(w.got) < k /\ w.count = Len(Areas) /\ ~Ascends(list, Len(w.got) + 1)
    BY <1>2 DEF WalkedTo
  <2>3. i \in Nat /\ (k > 0 => list[k] \in Nat) /\ Len(Areas) \in Nat /\ k \in Nat
    <3>1. k \in Nat /\ k + 1 \in 1..Len(list) /\ (k > 0 => k \in 1..Len(list))  BY <1>2
    <3>2. \A j \in 1..Len(list) : list[j] \in Nat  OBVIOUS
    <3>3. QED BY <3>1, <3>2, LayoutAssumption
  <2> HIDE DEF w, v, i
  <2>4. CASE i >= w.count /\ i < Len(Areas)
    <3>1. Len(w.got) = k /\ w.count = IF k = 0 THEN 0 ELSE list[k] + 1
      BY <2>2, <2>3, <2>4
    <3>2. v.got = Append(w.got, i) /\ v.count = i + 1  BY <2>1, <2>4 DEF Advance
    <3>3. Ascends(list, k + 1)  BY <2>3, <2>4, <3>1 DEF Ascends, i
    <3>4. v.got \in Seq(Nat) /\ Len(v.got) = k + 1  BY <2>2, <2>3, <3>1, <3>2
    <3>5. ASSUME NEW j \in 1..Len(v.got) PROVE v.got[j] = list[j] /\ Ascends(list, j)
      <4>1. CASE j = k + 1  BY <2>2, <3>1, <3>2, <3>3, <4>1 DEF i
      <4>2. CASE j \in 1..k
        <5>1. v.got[j] = w.got[j]  BY <2>2, <3>1, <3>2, <4>2
        <5>2. w.got[j] = list[j] /\ Ascends(list, j)  BY <2>2, <3>1, <4>2
        <5>3. QED BY <5>1, <5>2
      <4>3. j \in 1..(k + 1)  BY <3>4
      <4>4. QED BY <2>3, <4>1, <4>2, <4>3
    <3>6. v.count = IF k + 1 = 0 THEN 0 ELSE list[k + 1] + 1  BY <2>3, <3>2 DEF i
    <3>7. Len(v.got) <= k + 1  BY <2>3, <3>4
    <3>8. WalkedTo(list, k + 1)  BY <3>4, <3>5, <3>6, <3>7 DEF WalkedTo, v
    <3>9. QED BY <1>2, <3>8
  <2>5. CASE ~(i >= w.count /\ i < Len(Areas))
    <3>1. v.got = w.got /\ v.count = Len(Areas)  BY <2>1, <2>5 DEF Advance
    <3>2. ~Ascends(list, Len(w.got) + 1)
      <4>1. CASE Len(w.got) = k /\ w.count = IF k = 0 THEN 0 ELSE list[k] + 1
        BY <2>3, <2>5, <4>1 DEF Ascends, i
      <4>2. QED BY <2>2, <4>1
    <3>3. WalkedTo(list, k + 1)
      BY <2>2, <2>3, <3>1, <3>2 DEF WalkedTo, v
    <3>4. QED BY <1>2, <3>3
  <2>6. QED BY <2>4, <2>5
<1>3. \A k \in 0..Len(list) : k \in T
  <2> HIDE DEF T
  <2>1. Len(list) \in Nat  OBVIOUS
  <2>2. QED BY <1>1, <1>2, <2>1, BoundedInduction
<1>4. QED BY <1>3

(* What is served of a list: its longest ascending beginning.               *)
LEMMA FinderServes ==
  ASSUME NEW list \in Seq(Nat)
  PROVE  LET got == vma_finder(list) IN
         /\ got \in Seq(Nat) /\ Len(got) <= Len(list)
         /\ \A j \in 1..Len(got) : got[j] = list[j] /\ Ascends(list, j)
         /\ Len(got) < Len(list) => ~Ascends(list, Len(got) + 1)
<1>1. WalkedTo(list, Len(list))  BY WalkHolds
<1>2. QED BY <1>1 DEF WalkedTo, vma_finder

(* The walk serves areas that there are.                                    *)
LEMMA WalkStays ==
  ASSUME NEW list \in Indices PROVE \A i \in ToSet(vma_finder(list)) : i + 1 \in DOMAIN Areas
<1> DEFINE got == vma_finder(list)
<1>1. list \in Seq(Nat) /\ Len(Areas) \in Nat /\ DOMAIN Areas = 1..Len(Areas)
  BY LayoutAssumption
<1>2. /\ got \in Seq(Nat)
      /\ \A j \in 1..Len(got) : got[j] = list[j] /\ Ascends(list, j)
  BY <1>1, FinderServes
<1> HIDE DEF got
<1>3. ASSUME NEW j \in 1..Len(got) PROVE got[j] + 1 \in DOMAIN Areas
  <2>1. got[j] = list[j] /\ list[j] < Len(Areas)  BY <1>2 DEF Ascends
  <2>2. got[j] \in Nat  BY <1>2
  <2>3. QED BY <1>1, <2>1, <2>2
<1>4. DOMAIN got = 1..Len(got)  BY <1>2
<1>5. \A i \in ToSet(got) : i + 1 \in DOMAIN Areas  BY <1>3, <1>4 DEF ToSet
<1>6. QED BY <1>5 DEF got

(* What the last write to "areas" asked for, and got.                        *)
FromFinder == served.asked \in Seq(Nat) /\ served.got = vma_finder(served.asked)

LEMMA EmptyServed == vma_finder(<< >>) = << >>
<1> DEFINE got == vma_finder(<< >>)
<1>1. << >> \in Seq(Nat) /\ Len(<< >>) = 0  OBVIOUS
<1>2. got \in Seq(Nat) /\ Len(got) <= Len(<< >>)  BY <1>1, FinderServes
<1> HIDE DEF got
<1>3. got \in Seq(Nat) /\ Len(got) = 0  BY <1>1, <1>2
<1>4. got = << >>  BY <1>3
<1>5. QED BY <1>4 DEF got

LEMMA FinderUntilDescent ==
  ASSUME FromFinder PROVE ServedUntilDescent
<1> DEFINE s == served.asked
           got == served.got
<1>1. /\ s \in Seq(Nat) /\ got \in Seq(Nat) /\ Len(got) <= Len(s)
      /\ \A j \in 1..Len(got) : got[j] = s[j] /\ Ascends(s, j)
      /\ Len(got) < Len(s) => ~Ascends(s, Len(got) + 1)
  BY FinderServes DEF FromFinder
<1> HIDE DEF s, got
<1>2. IsPrefix(got, s)
  <2>1. SubSeq(got, 1, Len(got)) = got  BY <1>1
  <2>2. SubSeq(s, 1, Len(got)) = got  BY <1>1
  <2>3. QED BY <1>1, <2>1, <2>2 DEF IsPrefix
<1>3. ASSUME NEW k \in DOMAIN s PROVE (\A j \in 1..k : Ascends(s, j)) <=> k \in DOMAIN got
  <2>1. k \in 1..Len(s) /\ DOMAIN got = 1..Len(got)  BY <1>1, <1>3
  <2>2. k \in 1..Len(got) => \A j \in 1..k : Ascends(s, j)  BY <1>1, <2>1
  <2>3. ASSUME k > Len(got) PROVE Len(got) + 1 \in 1..k /\ ~Ascends(s, Len(got) + 1)
    BY <1>1, <2>1, <2>3
  <2>4. QED BY <1>1, <2>1, <2>2, <2>3
<1>4. QED BY <1>2, <1>3 DEF ServedUntilDescent, Ascends, s, got

(* For any layout and any list of indices: an area is served if and only if  *)
(* there is one of each index up to its own, and these ascend               *)
(* (functime_kernel_module.c:364-402).                                      *)
THEOREM ServedAscending == Spec => []ServedUntilDescent
<1>1. Init => FromFinder
  BY EmptyServed DEF Init, FromFinder
<1>2. FromFinder /\ [Next]_vars => FromFinder'
  <2>1. SUFFICES ASSUME FromFinder, [Next]_vars PROVE FromFinder'  OBVIOUS
  <2>2. CASE WriteAreas
    <3>1. PICK r \in Requests, reach \in Reaches : get_vma(r, reach)  BY <2>2 DEF WriteAreas
    <3>2. r.indices \in Seq(Nat)  BY LayoutAssumption DEF Requests
    <3>3. served' = [asked |-> r.indices, got |-> vma_finder(r.indices)]  BY <3>1 DEF get_vma
    <3>4. QED BY <3>2, <3>3 DEF FromFinder
  <2>3. CASE ~WriteAreas
    <3>1. served' = served
      BY <2>1, <2>3 DEF Next, vars, record, HelloWrites, HelloOnce, OthersWrite, WriteNumber,
        FillingFaults, WriteStale, Insmod, InsmodUnmapped, Rmmod, ModuleStep, Exec, Store
    <3>2. QED BY <2>1, <3>1 DEF FromFinder
  <2>4. QED BY <2>2, <2>3
<1>3. FromFinder => ServedUntilDescent  BY FinderUntilDescent
<1>4. QED BY <1>1, <1>2, <1>3, PTL DEF Spec

-----------------------------------------------------------------------------
(* What was changed of a process is what was asked for, and what came later *)
(* in an area that was changed; hello has no page that comes later.         *)
AskedOf(p) ==
  /\ asked[p] \subseteq Changed(p) /\ Changed(p) \subseteq Pages
  /\ \A x \in Changed(p) \ asked[p] : prot[p][AreaOf(x)] = "noncached"
  /\ p = "hello" => /\ Changed(p) \subseteq asked[p]
                  /\ \A x \in Pages : pte[p][x] \in {"cached", "noncached"}

Asked == asked \in [Procs -> SUBSET Space] /\ \A p \in Procs : AskedOf(p)

Served == Clean /\ Walks /\ Asked

\* What happens to one process is all that counts for it.
LEMMA AskedOfFrame ==
  ASSUME NEW p \in Procs, AskedOf(p), pte'[p] = pte[p], prot'[p] = prot[p],
         asked'[p] = asked[p]
  PROVE  AskedOf(p)'
BY DEF AskedOf, Changed

(* One of the four changes the pages that are wanted.                       *)
LEMMA ChangeAsked ==
  ASSUME Tables, Asked, NEW p \in Procs, NEW areas, NEW pages, pages \subseteq Pages,
         NEW cleaned, Change(p, areas, pages, cleaned),
         asked' = [asked EXCEPT ![p] = @ \cup pages]
  PROVE  Asked'
<1>1. \A x \in Space : pte'[p][x] = IF x \notin pages THEN pte[p][x]
                                    ELSE IF pte[p][x] = "absent" THEN "frame0" ELSE "noncached"
  BY DEF Change, Tables
<1>2. \A i \in DOMAIN Areas : prot'[p][i] = IF i \in areas THEN "noncached" ELSE prot[p][i]
  BY DEF Change, Tables
<1>3. Changed(p)' = Changed(p) \cup pages
  BY <1>1, LayoutAssumption DEF Changed
<1>4. asked'[p] = asked[p] \cup pages /\ asked' \in [Procs -> SUBSET Space]
  BY LayoutAssumption DEF Asked
<1>5. AskedOf(p)'
  <2>1. asked'[p] \subseteq Changed(p)' /\ Changed(p)' \subseteq Pages
    BY <1>3, <1>4 DEF Asked, AskedOf
  <2>2. ASSUME NEW x \in Changed(p)' \ asked'[p] PROVE prot'[p][AreaOf(x)] = "noncached"
    <3>1. prot[p][AreaOf(x)] = "noncached"  BY <1>3, <1>4, <2>2 DEF Asked, AskedOf
    <3>2. x \in Pages  BY <1>3, <1>4, <2>2 DEF Asked, AskedOf
    <3>3. QED BY <1>2, <3>1, <3>2, AreaFound
  <2>3. p = "hello" => /\ Changed(p)' \subseteq asked'[p]
                       /\ \A x \in Pages : pte'[p][x] \in {"cached", "noncached"}
    BY <1>1, <1>3, <1>4, LayoutAssumption DEF Asked, AskedOf
  <2>4. QED BY <2>1, <2>2, <2>3 DEF AskedOf
<1>6. ASSUME NEW q \in Procs, q # p PROVE AskedOf(q)'
  <2>1. pte'[q] = pte[q] /\ prot'[q] = prot[q] /\ asked'[q] = asked[q]
    BY <1>6 DEF Change, Tables, Asked
  <2>2. QED BY <2>1, AskedOfFrame DEF Asked
<1>7. QED BY <1>4, <1>5, <1>6 DEF Asked

LEMMA WriteAsked ==
  ASSUME Fitting, Tables, Asked, NEW m \in Modules \ {"areas"}, NEW w, NEW n \in Nat,
         n \in 1..LastPage \/ (n = 0 /\ m = "except_sd"), WriteNumber(m, w, n)
  PROVE  Asked'
<1>1. /\ Effect(m, w, n) /\ Names(m) \in Procs
      /\ asked' = [asked EXCEPT ![Names(m)] = @ \cup Wanted(m, n)]
  BY DEF WriteNumber, Names, Procs
<1>2. /\ HeapAreas = {Heap} /\ Areas[Heap].start = StartBrk /\ Areas[Heap].end = Brk
      /\ StartBrk \in Nat /\ Brk \in Nat /\ LastPage = Brk - StartBrk
  BY LayoutAssumption DEF Fitting, HeapAreas
<1>3. HeapPages \subseteq Pages
  <2>1. Areas[Heap] \in ToSet(Areas)  BY LayoutAssumption DEF ToSet
  <2>2. QED BY <1>2, <2>1 DEF Pages, HeapPages
<1>4. OnePages(n) = {StartBrk + n - 1}  BY <1>2 DEF OnePages, PageOf
<1>5. AllBut(n) = HeapPages \ {StartBrk + n - 1}
  <2>1. AllBut(n) = (Areas[Heap].start..(Areas[Heap].end - 1)) \ {PageOf(Areas[Heap], n)}
    BY <1>2 DEF AllBut
  <2>2. QED BY <1>2, <2>1 DEF PageOf, HeapPages
<1>6. n \in 1..LastPage => OnePages(n) \subseteq HeapPages
  BY <1>2, <1>4 DEF HeapPages
<1>7. n = 0 => {StartBrk + n - 1} \cap HeapPages = {}
  BY <1>2 DEF HeapPages
<1>8. CASE m \in {"except", "except_sd"} /\ n \in 1..LastPage
  <2>1. Wanted(m, n) = OnePages(n)  BY <1>4, <1>6, <1>8 DEF Wanted
  <2>2. CASE m = "except"
    <3>1. Names(m) = "hello" /\ Change("hello", HeapAreas, OnePages(n), {})
      BY <1>1, <2>2 DEF Effect, Names, print_mem_except
    <3>2. QED BY <1>1, <1>3, <1>6, <1>8, <2>1, <3>1, ChangeAsked
  <2>3. CASE m = "except_sd"
    <3>1. n # 0  BY <1>2, <1>8
    <3>2. Names(m) = "mser" /\ print_mem_except_sd(w, n)
      BY <1>1, <2>3 DEF Effect, Names
    <3>3. PICK cleaned : Change("mser", HeapAreas, OnePages(n), cleaned)
      BY <3>1, <3>2 DEF print_mem_except_sd, Baseline
    <3>4. QED BY <1>1, <1>3, <1>6, <1>8, <2>1, <3>2, <3>3, ChangeAsked
  <2>4. QED BY <1>8, <2>2, <2>3
<1>9. CASE m = "except_sd" /\ n = 0
  <2>1. Wanted(m, n) = {} /\ UNCHANGED memory
    BY <1>1, <1>7, <1>9 DEF Wanted, Effect, print_mem_except_sd, Baseline
  <2>2. asked' = asked  BY <1>1, <2>1 DEF Asked
  <2>3. QED BY <2>1, <2>2, AskedOfFrame DEF Asked, memory
<1>10. CASE m = "only"
  <2>1. Wanted(m, n) = {} /\ UNCHANGED memory
    BY <1>1, <1>10 DEF Wanted, Effect, print_mem_only
  <2>2. asked' = asked  BY <1>1, <2>1 DEF Asked
  <2>3. QED BY <2>1, <2>2, AskedOfFrame DEF Asked, memory
<1>11. CASE m = "only_sd"
  <2>1. Wanted(m, n) = AllBut(n)  BY <1>5, <1>11 DEF Wanted
  <2>2. \E cleaned : Change(Names(m), HeapAreas, AllBut(n), cleaned)
    BY <1>1, <1>11 DEF Effect, Names, print_mem_only_sd
  <2>3. AllBut(n) \subseteq Pages  BY <1>3, <1>5
  <2>4. QED BY <1>1, <2>1, <2>2, <2>3, ChangeAsked
<1>12. QED BY <1>8, <1>9, <1>10, <1>11 DEF Modules

(* functime_kernel_module.c populates the areas it serves first, so pages    *)
(* that were absent come with the attribute of their area.                  *)
LEMMA AreasAsked ==
  ASSUME Tables, Asked, NEW r \in Requests, NEW reach, get_vma(r, reach)
  PROVE  Asked'
<1>1. r.pid \in Procs /\ r.indices \in Indices  BY DEF Requests
<1>2. DEFINE areas == {i + 1 : i \in ToSet(vma_finder(r.indices))}
             pages == UNION {cacheability_modifier(Areas[i], r) : i \in areas}
             flips == {i \in areas : cacheability_modifier(Areas[i], r) # {}}
             come  == __mm_populate_mod(r.pid, areas, reach)
<1>3. /\ prot' = [prot EXCEPT ![r.pid] = [i \in DOMAIN Areas |->
                    IF i \in flips THEN "noncached" ELSE @[i]]]
      /\ pte' = [pte EXCEPT ![r.pid] = [x \in Space |->
                   IF x \in pages THEN Flipped(come[x]) ELSE come[x]]]
      /\ asked' = [asked EXCEPT ![r.pid] = @ \cup pages]
  BY DEF get_vma
<1>4. pages \subseteq Pages
  <2>1. ASSUME NEW i \in areas PROVE cacheability_modifier(Areas[i], r) \subseteq Pages
    <3>1. i \in DOMAIN Areas  BY <1>1, <2>1, WalkStays
    <3>2. Areas[i] \in ToSet(Areas)  BY <3>1 DEF ToSet
    <3>3. cacheability_modifier(Areas[i], r) \subseteq Areas[i].start..(Areas[i].end - 1)
      BY DEF cacheability_modifier
    <3>4. QED BY <3>2, <3>3 DEF Pages
  <2>2. QED BY <2>1
<1> HIDE DEF areas, pages, flips, come
<1>5. /\ \A i \in DOMAIN Areas : prot'[r.pid][i] =
             IF i \in flips THEN "noncached" ELSE prot[r.pid][i]
      /\ \A x \in Space : pte'[r.pid][x] =
             IF x \in pages THEN Flipped(come[x]) ELSE come[x]
      /\ asked'[r.pid] = asked[r.pid] \cup pages
      /\ asked' \in [Procs -> SUBSET Space]
  BY <1>1, <1>3, <1>4, LayoutAssumption DEF Tables, Asked
<1>6. \A x \in Space : \/ come[x] = pte[r.pid][x]
                       \/ /\ pte[r.pid][x] = "absent" /\ x \in Pages
                          /\ come[x] = prot[r.pid][AreaOf(x)]
  BY DEF come, __mm_populate_mod
<1>7. \A x \in Pages : x \in Space /\ AreaOf(x) \in DOMAIN Areas
                      /\ prot[r.pid][AreaOf(x)] \in {"cached", "noncached"}
  BY <1>1, AreaFound, LayoutAssumption DEF Tables
<1>8. AskedOf(r.pid)'
  <2>1. asked'[r.pid] \subseteq Changed(r.pid)'
    <3>1. ASSUME NEW x \in asked'[r.pid] PROVE x \in Changed(r.pid)'
      <4>1. x \in Space /\ (x \in pages \/ x \in Changed(r.pid))
        BY <1>1, <1>4, <1>5, <1>7, <3>1 DEF Asked, AskedOf, Changed
      <4>2. x \in Changed(r.pid) => pte[r.pid][x] \in {"noncached", "frame0"}  BY DEF Changed
      <4>3. pte'[r.pid][x] \in {"noncached", "frame0"}  
        BY <1>5, <1>6, <4>1, <4>2 DEF Flipped
      <4>4. x \in Space  BY <4>1
      <4>5. QED BY <4>3, <4>4 DEF Changed
    <3>2. QED BY <3>1
  <2>2. ASSUME NEW x \in Changed(r.pid)', x \notin pages
        PROVE  x \in Changed(r.pid) \/ (x \in Pages /\ prot[r.pid][AreaOf(x)] = "noncached"
                                         /\ pte[r.pid][x] = "absent")
    BY <1>5, <1>6, <1>7, <2>2 DEF Changed
  <2>3. Changed(r.pid)' \subseteq Pages
    BY <1>1, <1>4, <2>2 DEF Asked, AskedOf
  <2>4. ASSUME NEW x \in Changed(r.pid)' \ asked'[r.pid]
        PROVE  prot'[r.pid][AreaOf(x)] = "noncached"
    <3>1. x \notin pages /\ x \notin asked[r.pid]  BY <1>5, <2>4
    <3>2. prot[r.pid][AreaOf(x)] = "noncached"
      BY <1>1, <2>2, <2>4, <3>1 DEF Asked, AskedOf
    <3>3. QED BY <1>5, <1>7, <2>3, <2>4, <3>2
  <2>5. ASSUME r.pid = "hello"
        PROVE  /\ Changed(r.pid)' \subseteq asked'[r.pid]
               /\ \A x \in Pages : pte'[r.pid][x] \in {"cached", "noncached"}
    <3>1. /\ Changed(r.pid) \subseteq asked[r.pid]
          /\ \A x \in Pages : pte[r.pid][x] \in {"cached", "noncached"}
      BY <1>1, <2>5 DEF Asked, AskedOf
    <3>2. Changed(r.pid)' \subseteq asked'[r.pid]  BY <1>5, <2>2, <3>1
    <3>3. ASSUME NEW x \in Pages PROVE pte'[r.pid][x] \in {"cached", "noncached"}
      <4>1. come[x] = pte[r.pid][x] /\ x \in Space  BY <1>6, <1>7, <3>1
      <4>2. QED BY <1>5, <3>1, <4>1 DEF Flipped
    <3>4. QED BY <3>2, <3>3
  <2>6. QED BY <2>1, <2>3, <2>4, <2>5 DEF AskedOf
<1>9. ASSUME NEW q \in Procs, q # r.pid PROVE AskedOf(q)'
  <2>1. pte'[q] = pte[q] /\ prot'[q] = prot[q] /\ asked'[q] = asked[q]
    BY <1>1, <1>3, <1>9 DEF Tables, Asked
  <2>2. QED BY <2>1, AskedOfFrame DEF Asked
<1>10. QED BY <1>5, <1>8, <1>9 DEF Asked

(* hello finds no page absent, so that a store changes its table no more;    *)
(* what mser finds absent takes the attribute of its area.                  *)
LEMMA StoreAsked ==
  ASSUME Tables, Asked, NEW p \in Procs, NEW x \in StorePages, Store(p, x)
  PROVE  Asked'
<1>1. x \in Pages /\ x \in Space /\ AreaOf(x) \in DOMAIN Areas
  BY LayoutAssumption, AreaFound
<1>2. PICK kind :
        /\ kind = IF pte[p][x] = "absent" THEN prot[p][AreaOf(x)] ELSE pte[p][x]
        /\ pte' = [pte EXCEPT ![p][x] = kind]
  BY DEF Store
<1>3. UNCHANGED <<prot, asked>>  BY DEF Store, record
<1>4. \A y \in Space : pte'[p][y] = IF y = x THEN kind ELSE pte[p][y]
  BY <1>1, <1>2 DEF Tables
<1>5. prot[p][AreaOf(x)] \in {"cached", "noncached"}  BY <1>1 DEF Tables
<1>6. AskedOf(p)'
  <2>1. Changed(p) \subseteq Changed(p)'
    BY <1>2, <1>4 DEF Changed
  <2>2. ASSUME NEW y \in Changed(p)' \ Changed(p)
        PROVE  y = x /\ pte[p][x] = "absent" /\ prot[p][AreaOf(x)] = "noncached"
    BY <1>2, <1>4, <1>5, <2>2 DEF Changed
  <2>3. asked[p] \subseteq Changed(p)' /\ Changed(p)' \subseteq Pages
    BY <1>1, <2>1, <2>2 DEF Asked, AskedOf
  <2>4. \A y \in Changed(p)' \ asked[p] : prot[p][AreaOf(y)] = "noncached"
    BY <2>2 DEF Asked, AskedOf
  <2>5. ASSUME p = "hello"
        PROVE  Changed(p)' \subseteq asked[p] /\ \A y \in Pages : pte'[p][y] \in {"cached", "noncached"}
    <3>1. /\ Changed(p) \subseteq asked[p]
          /\ \A y \in Pages : y \in Space /\ pte[p][y] \in {"cached", "noncached"}
      BY <2>5, LayoutAssumption DEF Asked, AskedOf
    <3>2. QED BY <1>1, <1>2, <1>4, <2>2, <3>1
  <2>6. QED BY <1>3, <2>3, <2>4, <2>5 DEF AskedOf
<1>7. ASSUME NEW q \in Procs, q # p PROVE AskedOf(q)'
  <2>1. pte'[q] = pte[q]  BY <1>2, <1>7 DEF Tables
  <2>2. QED BY <1>3, <2>1, AskedOfFrame DEF Asked
<1>8. QED BY <1>3, <1>6, <1>7 DEF Asked

LEMMA FreshAsked ==
  ASSUME NEW p \in Procs, pte[p] = Fresh(p), asked[p] = {} PROVE AskedOf(p)
<1>1. Changed(p) = {}  BY DEF Changed, Fresh
<1>2. p = "hello" => \A x \in Pages : pte[p][x] \in {"cached", "noncached"}
  BY LayoutAssumption DEF Fresh
<1>3. QED BY <1>1, <1>2 DEF AskedOf

LEMMA ExecAsked ==
  ASSUME Tables, Asked, NEW p \in Procs, Exec(p) PROVE Asked'
<1>1. asked' \in [Procs -> SUBSET Space]  BY DEF Exec, Asked
<1>2. pte'[p] = Fresh(p) /\ asked'[p] = {}  BY DEF Exec, Tables, Asked
<1>3. Changed(p)' = {}  BY <1>2 DEF Changed, Fresh
<1>4. p = "hello" => \A x \in Pages : pte'[p][x] \in {"cached", "noncached"}
  BY <1>2, LayoutAssumption DEF Fresh
<1>5. AskedOf(p)'  BY <1>2, <1>3, <1>4 DEF AskedOf
<1>6. ASSUME NEW q \in Procs, q # p PROVE AskedOf(q)'
  <2>1. pte'[q] = pte[q] /\ prot'[q] = prot[q] /\ asked'[q] = asked[q]
    BY <1>6 DEF Exec, Tables, Asked
  <2>2. QED BY <2>1, AskedOfFrame DEF Asked
<1>7. QED BY <1>1, <1>5, <1>6 DEF Asked

LEMMA UnchangedAsked ==
  ASSUME Asked, UNCHANGED <<memory, asked>> PROVE Asked'
BY AskedOfFrame DEF Asked, memory

(* Who writes what to which module.                                         *)
LEMMA WritersAsked ==
  ASSUME Fitting, Tables, Asked, Walks, HelloWrites \/ HelloOnce \/ OthersWrite
  PROVE  Asked'
<1>1. CASE HelloWrites
  <2>1. hello \in 1..LastPage /\ hello \in Nat  BY <1>1 DEF HelloWrites, Walks, Fitting
  <2>2. CASE fd \in loaded \ {"areas"} /\ WriteNumber(fd, "hello", hello)
    BY <2>1, <2>2, WriteAsked DEF Walks
  <2>3. CASE UNCHANGED <<memory, record, oops>>
    BY <2>3, UnchangedAsked DEF record
  <2>4. QED BY <1>1, <2>2, <2>3 DEF HelloWrites
<1>2. CASE HelloOnce
  <2>1. PICK n \in Numbers : WriteNumber(fd, "hello", n)  BY <1>2 DEF HelloOnce
  <2>2. fd \in Modules \ {"areas"} /\ n \in 1..LastPage /\ n \in Nat
    BY <1>2 DEF HelloOnce, Walks, Fitting
  <2>3. QED BY <2>1, <2>2, WriteAsked
<1>3. CASE OthersWrite
  <2>1. PICK w \in {"mser", "shell"}, n \in Numbers \cup {0} :
          (n # 0 \/ entry = "except_sd") /\ WriteNumber(entry, w, n)
    BY <1>3 DEF OthersWrite
  <2>2. entry \in Modules \ {"areas"} /\ n \in Nat
          /\ (n \in 1..LastPage \/ (n = 0 /\ entry = "except_sd"))
    BY <1>3, <2>1 DEF OthersWrite, Walks, Fitting
  <2>3. QED BY <2>1, <2>2, WriteAsked
<1>4. QED BY <1>1, <1>2, <1>3

LEMMA AskedStep ==
  ASSUME Fitting, Tables, Asked, Walks, [Next]_vars PROVE Asked'
<1>1. CASE HelloWrites \/ HelloOnce \/ OthersWrite
  BY <1>1, WritersAsked
<1>2. CASE WriteAreas
  BY <1>2, AreasAsked DEF WriteAreas
<1>3. CASE \E p \in Procs : Exec(p) \/ \E x \in StorePages : Store(p, x)
  BY <1>3, ExecAsked, StoreAsked
<1>4. CASE \/ FillingFaults \/ WriteStale \/ UNCHANGED vars
           \/ \E m \in Modules : Insmod(m) \/ InsmodUnmapped(m) \/ Rmmod(m)
  <2>1. UNCHANGED <<memory, asked>>
    BY <1>4 DEF FillingFaults, WriteStale, Insmod, InsmodUnmapped, Rmmod, ModuleStep, vars, record
  <2>2. QED BY <2>1, UnchangedAsked
<1>5. QED BY <1>1, <1>2, <1>3, <1>4 DEF Next

LEMMA InitServed == ASSUME Init PROVE Served
<1>1. \A p \in Procs : Fresh(p) \in [Space -> Kinds]  BY DEF Fresh, Kinds
<1>2. Tables  BY <1>1 DEF Init, Tables
<1>3. Clean  BY <1>2 DEF Init, Clean, DirtyCacheable
<1>4. Walks  BY DEF Init, Walks, OthersVisited
<1>5. \A p \in Procs : pte[p] = Fresh(p) /\ asked[p] = {}  BY DEF Init
<1>6. asked \in [Procs -> SUBSET Space]  BY DEF Init
<1>7. Asked  BY <1>5, <1>6, FreshAsked DEF Asked
<1>8. QED BY <1>3, <1>4, <1>7 DEF Served

(* For any number of writes and loads of all five modules: every page that  *)
(* was asked for has been changed, every other that is changed came later   *)
(* in an area that was, and hello has none of these                         *)
(* (all_cacheable_except_one.c:88-91, functime_kernel_module.c:296-362).    *)
THEOREM AskedIsChanged == Fitting => (Spec => []AskedPagesChanged)
<1>1. SUFFICES ASSUME Fitting PROVE Spec => []AskedPagesChanged  OBVIOUS
<1>2. Init => Served  BY InitServed
<1>3. Served /\ [Next]_vars => Served'
  <2>1. SUFFICES ASSUME Served, [Next]_vars PROVE Served'  OBVIOUS
  <2>2. Clean'  BY <2>1, CleanStep DEF Served
  <2>3. Walks'  BY <1>1, <2>1, WalksStep DEF Served
  <2>4. Asked'  BY <1>1, <2>1, AskedStep DEF Served, Clean
  <2>5. QED BY <2>2, <2>3, <2>4 DEF Served
<1>4. Served => AskedPagesChanged
  <2>1. SUFFICES ASSUME Served PROVE AskedPagesChanged  OBVIOUS
  <2>2. \A p \in Procs : AskedOf(p)  BY <2>1 DEF Served, Asked
  <2>3. "hello" \in Procs  BY DEF Procs
  <2>4. Changed("hello") = asked["hello"]  BY <2>2, <2>3 DEF AskedOf
  <2>5. QED BY <2>2, <2>4 DEF AskedOf, AskedPagesChanged
<1>5. QED BY <1>2, <1>3, <1>4, PTL DEF Spec

-----------------------------------------------------------------------------
(* hello and its lines, while it has the entry of all_cacheable_except_one.c *)
(* open and nobody else has written: it has been in its loop since it began, *)
(* or it has written once and prints nothing.                               *)
First(k) == {StartBrk + j - 1 : j \in 1..k}

Alone == fd = "except" /\ by["hello"] \subseteq {<<"except", TRUE>>}

Counted ==
  /\ lines \in Seq(SUBSET Space)
  /\ Alone => \/ lines = << >> /\ hello = HelloPages + 1
              \/ /\ hello = Len(lines) + 1 /\ asked["hello"] = First(Len(lines))
                 /\ \A k \in DOMAIN lines : lines[k] = First(k)

Told == Served /\ Owned /\ Counted

LEMMA FirstSteps == ASSUME NEW k \in Nat PROVE First(k + 1) = First(k) \cup {StartBrk + (k + 1) - 1}
<1>1. 1..(k + 1) = (1..k) \cup {k + 1}  OBVIOUS
<1>2. QED BY <1>1 DEF First

(* What hello reads through no cache after a step is all that was changed.   *)
LEMMA HelloNoncached ==
  ASSUME Asked'
  PROVE  {x \in Space : pte'["hello"][x] = "noncached"} = asked'["hello"]
<1>1. "hello" \in Procs  BY DEF Procs
<1>2. /\ asked'["hello"] = Changed("hello")' /\ Changed("hello")' \subseteq Pages
      /\ \A x \in Pages : pte'["hello"][x] \in {"cached", "noncached"}
  BY <1>1 DEF Asked, AskedOf
<1>3. {x \in Space : pte'["hello"][x] = "noncached"} = Changed("hello")'
  BY <1>2 DEF Changed
<1>4. QED BY <1>2, <1>3

(* hello's own write to the entry adds the page of its number, and a line.  *)
LEMMA HelloCounts ==
  ASSUME Fitting, Told, HelloWrites, Asked', Alone'
  PROVE  Counted'
<1>1. /\ hello <= HelloPages /\ hello' = hello + 1
      /\ lines' = Append(lines, {x \in Space : pte'["hello"][x] = "noncached"})
  BY DEF HelloWrites
<1>2. UNCHANGED inserted  BY DEF HelloWrites, WriteNumber, WriteCounted
<1>3. fd = "except"  BY <1>2 DEF Alone, inserted
<1>4. WriteNumber("except", "hello", hello)  BY <1>3 DEF HelloWrites
<1>5. "hello" \in Procs /\ Names("except") = "hello"  BY DEF Procs, Names
<1>6. by' = [by EXCEPT !["hello"] = @ \cup {<<"except", TRUE>>}]
  BY <1>4, <1>5 DEF WriteNumber
<1>7. by["hello"] \subseteq by'["hello"]  BY <1>5, <1>6 DEF Told, Served, Clean, Tables
<1>8. Alone  BY <1>3, <1>7 DEF Alone
<1>9. /\ hello = Len(lines) + 1 /\ asked["hello"] = First(Len(lines))
      /\ \A k \in DOMAIN lines : lines[k] = First(k)
      /\ lines \in Seq(SUBSET Space)
  BY <1>1, <1>8 DEF Told, Counted, Fitting
<1> DEFINE n == Len(lines)
<1>10. n \in Nat /\ hello = n + 1 /\ hello \in 1..LastPage
  BY <1>1, <1>9 DEF Fitting
<1>11. Wanted("except", hello) = {StartBrk + hello - 1}
  BY <1>10 DEF Wanted, Fitting, HeapPages
<1>12. asked'["hello"] = asked["hello"] \cup {StartBrk + hello - 1}
  BY <1>4, <1>5, <1>11 DEF WriteNumber, Told, Served, Asked
<1>13. asked'["hello"] = First(n + 1)
  BY <1>9, <1>10, <1>12, FirstSteps
<1> DEFINE line == {x \in Space : pte'["hello"][x] = "noncached"}
<1>14. line = First(n + 1)  BY <1>13, HelloNoncached
<1>15. line \in SUBSET Space  OBVIOUS
<1> HIDE DEF line
<1>16. lines' = Append(lines, line)  BY <1>1 DEF line
<1>17. lines' \in Seq(SUBSET Space) /\ Len(lines') = n + 1
  BY <1>9, <1>15, <1>16
<1>18. ASSUME NEW k \in DOMAIN lines' PROVE lines'[k] = First(k)
  <2>1. CASE k = n + 1  BY <1>9, <1>14, <1>16, <2>1
  <2>2. CASE k \in 1..n
    <3>1. k \in DOMAIN lines /\ lines'[k] = lines[k]  BY <1>9, <1>15, <1>16, <2>2
    <3>2. QED BY <1>9, <3>1
  <2>3. QED BY <1>10, <1>17, <1>18, <2>1, <2>2
<1>19. QED BY <1>1, <1>10, <1>13, <1>17, <1>18 DEF Counted

(* noncacheable_except_one/hello.c writes only as its first act.            *)
LEMMA OnceCounts ==
  ASSUME Fitting, Told, HelloOnce, Alone' PROVE Counted'
<1>1. PICK n \in Numbers : WriteNumber(fd, "hello", n)  BY DEF HelloOnce
<1>2. hello = 1 /\ hello' = HelloPages + 1 /\ UNCHANGED lines  BY DEF HelloOnce
<1>3. UNCHANGED inserted  BY <1>1 DEF WriteNumber, WriteCounted
<1>4. fd = "except"  BY <1>3 DEF Alone, inserted
<1>5. by' = [by EXCEPT !["hello"] = @ \cup {<<"except", TRUE>>}]
  BY <1>1, <1>4 DEF WriteNumber, Names
<1>6. Alone  BY <1>4, <1>5 DEF Alone, Told, Served, Clean, Tables, Procs
<1>7. lines \in Seq(SUBSET Space) /\ (lines = << >> \/ Len(lines) = 0)
  BY <1>2, <1>6 DEF Told, Counted
<1>8. lines = << >>  BY <1>7
<1>9. QED BY <1>2, <1>7, <1>8 DEF Counted

(* Other writes through the entry that hello has open are not hello's.      *)
LEMMA OthersNotAlone ==
  ASSUME Told, OthersWrite \/ WriteAreas PROVE ~Alone'
<1>1. SUFFICES ASSUME Alone' PROVE FALSE  OBVIOUS
<1>2. UNCHANGED inserted
  BY DEF OthersWrite, WriteAreas, WriteNumber, WriteCounted
<1>3. fd = "except" /\ entry = "except"  BY <1>1, <1>2 DEF Alone, inserted, Told, Owned
<1>4. CASE WriteAreas  BY <1>3, <1>4 DEF WriteAreas
<1>5. CASE OthersWrite
  <2>1. PICK w \in {"mser", "shell"}, n \in Numbers \cup {0} : WriteNumber("except", w, n)
    BY <1>3, <1>5 DEF OthersWrite
  <2>2. by' = [by EXCEPT !["hello"] = @ \cup {<<"except", FALSE>>}]
    BY <2>1 DEF WriteNumber, Names
  <2>3. <<"except", FALSE>> \in by'["hello"]
    BY <2>2 DEF Told, Served, Clean, Tables, Procs
  <2>4. QED BY <1>1, <2>3 DEF Alone
<1>6. QED BY <1>4, <1>5

(* Everything else leaves hello where it is, takes its entry, or starts it.  *)
LEMMA RestCounts ==
  ASSUME Told, Alone', NEW p \in Procs, NEW m \in Modules,
         FillingFaults \/ WriteStale \/ Exec(p)
           \/ Insmod(m) \/ InsmodUnmapped(m) \/ Rmmod(m)
           \/ (\E x \in StorePages : Store(p, x)) \/ UNCHANGED vars
  PROVE  Counted'
<1>1. CASE Exec(p)
  <2>1. CASE p = "hello"
    <3>1. hello' = 1 /\ lines' = << >> /\ asked'["hello"] = {}
      BY <1>1, <2>1 DEF Exec, Told, Served, Asked
    <3>2. First(0) = {}  BY DEF First
    <3>3. lines' \in Seq(SUBSET Space) /\ Len(lines') = 0 /\ DOMAIN lines' = {}  BY <3>1
    <3>4. QED BY <3>1, <3>2, <3>3 DEF Counted
  <2>2. CASE p # "hello"
    <3>1. /\ UNCHANGED <<hello, lines, fd>> /\ asked'["hello"] = asked["hello"]
          /\ by'["hello"] = by["hello"]
      BY <1>1, <2>2 DEF Exec, Told, Served, Asked, Clean, Tables, Procs
    <3>2. QED BY <3>1 DEF Told, Counted, Alone
  <2>3. QED BY <2>1, <2>2
<1>2. CASE Insmod(m) \/ Rmmod(m)
  <2>1. UNCHANGED <<hello, lines, asked, by>> /\ (fd' = "none" \/ fd' = fd)
    BY <1>2 DEF Insmod, Rmmod, ModuleStep, Entry, record
  <2>2. QED BY <2>1 DEF Told, Counted, Alone
<1>3. CASE \/ FillingFaults \/ WriteStale \/ InsmodUnmapped(m) \/ UNCHANGED vars
           \/ \E x \in StorePages : Store(p, x)
  <2>1. UNCHANGED <<hello, lines, asked, by, fd>>
    BY <1>3 DEF FillingFaults, WriteStale, InsmodUnmapped, Store, ModuleStep, record, vars,
                WriteCounted, inserted
  <2>2. QED BY <2>1 DEF Told, Counted, Alone
<1>4. QED BY <1>1, <1>2, <1>3

(* The lines stay lines, whoever writes.                                    *)
LEMMA LinesStay ==
  ASSUME Counted, [Next]_vars PROVE lines' \in Seq(SUBSET Space)
<1>1. lines \in Seq(SUBSET Space)  BY DEF Counted
<1>2. CASE HelloWrites
  <2>1. lines' = Append(lines, {x \in Space : pte'["hello"][x] = "noncached"})
    BY <1>2 DEF HelloWrites
  <2>2. {x \in Space : pte'["hello"][x] = "noncached"} \in SUBSET Space  OBVIOUS
  <2>3. QED BY <1>1, <2>1, <2>2
<1>3. CASE ~HelloWrites
  <2>1. lines' = lines \/ lines' = << >>
    BY <1>3 DEF Next, vars, HelloOnce, OthersWrite, WriteAreas, FillingFaults, WriteStale,
                Insmod, InsmodUnmapped, Rmmod, ModuleStep, Exec, Store
  <2>2. << >> \in Seq(SUBSET Space)  OBVIOUS
  <2>3. QED BY <1>1, <2>1, <2>2
<1>4. QED BY <1>2, <1>3

LEMMA ToldStep == ASSUME Fitting, Told, [Next]_vars PROVE Told'
<1>1. Served'
  <2>1. Clean'  BY CleanStep DEF Told, Served
  <2>2. Walks'  BY WalksStep DEF Told, Served
  <2>3. Asked'  BY AskedStep DEF Told, Served, Clean
  <2>4. QED BY <2>1, <2>2, <2>3 DEF Served
<1>2. Owned'  BY OwnedStep DEF Told
<1>3. Counted'
  <2>1. CASE ~Alone'
    BY <2>1, LinesStay DEF Told, Counted
  <2>2. CASE Alone'
    <3>1. CASE HelloWrites  BY <1>1, <2>2, <3>1, HelloCounts DEF Served
    <3>2. CASE HelloOnce  BY <2>2, <3>2, OnceCounts
    <3>3. CASE OthersWrite \/ WriteAreas  BY <2>2, <3>3, OthersNotAlone
    <3>4. CASE ~(HelloWrites \/ HelloOnce \/ OthersWrite \/ WriteAreas)
      <4>1. "hello" \in Procs /\ "only" \in Modules  BY DEF Procs, Modules
      <4>2. PICK p \in Procs, m \in Modules :
              FillingFaults \/ WriteStale \/ Exec(p)
                \/ Insmod(m) \/ InsmodUnmapped(m) \/ Rmmod(m)
                \/ (\E x \in StorePages : Store(p, x)) \/ UNCHANGED vars
        BY <3>4, <4>1 DEF Next
      <4>3. QED BY <2>2, <4>2, RestCounts
    <3>5. QED BY <3>1, <3>2, <3>3, <3>4
  <2>3. QED BY <2>1, <2>2
<1>4. QED BY <1>1, <1>2, <1>3 DEF Told

\* Left to itself, hello times k noncacheable pages at its k-th line.
LinesAccumulate ==
  (fd = "except" /\ by["hello"] \subseteq {<<"except", TRUE>>}) =>
    \A k \in DOMAIN lines : lines[k] = {StartBrk + j - 1 : j \in 1..k}

(* For every heap: while hello alone writes to the module that makes one     *)
(* page noncacheable, its k-th line was timed with the pages 1 to k of the   *)
(* heap noncacheable, not with page k alone                                 *)
(* (all_cacheable_except_one.c:88-91, cacheable_except_one/hello.c:27-44).   *)
THEOREM LinesOfFirst == Fitting => (Spec => []LinesAccumulate)
<1>1. SUFFICES ASSUME Fitting PROVE Spec => []LinesAccumulate  OBVIOUS
<1>2. Init => Told
  <2>1. SUFFICES ASSUME Init PROVE Told  OBVIOUS
  <2>2. Served  BY <2>1, InitServed
  <2>3. Owned  BY <2>1 DEF Init, Owned
  <2>4. lines = << >> /\ fd = "none"  BY <2>1 DEF Init
  <2>5. Counted  BY <2>4 DEF Counted, Alone
  <2>6. QED BY <2>2, <2>3, <2>5 DEF Told
<1>3. Told /\ [Next]_vars => Told'  BY <1>1, ToldStep
<1>4. Told => LinesAccumulate
  <2>1. SUFFICES ASSUME Told, Alone, NEW k \in DOMAIN lines
                PROVE  lines[k] = {StartBrk + j - 1 : j \in 1..k}
    BY DEF LinesAccumulate, Alone
  <2>2. lines # << >>  BY <2>1
  <2>3. lines[k] = First(k)  BY <2>1, <2>2 DEF Told, Counted
  <2>4. QED BY <2>3 DEF First
<1>5. QED BY <1>2, <1>3, <1>4, PTL DEF Spec
=============================================================================
