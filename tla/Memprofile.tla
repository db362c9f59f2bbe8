----------------------------- MODULE Memprofile -----------------------------
(***************************************************************************)
(* functime_debugger/kernel/both_multiple.c: what a write to                *)
(* /proc/memprofile does.  The writer hands over a list of heap pages, a    *)
(* flag and a pid; the module populates the heap of that process and makes  *)
(* each of its pages noncacheable unless told to skip it.  The request is   *)
(* kept in one global, cp, and nothing serialises writers.                  *)
(*                                                                         *)
(* Addresses are page numbers; how one page is changed is in PageFlip.      *)
(***************************************************************************)
EXTENDS Integers, Sequences

CONSTANTS Writers,      \* processes that write to /proc/memprofile, once each
          Requests,     \* what they may ask: [buff, shouldSkip, pid, bad], where
                        \* bad says which of their two pointers is not mapped
          Tasks,        \* the process list, a sequence of pids
          DataStart, DataEnd,  \* a program's data segment
          StartBrk, FirstBrk, MaxBrk, \* its heap: [StartBrk, brk), brk growing
          OutOfMemory   \* TRUE: kmalloc and __get_user_pages may fail

ASSUME LayoutAssumption ==
  /\ {DataStart, DataEnd, StartBrk, FirstBrk, MaxBrk} \subseteq Nat
  /\ 0 < DataStart /\ DataStart < DataEnd /\ DataEnd <= StartBrk
  /\ StartBrk < FirstBrk /\ FirstBrk <= MaxBrk
ASSUME RequestAssumption ==
  /\ \A r \in Requests : /\ r.buff \in Seq(Nat) /\ r.shouldSkip \in BOOLEAN
                         /\ r.bad \in {"none", "params", "list"}
  /\ Tasks \in Seq(Nat \ {0}) \* for_each_process leaves out the idle task
  /\ \A i, j \in 1..Len(Tasks) : Tasks[i] = Tasks[j] => i = j
  /\ OutOfMemory \in BOOLEAN

Pids == {Tasks[i] : i \in 1..Len(Tasks)}

VARIABLES
  cp,        \* the global request
  pc, req,   \* each writer's position, and what it asked
  temp_buff, \* each writer's local copy of the pointer it found in cp
  words,     \* the kernel buffer each writer allocated, or NoBuffer
  task,      \* each writer's position in the process list
  vma, page_addr, next, \* its heap area, list of addresses, and walk position
  locked,    \* whether its __mm_populate_mod holds mmap_sem
  brk, prot, pte        \* the processes: break, vm_page_prot, page table

writerVars  == <<req, temp_buff, words, task, vma, page_addr, next, locked>>
processVars == <<brk, prot, pte>>
vars == <<cp, pc, writerVars, processVars>>

-----------------------------------------------------------------------------
Pages    == DataStart..(MaxBrk - 1)
NoBuffer == <<-1>>
User(w)   == <<"user", w>>
Kernel(w) == <<"kernel", w>>
Null      == <<"null">>
Buffers   == {Null} \cup {User(w) : w \in Writers} \cup {Kernel(w) : w \in Writers}
AllPids   == {0} \cup Pids \cup {r.pid : r \in Requests}

\* The areas of a process in address order; those above the heap never match.
Areas(p) == << [start |-> DataStart, end |-> DataEnd],
               [start |-> StartBrk, end |-> brk[p]] >>

TypeOK ==
  /\ cp \in [size : Nat, buff : Buffers, shouldSkip : BOOLEAN, pid : AllPids]
  /\ pc \in [Writers -> {"idle", "alloc", "copy", "search", "populate", "list",
                         "walk", "free", "done", "fault", "undefined"}]
  /\ req \in [Writers -> Requests] /\ temp_buff \in [Writers -> Buffers]
  /\ task \in [Writers -> 1..(Len(Tasks) + 1)]
  /\ vma \in [Writers -> 0..2] /\ next \in [Writers -> Nat]
  /\ locked \in [Writers -> BOOLEAN]
  /\ brk \in [Pids -> FirstBrk..MaxBrk]
  /\ prot \in [Pids -> [1..2 -> {"cached", "noncached"}]]
  /\ pte \in [Pids -> [Pages -> {"absent", "cached", "noncached", "frame0"}]]

Init ==
  /\ cp = [size |-> 0, buff |-> Null, shouldSkip |-> FALSE, pid |-> 0]
  /\ pc = [w \in Writers |-> "idle"]
  /\ req \in [Writers -> Requests]
  /\ temp_buff = [w \in Writers |-> Null]
  /\ words = [w \in Writers |-> NoBuffer]
  /\ task = [w \in Writers |-> 1] /\ vma = [w \in Writers |-> 0]
  /\ page_addr = [w \in Writers |-> << >>] /\ next = [w \in Writers |-> 0]
  /\ locked = [w \in Writers |-> FALSE]
  /\ brk = [p \in Pids |-> FirstBrk]
  /\ prot = [p \in Pids |-> [v \in 1..2 |-> "cached"]]
  /\ pte = [p \in Pids |-> [a \in Pages |-> "absent"]]

At(w, l)  == pc[w] = l
Goto(w, l) == pc' = [pc EXCEPT ![w] = l]

\* cp.buff is the buffer w allocated: anything else is freed memory, a user
\* address, or another writer's buffer.
Owns(w) == cp.buff = Kernel(w)

-----------------------------------------------------------------------------
(* memprofile_proc_write.                                                   *)

CopyParams(w) ==
  /\ At(w, "idle") /\ req[w].bad # "params" /\ Goto(w, "alloc")
  /\ cp' = [size |-> Len(req[w].buff), buff |-> User(w),
            shouldSkip |-> req[w].shouldSkip, pid |-> req[w].pid]
  /\ UNCHANGED <<writerVars, processVars>>

\* -EFAULT: what was copied of the structure stays, the rest is zeroed.
ParamsFault(w) ==
  /\ At(w, "idle") /\ req[w].bad = "params" /\ Goto(w, "fault")
  /\ \E copied \in 0..3 :
       cp' = [size |-> IF copied >= 1 THEN Len(req[w].buff) ELSE 0,
              buff |-> IF copied >= 2 THEN User(w) ELSE Null,
              shouldSkip |-> copied = 3 /\ req[w].shouldSkip, pid |-> 0]
  /\ UNCHANGED <<writerVars, processVars>>

AllocBuffer(w) ==
  /\ At(w, "alloc") /\ Goto(w, "copy")
  /\ temp_buff' = [temp_buff EXCEPT ![w] = cp.buff]
  /\ words' = [words EXCEPT ![w] = << >>]
  /\ cp' = [cp EXCEPT !.buff = Kernel(w)]
  /\ UNCHANGED <<req, task, vma, page_addr, next, locked,
                 processVars>>

\* kmalloc's NULL is stored like any pointer.
AllocFails(w) ==
  /\ OutOfMemory /\ At(w, "alloc") /\ cp.size > 0 /\ Goto(w, "copy")
  /\ temp_buff' = [temp_buff EXCEPT ![w] = cp.buff]
  /\ cp' = [cp EXCEPT !.buff = Null]
  /\ UNCHANGED <<req, words, task, vma, page_addr, next, locked, processVars>>

\* w can read what it takes for its list.
Mapped(w) == temp_buff[w] = User(w) /\ req[w].bad # "list"

CopyPages(w) ==
  /\ At(w, "copy") /\ cp.size > 0 /\ Owns(w) /\ Mapped(w)
  /\ words' = [words EXCEPT ![w] = req[w].buff]
  /\ Goto(w, "search")
  /\ UNCHANGED <<cp, req, temp_buff, task, vma, page_addr, next, locked,
                 processVars>>

\* -EFAULT: the buffer is not freed.
ListFault(w) ==
  /\ At(w, "copy") /\ cp.size > 0 /\ ~Mapped(w)
  /\ Goto(w, "fault")
  /\ UNCHANGED <<cp, writerVars, processVars>>

IsHeap(p, a) == a.start <= brk[p] /\ a.end >= StartBrk

\* The first area that passes for the heap, or 0.
FindHeap(p) == IF IsHeap(p, Areas(p)[1]) THEN 1
               ELSE IF IsHeap(p, Areas(p)[2]) THEN 2 ELSE 0

\* Bug: the list of processes is circular and the walk does not notice.
NextTaskCircular(w) == task' = [task EXCEPT ![w] = (@ % Len(Tasks)) + 1]

NextTask(w) == task' = [task EXCEPT ![w] = @ + 1]

\* Bug: whichever process has a heap is taken.
WantedAny(p) == FindHeap(p) # 0

Wanted(p) == p = cp.pid /\ FindHeap(p) # 0

SkipTask(w) ==
  /\ At(w, "search") /\ task[w] <= Len(Tasks)
  /\ ~Wanted(Tasks[task[w]])
  /\ NextTask(w)
  /\ UNCHANGED <<cp, pc, req, temp_buff, words, vma, page_addr, next, locked,
                 processVars>>

FoundTask(w) ==
  /\ At(w, "search") /\ task[w] <= Len(Tasks)
  /\ LET p == Tasks[task[w]] IN
       /\ Wanted(p)
       /\ vma' = [vma EXCEPT ![w] = FindHeap(p)]
       /\ next' = [next EXCEPT ![w] = Areas(p)[FindHeap(p)].start]
  /\ Goto(w, "populate")
  /\ UNCHANGED <<cp, req, temp_buff, words, task, page_addr, locked, processVars>>

NoMoreTasks(w) ==
  /\ At(w, "search") /\ task[w] > Len(Tasks) /\ Goto(w, "free")
  /\ UNCHANGED <<cp, writerVars, processVars>>

Pid(w)  == Tasks[task[w]]
Area(w) == Areas(Pid(w))[vma[w]]

-----------------------------------------------------------------------------
(* __mm_populate_mod: the pages are faulted in, some at a time, or none: a  *)
(* fault that has to wait drops mmap_sem, and the next turn takes it again  *)
(* and asks for the same page.  An error is ignored, and gives up on the    *)
(* rest of the area.                                                        *)

Fault(p, v, some) ==
  pte' = [pte EXCEPT ![p] =
           [a \in Pages |-> IF a \in some /\ pte[p][a] = "absent"
                              THEN prot[p][v] ELSE pte[p][a]]]

\* Bug: the loop stops one page early.
PopulateEndEarly(w) == Area(w).end - 1

PopulateEnd(w) == Area(w).end

Populating(w) == At(w, "populate") /\ locked[w] /\ next[w] < PopulateEnd(w)

TakeLock(w) ==
  /\ At(w, "populate") /\ ~locked[w] /\ next[w] < PopulateEnd(w)
  /\ locked' = [locked EXCEPT ![w] = TRUE]
  /\ UNCHANGED <<cp, pc, req, temp_buff, words, task, vma, page_addr, next, processVars>>

PopulateSome(w) ==
  /\ Populating(w)
  /\ \E upto \in (next[w] + 1)..PopulateEnd(w) :
       /\ Fault(Pid(w), vma[w], next[w]..(upto - 1))
       /\ next' = [next EXCEPT ![w] = upto]
  /\ \E held \in BOOLEAN : locked' = [locked EXCEPT ![w] = held]
  /\ UNCHANGED <<cp, pc, req, temp_buff, words, task, vma, page_addr, brk, prot>>

\* Bug: a turn that got no page starts again at the bottom of the area.
PopulateRestarts(w) ==
  /\ Populating(w)
  /\ locked' = [locked EXCEPT ![w] = FALSE]
  /\ next' = [next EXCEPT ![w] = Area(w).start]
  /\ UNCHANGED <<cp, pc, req, temp_buff, words, task, vma, page_addr, processVars>>

\* The first page's fault dropped the lock and got nothing: ret is 0.
PopulateNone(w) ==
  /\ Populating(w)
  /\ locked' = [locked EXCEPT ![w] = FALSE]
  /\ UNCHANGED <<cp, pc, req, temp_buff, words, task, vma, page_addr, next, processVars>>

PopulateGivesUp(w) ==
  /\ OutOfMemory /\ Populating(w)
  /\ next' = [next EXCEPT ![w] = PopulateEnd(w)]
  /\ UNCHANGED <<cp, pc, req, temp_buff, words, task, vma, page_addr, locked,
                 processVars>>

PopulateDone(w) ==
  /\ At(w, "populate") /\ next[w] >= PopulateEnd(w)
  /\ locked' = [locked EXCEPT ![w] = FALSE]
  /\ Goto(w, "list")
  /\ UNCHANGED <<cp, req, temp_buff, words, task, vma, page_addr, next, processVars>>

-----------------------------------------------------------------------------
(* The list of addresses, and print_mem on every page of the area.          *)

\* Bug: pages are counted from zero here and from one by the writer.
PageAddrFromZero(start, n) == start + n

PageAddr(start, n) == start + n - 1

ListPages(w) ==
  /\ At(w, "list") /\ Owns(w)
  /\ page_addr' = [page_addr EXCEPT ![w] =
                    [i \in 1..cp.size |-> PageAddr(Area(w).start, words[w][i])]]
  /\ next' = [next EXCEPT ![w] = Area(w).start]
  /\ Goto(w, "walk")
  /\ UNCHANGED <<cp, req, temp_buff, words, task, vma, locked, processVars>>

Skips(w, a) == IF \E i \in 1..cp.size : page_addr[w][i] = a
                 THEN ~cp.shouldSkip ELSE cp.shouldSkip

\* set_pte_ext of an absent page installs page frame 0.
MakeNoncacheable(p, v, a) ==
  /\ prot' = [prot EXCEPT ![p][v] = "noncached"]
  /\ pte' = [pte EXCEPT ![p][a] = IF @ = "absent" THEN "frame0" ELSE "noncached"]

print_mem(w) ==
  /\ At(w, "walk") /\ next[w] < Area(w).end /\ cp.size <= Len(page_addr[w])
  /\ IF Skips(w, next[w]) THEN UNCHANGED <<prot, pte>>
                          ELSE MakeNoncacheable(Pid(w), vma[w], next[w])
  /\ next' = [next EXCEPT ![w] = next[w] + 1]
  /\ UNCHANGED <<cp, pc, req, temp_buff, words, task, vma, page_addr, locked, brk>>

WalkDone(w) ==
  /\ At(w, "walk") /\ next[w] = Area(w).end
  /\ NextTask(w)
  /\ Goto(w, "search")
  /\ UNCHANGED <<cp, req, temp_buff, words, vma, page_addr, next, locked,
                 processVars>>

\* Bug: the buffer is freed only where the list of addresses is.
KeepBuffer(w) ==
  /\ At(w, "free") /\ Owns(w)
  /\ words' = [words EXCEPT ![w] = IF vma[w] = 0 THEN @ ELSE NoBuffer]
  /\ Goto(w, "done")
  /\ UNCHANGED <<cp, req, temp_buff, task, vma, page_addr, next, locked,
                 processVars>>

FreeBuffer(w) ==
  /\ At(w, "free") /\ Owns(w)
  /\ words' = [words EXCEPT ![w] = NoBuffer]
  /\ Goto(w, "done")
  /\ UNCHANGED <<cp, req, temp_buff, task, vma, page_addr, next, locked,
                 processVars>>

\* The kernel uses a pointer that is not the writer's own, since another
\* writer has changed cp, or kmalloc's NULL; reads past the end of page_addr;
\* or prints the first words of a list of none.
Undefined(w) ==
  /\ \/ pc[w] \in {"copy", "list", "free"} /\ ~Owns(w)
     \/ At(w, "copy") /\ (cp.size = 0 \/ temp_buff[w] # User(w))
     \/ At(w, "walk") /\ cp.size > Len(page_addr[w])
     \/ pc[w] \in {"search", "list"} /\ OutOfMemory
  /\ Goto(w, "undefined")
  /\ UNCHANGED <<cp, writerVars, processVars>>

-----------------------------------------------------------------------------
(* The process written about: it stands still at its breakpoint from the    *)
(* write to its end, and touches pages and grows its heap before and after. *)
Returned(w) == pc[w] \in {"done", "fault"}

Stopped(p) == \E w \in Writers : req[w].pid = p /\ ~At(w, "idle") /\ ~Returned(w)

Touch(p) ==
  /\ ~Stopped(p)
  /\ \E v \in 1..2 : \E a \in Pages :
       /\ Areas(p)[v].start <= a /\ a < Areas(p)[v].end /\ pte[p][a] = "absent"
       /\ Fault(p, v, {a})
  /\ UNCHANGED <<cp, pc, writerVars, brk, prot>>

GrowHeap(p) ==
  /\ ~Stopped(p) /\ brk[p] < MaxBrk
  /\ brk' = [brk EXCEPT ![p] = @ + 1]
  /\ UNCHANGED <<cp, pc, writerVars, prot, pte>>

Write(w) == \/ CopyParams(w) \/ ParamsFault(w) \/ AllocBuffer(w) \/ AllocFails(w)
            \/ CopyPages(w) \/ ListFault(w)
            \/ SkipTask(w) \/ FoundTask(w) \/ NoMoreTasks(w)
            \/ TakeLock(w) \/ PopulateSome(w) \/ PopulateNone(w)
            \/ PopulateGivesUp(w) \/ PopulateDone(w)
            \/ ListPages(w) \/ print_mem(w) \/ WalkDone(w) \/ FreeBuffer(w)
            \/ Undefined(w)

Next == \/ \E w \in Writers : Write(w)
        \/ \E p \in Pids : Touch(p) \/ GrowHeap(p)

Spec == Init /\ [][Next]_vars

\* A system call in the kernel runs to its end.
FairSpec == Spec /\ \A w \in Writers : WF_vars(Write(w))

-----------------------------------------------------------------------------
(* What the writer asked of heap page a.                                    *)
AskedNoncacheable(r, a) ==
  IF \E i \in 1..Len(r.buff) : a = StartBrk + r.buff[i] - 1
    THEN r.shouldSkip ELSE ~r.shouldSkip

(* Once a write about a process has returned 0, each heap page it walked is *)
(* noncacheable exactly when the request says so, whichever pages had been  *)
(* touched before, however populating went and whatever the program did     *)
(* since; once it has returned -EFAULT, none is                             *)
(* (both_multiple.c:284-342, 353-414).                                      *)
RequestHonoured ==
  \A w \in Writers : (Returned(w) /\ req[w].pid \in Pids) =>
    \A a \in StartBrk..(FirstBrk - 1) :
      (pte[req[w].pid][a] = "noncached")
        = (At(w, "done") /\ AskedNoncacheable(req[w], a))

(* No page-table entry is made from a page that is not there                *)
(* (both_multiple.c:315-337, 400).                                          *)
NoFrameZero == \A p \in Pids : \A a \in Pages : pte[p][a] # "frame0"

(* The copies of the list still allocated once the writes have returned are *)
(* those of the writes refused for their list, and only those: whatever     *)
(* process was asked about, found or not (both_multiple.c:358-361, 425).    *)
OnlyListFaultsLeak ==
  \A w \in Writers : Returned(w) =>
    (words[w] # NoBuffer) = (At(w, "fault") /\ req[w].bad = "list")

(* Only heap pages of processes somebody has asked about change, however    *)
(* writers interleave and whatever populating them runs into                *)
(* (both_multiple.c:384-413).                                               *)
OthersUntouched ==
  \A p \in Pids : \A a \in Pages : pte[p][a] \in {"noncached", "frame0"} =>
    a >= StartBrk /\ \E w \in Writers : req[w].pid = p /\ ~At(w, "idle")

\* What a writer has left to do: processes to look at, stages of the request,
\* pages of the area, a lock to take.
Stage == [idle |-> 9, alloc |-> 8, copy |-> 7, search |-> 6, populate |-> 5,
          list |-> 4, walk |-> 3, free |-> 2, done |-> 1, fault |-> 1, undefined |-> 0]
Left(w) == <<Len(Tasks) + 1 - task[w], Stage[pc[w]], MaxBrk - next[w],
             IF locked[w] THEN 0 ELSE 1>>
Measures == Nat \X Nat \X Nat \X (0..1)

\* m comes before n in the lexicographic order.
Below(m, n) ==
  \E i \in DOMAIN n : m[i] < n[i] /\ \A j \in 1..(i - 1) : m[j] = n[j]

\* A turn of the populate loop that got no page: only the lock is gone.
Retried(w) == At(w, "populate") /\ Left(w)' = [Left(w) EXCEPT ![4] = 1]

(* Each step of a write leaves it less to do, however writers race on the   *)
(* request they share, and no step of another writer or of the program      *)
(* leaves it more.  The one exception is a turn of the populate loop that   *)
(* gains no page: it leaves exactly as much, but for the lock, so that such *)
(* turns are the only way for a write to go on for ever                     *)
(* (both_multiple.c:148-184, 378-424).                                      *)
WritesAdvance ==
  [][\A w \in Writers : /\ Left(w)' \in Measures
                        /\ IF Write(w) THEN Below(Left(w)', Left(w)) \/ Retried(w)
                                       ELSE Left(w)' = Left(w)]_vars

(* A write returns, with 0 or with -EFAULT, whatever is asked and whoever   *)
(* is asked about, unless it stays for ever at a page that cannot be        *)
(* populated (both_multiple.c:148-184, 347-431).                            *)
WriteReturns ==
  \A w \in Writers : At(w, "alloc") ~> (Returned(w) \/ []At(w, "populate"))
=============================================================================
