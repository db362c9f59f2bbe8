-------------------------- MODULE MemprofileProofs --------------------------
(***************************************************************************)
(* However many writers race on cp, both_multiple.c changes heap pages of   *)
(* the processes it was asked about and nothing else.                       *)
(***************************************************************************)
EXTENDS Memprofile, TLAPS
\* The data segment ends below the heap, so that only the heap's area passes
\* the module's test for it.
Apart == DataEnd < StartBrk

Asked(p) == \E w \in Writers : req[w].pid = p /\ ~At(w, "idle")

\* A writer between FoundTask and WalkDone.
Busy(w) == pc[w] \in {"populate", "list", "walk"}

\* It is looking at an area of a process of the list.
BusyTyped ==
  \A w \in Writers : Busy(w) => vma[w] \in 1..2 /\ task[w] \in 1..Len(Tasks)

TypeInv == TypeOK /\ BusyTyped

BusyOnHeap ==
  \A w \in Writers : Busy(w) => vma[w] = 2 /\ StartBrk <= next[w] /\ Asked(Pid(w))

\* A process of the list that cp names, some writer has asked about.
CpAsked == cp.pid \in Pids => Asked(cp.pid)

DataCached == \A p \in Pids : prot[p][1] = "cached"

HeapOfAsked == \A p \in Pids : prot[p][2] = "noncached" => Asked(p)

-----------------------------------------------------------------------------
LEMMA TaskPid ==
  ASSUME NEW i \in 1..Len(Tasks) PROVE Tasks[i] \in Pids
BY DEF Pids

LEMMA ListedPids == 0 \notin Pids
BY RequestAssumption DEF Pids

LEMMA RequestFields ==
  ASSUME TypeOK, NEW w \in Writers
  PROVE  /\ Len(req[w].buff) \in Nat /\ req[w].shouldSkip \in BOOLEAN
         /\ req[w].pid \in AllPids
BY RequestAssumption DEF TypeOK, AllPids

LEMMA AreaTypes ==
  ASSUME TypeOK, NEW p \in Pids, NEW v \in 1..2
  PROVE  Areas(p)[v].start \in Nat /\ Areas(p)[v].end \in Nat
BY LayoutAssumption DEF TypeOK, Areas

(* FindHeap never passes over the heap, nor over a lower area that reaches  *)
(* it (both_multiple.c:386-388).                                            *)
LEMMA HeapFound ==
  ASSUME TypeOK, NEW p \in Pids
  PROVE  /\ FindHeap(p) \in 1..2
         /\ Apart => FindHeap(p) = 2
BY LayoutAssumption DEF TypeOK, FindHeap, IsHeap, Areas, Apart

(* What faulting in pages may change.                                       *)
LEMMA FaultType ==
  ASSUME TypeOK, NEW p \in Pids, NEW v \in 1..2, NEW some, Fault(p, v, some)
  PROVE  /\ pte' \in [Pids -> [Pages -> {"absent", "cached", "noncached", "frame0"}]]
         /\ \A q \in Pids, a \in Pages :
              \/ pte'[q][a] = pte[q][a]
              \/ q = p /\ a \in some /\ pte'[q][a] = prot[p][v]
BY DEF TypeOK, Fault

(* What the change of one page may change.                                  *)
LEMMA ChangeType ==
  ASSUME TypeOK, NEW p \in Pids, NEW v \in 1..2, NEW a, MakeNoncacheable(p, v, a)
  PROVE  /\ prot' \in [Pids -> [1..2 -> {"cached", "noncached"}]]
         /\ pte' \in [Pids -> [Pages -> {"absent", "cached", "noncached", "frame0"}]]
         /\ \A q \in Pids, u \in 1..2 :
              prot'[q][u] = IF q = p /\ u = v THEN "noncached" ELSE prot[q][u]
         /\ \A q \in Pids, b \in Pages :
              pte'[q][b] = pte[q][b] \/ (q = p /\ b = a)
<1>1. prot[p] \in [1..2 -> {"cached", "noncached"}]
  BY DEF TypeOK
<1>2. pte[p] \in [Pages -> {"absent", "cached", "noncached", "frame0"}]
  BY DEF TypeOK
<1> DEFINE newprot == [prot[p] EXCEPT ![v] = "noncached"]
           newpte  == [pte[p] EXCEPT ![a] = IF pte[p][a] = "absent"
                                              THEN "frame0" ELSE "noncached"]
<1>3. /\ newprot \in [1..2 -> {"cached", "noncached"}]
      /\ \A u \in 1..2 : newprot[u] = IF u = v THEN "noncached" ELSE prot[p][u]
  BY <1>1
<1>4. /\ newpte \in [Pages -> {"absent", "cached", "noncached", "frame0"}]
      /\ \A b \in Pages : newpte[b] = pte[p][b] \/ b = a
  BY <1>2
<1>5. prot' = [prot EXCEPT ![p] = newprot] /\ pte' = [pte EXCEPT ![p] = newpte]
  BY DEF MakeNoncacheable
<1> HIDE DEF newprot, newpte
<1> QED BY <1>3, <1>4, <1>5 DEF TypeOK

LEMMA AskedStays ==
  ASSUME TypeOK, req' = req, NEW w \in Writers, NEW l, l # "idle", Goto(w, l),
         NEW p, Asked(p)
  PROVE  Asked(p)'
BY DEF TypeOK, Asked, At, Goto

-----------------------------------------------------------------------------
LEMMA InitType == Init => TypeInv
<1> SUFFICES ASSUME Init PROVE TypeInv
  OBVIOUS
<1>1. cp \in [size : Nat, buff : Buffers, shouldSkip : BOOLEAN, pid : AllPids]
  BY DEF Init, Buffers, AllPids
<1>2. temp_buff \in [Writers -> Buffers]
  BY DEF Init, Buffers
<1>3. task \in [Writers -> 1..(Len(Tasks) + 1)]
  BY RequestAssumption DEF Init
<1>4. brk \in [Pids -> FirstBrk..MaxBrk]
  BY LayoutAssumption DEF Init
<1>5. TypeOK
  BY <1>1, <1>2, <1>3, <1>4 DEF Init, TypeOK
<1> QED BY <1>5 DEF Init, TypeInv, BusyTyped, Busy

LEMMA BusyArea ==
  ASSUME TypeInv, NEW w \in Writers, Busy(w)
  PROVE  Pid(w) \in Pids /\ Area(w).start \in Nat /\ Area(w).end \in Nat
BY TaskPid, AreaTypes DEF TypeInv, BusyTyped, Pid, Area

LEMMA WriteType ==
  ASSUME TypeInv, NEW w \in Writers, Write(w)
  PROVE  TypeInv'
<1> USE DEF TypeInv
<1>1. CASE CopyParams(w)
  <2>1. cp' \in [size : Nat, buff : Buffers, shouldSkip : BOOLEAN, pid : AllPids]
    BY <1>1, RequestFields DEF CopyParams, Buffers
  <2> QED BY <1>1, <2>1 DEF CopyParams, Goto, TypeOK, BusyTyped, Busy,
       writerVars, processVars
<1>11. CASE ParamsFault(w)
  <2>1. cp' \in [size : Nat, buff : Buffers, shouldSkip : BOOLEAN, pid : AllPids]
    BY <1>11, RequestFields DEF ParamsFault, Buffers, AllPids
  <2> QED BY <1>11, <2>1 DEF ParamsFault, Goto, TypeOK, BusyTyped, Busy,
       writerVars, processVars
<1>12. CASE AllocFails(w)
  <2>1. cp' \in [size : Nat, buff : Buffers, shouldSkip : BOOLEAN, pid : AllPids]
    BY <1>12 DEF AllocFails, Buffers, TypeOK
  <2>2. temp_buff' \in [Writers -> Buffers]
    BY <1>12 DEF AllocFails, TypeOK
  <2> QED BY <1>12, <2>1, <2>2 DEF AllocFails, Goto, TypeOK, BusyTyped, Busy,
       processVars
<1>13. CASE TakeLock(w) \/ PopulateNone(w)
  BY <1>13 DEF TakeLock, PopulateNone, TypeOK, BusyTyped, Busy, processVars
<1>2. CASE AllocBuffer(w)
  <2>1. cp' \in [size : Nat, buff : Buffers, shouldSkip : BOOLEAN, pid : AllPids]
    BY <1>2 DEF AllocBuffer, Buffers, TypeOK
  <2>2. temp_buff' \in [Writers -> Buffers]
    BY <1>2 DEF AllocBuffer, TypeOK
  <2> QED BY <1>2, <2>1, <2>2 DEF AllocBuffer, Goto, TypeOK, BusyTyped, Busy,
       processVars
<1>3. CASE CopyPages(w) \/ ListFault(w) \/ NoMoreTasks(w) \/ PopulateDone(w)
           \/ FreeBuffer(w) \/ Undefined(w)
  BY <1>3 DEF CopyPages, ListFault, NoMoreTasks, PopulateDone, FreeBuffer,
              Undefined, Goto, At, TypeOK, BusyTyped, Busy, writerVars, processVars
<1>4. CASE SkipTask(w)
  BY <1>4, RequestAssumption DEF SkipTask, NextTask, At, TypeOK, BusyTyped, Busy,
       processVars
<1>5. CASE FoundTask(w)
  <2> DEFINE p == Tasks[task[w]]
  <2>1. p \in Pids
    BY <1>5, RequestAssumption, TaskPid DEF FoundTask, TypeOK
  <2>2. FindHeap(p) \in 1..2 /\ Areas(p)[FindHeap(p)].start \in Nat
    BY <2>1, HeapFound, AreaTypes
  <2>3. vma' \in [Writers -> 0..2] /\ next' \in [Writers -> Nat]
    BY <1>5, <2>2 DEF FoundTask, TypeOK
  <2>4. task[w] \in 1..Len(Tasks) /\ task' = task /\ vma' = [vma EXCEPT ![w] = FindHeap(p)]
    BY <1>5, RequestAssumption DEF FoundTask, TypeOK
  <2>5. BusyTyped'
    BY <1>5, <2>2, <2>4 DEF FoundTask, Goto, TypeOK, BusyTyped, Busy
  <2> QED BY <1>5, <2>3, <2>5 DEF FoundTask, Goto, TypeOK, processVars
<1>6. CASE PopulateSome(w)
  <2>1. PopulateEnd(w) \in Nat
    BY <1>6, BusyArea DEF PopulateSome, Populating, PopulateEnd, Busy, At
  <2>2. next' \in [Writers -> Nat]
    BY <1>6, <2>1 DEF PopulateSome, TypeOK
  <2>3. pte' \in [Pids -> [Pages -> {"absent", "cached", "noncached", "frame0"}]]
    <3>1. Pid(w) \in Pids /\ vma[w] \in 1..2
      BY <1>6, BusyArea DEF PopulateSome, Populating, BusyTyped, Busy, At
    <3> QED BY <1>6, <3>1, FaultType DEF PopulateSome
  <2> QED BY <1>6, <2>2, <2>3 DEF PopulateSome, TypeOK, BusyTyped, Busy
<1>7. CASE PopulateGivesUp(w)
  <2>1. PopulateEnd(w) \in Nat
    BY <1>7, BusyArea DEF PopulateGivesUp, Populating, PopulateEnd, Busy, At
  <2> QED BY <1>7, <2>1 DEF PopulateGivesUp, TypeOK, BusyTyped, Busy, processVars
<1>8. CASE ListPages(w)
  <2>1. Area(w).start \in Nat
    BY <1>8, BusyArea DEF ListPages, Busy, At
  <2> QED BY <1>8, <2>1
          DEF ListPages, Goto, At, TypeOK, BusyTyped, Busy, processVars
<1>9. CASE print_mem(w)
  <2>1. /\ prot' \in [Pids -> [1..2 -> {"cached", "noncached"}]]
        /\ pte' \in [Pids -> [Pages -> {"absent", "cached", "noncached", "frame0"}]]
    <3>1. CASE Skips(w, next[w])
      BY <1>9, <3>1 DEF print_mem, TypeOK
    <3>2. CASE MakeNoncacheable(Pid(w), vma[w], next[w])
      <4>1. Pid(w) \in Pids /\ vma[w] \in 1..2
        BY <1>9, BusyArea DEF print_mem, BusyTyped, Busy, At
      <4> QED BY <3>2, <4>1, ChangeType
    <3> QED BY <1>9, <3>1, <3>2 DEF print_mem
  <2> QED BY <1>9, <2>1 DEF print_mem, TypeOK, BusyTyped, Busy
<1>10. CASE WalkDone(w)
  <2>1. task[w] \in 1..Len(Tasks)
    BY <1>10 DEF WalkDone, BusyTyped, Busy, At
  <2> QED BY <1>10, <2>1, RequestAssumption
          DEF WalkDone, NextTask, Goto, TypeOK, BusyTyped, Busy, processVars
<1> QED BY <1>1, <1>2, <1>3, <1>4, <1>5, <1>6, <1>7, <1>8, <1>9, <1>10,
           <1>11, <1>12, <1>13 DEF Write

LEMMA ProgramType ==
  ASSUME TypeInv, NEW p \in Pids, Touch(p) \/ GrowHeap(p)
  PROVE  TypeInv'
<1> USE DEF TypeInv
<1>1. CASE Touch(p)
  BY <1>1 DEF Touch, Fault, writerVars, TypeOK, BusyTyped, Busy
<1>2. CASE GrowHeap(p)
  BY <1>2, LayoutAssumption DEF GrowHeap, writerVars, TypeOK, BusyTyped, Busy
<1> QED BY <1>1, <1>2

(* Every step keeps the types (both_multiple.c:347-431).                    *)
THEOREM TypeCorrect == Spec => []TypeOK
<1>1. TypeInv /\ [Next]_vars => TypeInv'
  <2>1. TypeInv /\ Next => TypeInv'
    BY WriteType, ProgramType DEF Next
  <2>2. TypeInv /\ UNCHANGED vars => TypeInv'
    BY DEF TypeInv, TypeOK, BusyTyped, Busy, vars, writerVars, processVars
  <2> QED BY <2>1, <2>2
<1>2. TypeInv => TypeOK
  BY DEF TypeInv
<1> QED BY InitType, <1>1, <1>2, PTL DEF Spec

-----------------------------------------------------------------------------
(* Who has asked never shrinks, and is somebody from the first step on.     *)
LEMMA AskedGrows ==
  ASSUME TypeInv, NEW w \in Writers, Write(w), NEW p, Asked(p)
  PROVE  Asked(p)'
<1>1. req' = req
  BY DEF Write, CopyParams, ParamsFault, AllocBuffer, AllocFails, CopyPages,
       ListFault, SkipTask, FoundTask, NoMoreTasks, TakeLock, PopulateSome,
       PopulateNone, PopulateGivesUp, PopulateDone, ListPages, print_mem,
       WalkDone, FreeBuffer, Undefined, writerVars
<1>2. pc' = pc \/ \E l : l # "idle" /\ Goto(w, l)
  BY DEF Write, CopyParams, ParamsFault, AllocBuffer, AllocFails, CopyPages,
       ListFault, SkipTask, FoundTask, NoMoreTasks, TakeLock, PopulateSome,
       PopulateNone, PopulateGivesUp, PopulateDone, ListPages, print_mem,
       WalkDone, FreeBuffer, Undefined
<1>3. CASE pc' = pc
  BY <1>1, <1>3 DEF Asked, At
<1>4. CASE \E l : l # "idle" /\ Goto(w, l)
  BY <1>1, <1>4, AskedStays DEF TypeInv
<1> QED BY <1>2, <1>3, <1>4

LEMMA CpStep ==
  ASSUME TypeInv, CpAsked, NEW w \in Writers, Write(w)
  PROVE  CpAsked'
<1>1. CASE CopyParams(w)
  BY <1>1 DEF CopyParams, Goto, Asked, At, CpAsked, TypeInv, TypeOK, writerVars
<1>2. CASE ParamsFault(w)
  <2>1. cp'.pid = 0
    BY <1>2 DEF ParamsFault
  <2> QED BY <2>1, ListedPids DEF CpAsked
<1>3. CASE ~CopyParams(w) /\ ~ParamsFault(w)
  <2>1. cp'.pid = cp.pid
    <3>1. CASE AllocBuffer(w) \/ AllocFails(w)
      BY <3>1 DEF AllocBuffer, AllocFails, TypeInv, TypeOK
    <3>2. CASE cp' = cp
      BY <3>2
    <3> QED
      BY <1>3, <3>1, <3>2 DEF Write, CopyPages, ListFault, SkipTask, FoundTask,
         NoMoreTasks, TakeLock, PopulateSome, PopulateNone, PopulateGivesUp,
         PopulateDone, ListPages, print_mem, WalkDone, FreeBuffer, Undefined
  <2>2. cp'.pid \in Pids => Asked(cp.pid)'
    BY <2>1, AskedGrows DEF CpAsked
  <2> QED BY <2>1, <2>2 DEF CpAsked
<1> QED BY <1>1, <1>2, <1>3

(* A writer looks at the heap of a process somebody asked about.            *)
LEMMA BusyStep ==
  ASSUME Apart, TypeInv, CpAsked, BusyOnHeap, NEW w \in Writers, Write(w)
  PROVE  BusyOnHeap'
<1> SUFFICES ASSUME NEW u \in Writers, Busy(u)'
             PROVE  vma'[u] = 2 /\ StartBrk <= next'[u] /\ Asked(Pid(u))'
  BY DEF BusyOnHeap
<1> USE DEF TypeInv
<1>1. CASE UNCHANGED <<vma, next, task>> /\ Busy(u)
  BY <1>1, AskedGrows DEF BusyOnHeap, Pid, Asked
<1>2. CASE u # w
  <2>1. /\ vma'[u] = vma[u] /\ next'[u] = next[u] /\ task'[u] = task[u]
        /\ pc'[u] = pc[u]
    BY <1>2 DEF Write, CopyParams, ParamsFault, AllocBuffer, AllocFails,
         CopyPages, ListFault, SkipTask, FoundTask, NoMoreTasks, TakeLock,
         PopulateSome, PopulateNone, PopulateGivesUp, PopulateDone, ListPages,
         print_mem, WalkDone, FreeBuffer, Undefined, NextTask, Goto, TypeOK,
         writerVars
  <2> QED BY <2>1, AskedGrows DEF BusyOnHeap, Busy, Pid, Asked
<1>3. CASE u = w /\ ~(UNCHANGED <<vma, next, task>> /\ Busy(u))
  <2>1. CASE FoundTask(w)
    <3> DEFINE p == Tasks[task[w]]
    <3>1. p \in Pids /\ p = cp.pid
      BY <2>1, RequestAssumption, TaskPid DEF FoundTask, Wanted, TypeOK
    <3>2. FindHeap(p) = 2
      BY <3>1, HeapFound
    <3>3. vma'[w] = 2 /\ next'[w] = Areas(p)[2].start /\ task' = task
      BY <2>1, <3>2 DEF FoundTask, TypeOK
    <3>4. next'[w] = StartBrk
      BY <3>3 DEF Areas
    <3>5. Asked(p)'
      BY <2>1, <3>1, AskedGrows DEF FoundTask, CpAsked
    <3> QED BY <1>3, <3>3, <3>4, <3>5, LayoutAssumption DEF Pid
  <2>2. CASE ~FoundTask(w)
    <3>1. \/ PopulateSome(w) \/ PopulateGivesUp(w) \/ ListPages(w) \/ print_mem(w)
      BY <1>3, <2>2 DEF Write, CopyParams, ParamsFault, AllocBuffer, AllocFails,
         CopyPages, ListFault, SkipTask, NoMoreTasks,
         TakeLock, PopulateNone, PopulateDone, WalkDone, FreeBuffer,
         Undefined, Goto, Busy, At, TypeOK, writerVars
    <3>2. Busy(w) /\ vma' = vma /\ task' = task
      BY <3>1 DEF PopulateSome, PopulateGivesUp, ListPages, print_mem,
           Populating, Busy, At
    <3>3. StartBrk <= next'[w]
      <4>1. PopulateEnd(w) = Area(w).end /\ Area(w).end \in Nat /\ Area(w).start = StartBrk
        BY <3>2, BusyArea DEF BusyOnHeap, PopulateEnd, Area, Areas
      <4>2. StartBrk \in Nat /\ next[w] \in Nat /\ StartBrk <= next[w]
        BY <3>2, LayoutAssumption DEF BusyOnHeap, TypeOK
      <4>3. CASE PopulateSome(w)
        BY <4>1, <4>2, <4>3 DEF PopulateSome, TypeOK
      <4>4. CASE PopulateGivesUp(w)
        BY <4>1, <4>2, <4>4 DEF PopulateGivesUp, Populating, TypeOK
      <4>5. CASE ListPages(w)
        BY <4>1, <4>2, <4>5 DEF ListPages, TypeOK
      <4>6. CASE print_mem(w)
        BY <4>1, <4>2, <4>6 DEF print_mem, TypeOK
      <4> QED BY <3>1, <4>3, <4>4, <4>5, <4>6
    <3> QED BY <1>3, <3>2, <3>3, AskedGrows DEF BusyOnHeap, Pid, Asked
  <2> QED BY <2>1, <2>2
<1> QED BY <1>1, <1>2, <1>3

Untouched == DataCached /\ HeapOfAsked /\ OthersUntouched

LEMMA SameTables ==
  ASSUME Untouched, prot' = prot, pte' = pte, \A p : Asked(p) => Asked(p)'
  PROVE  Untouched'
<1>1. OthersUntouched'
  BY DEF Untouched, OthersUntouched, Asked
<1> QED BY <1>1 DEF Untouched, DataCached, HeapOfAsked

(* A page faulted in as its area's prot says.                               *)
LEMMA FaultUntouched ==
  ASSUME TypeOK, Untouched, NEW p \in Pids, NEW v \in 1..2, NEW some,
         Fault(p, v, some), prot' = prot, v = 2 => \A a \in some : a >= StartBrk,
         \A q : Asked(q) => Asked(q)'
  PROVE  Untouched'
<1>1. ASSUME NEW q \in Pids, NEW a \in Pages, pte'[q][a] \in {"noncached", "frame0"}
      PROVE  a >= StartBrk /\ Asked(q)'
  <2>1. CASE pte'[q][a] = pte[q][a]
    BY <1>1, <2>1 DEF Untouched, OthersUntouched, Asked
  <2>2. CASE q = p /\ a \in some /\ pte'[q][a] = prot[p][v]
    <3>1. v = 2 /\ prot[p][2] = "noncached"
      BY <1>1, <2>2 DEF Untouched, DataCached, TypeOK
    <3> QED BY <2>2, <3>1 DEF Untouched, HeapOfAsked
  <2> QED BY <2>1, <2>2, FaultType
<1>2. OthersUntouched'
  BY <1>1 DEF OthersUntouched, Asked
<1> QED BY <1>2 DEF Untouched, DataCached, HeapOfAsked

LEMMA WriteUntouched ==
  ASSUME TypeInv, BusyOnHeap, Untouched, NEW w \in Writers, Write(w)
  PROVE  Untouched'
<1>1. \A p : Asked(p) => Asked(p)'
  BY AskedGrows
<1>2. CASE PopulateSome(w)
  <2>1. /\ Pid(w) \in Pids /\ vma[w] = 2 /\ StartBrk <= next[w]
    BY <1>2, BusyArea DEF PopulateSome, Populating, BusyOnHeap, Busy, At
  <2>2. PICK upto \in (next[w] + 1)..PopulateEnd(w) :
          Fault(Pid(w), vma[w], next[w]..(upto - 1))
    BY <1>2 DEF PopulateSome
  <2>3. next[w] \in Nat /\ StartBrk \in Nat /\ PopulateEnd(w) \in Nat
    BY <1>2, LayoutAssumption, BusyArea
       DEF PopulateSome, Populating, PopulateEnd, Busy, At, TypeInv, TypeOK
  <2> DEFINE some == next[w]..(upto - 1)
  <2>4. \A a \in some : a >= StartBrk
    BY <2>1, <2>3
  <2>5. prot' = prot /\ 2 \in 1..2 /\ Fault(Pid(w), 2, some)
    BY <1>2, <2>1, <2>2 DEF PopulateSome
  <2> HIDE DEF some
  <2>6. TypeOK /\ Pid(w) \in Pids
    BY <2>1 DEF TypeInv
  <2> QED BY <1>1, <2>4, <2>5, <2>6, FaultUntouched
<1>3. CASE print_mem(w) /\ MakeNoncacheable(Pid(w), vma[w], next[w])
  <2>1. Pid(w) \in Pids /\ vma[w] = 2 /\ StartBrk <= next[w] /\ Asked(Pid(w))
    BY <1>3, BusyArea DEF print_mem, BusyOnHeap, Busy, At
  <2>2. /\ \A q \in Pids, u \in 1..2 :
             prot'[q][u] = IF q = Pid(w) /\ u = 2 THEN "noncached" ELSE prot[q][u]
        /\ \A q \in Pids, b \in Pages :
             pte'[q][b] = pte[q][b] \/ (q = Pid(w) /\ b = next[w])
    BY <1>3, <2>1, ChangeType DEF TypeInv
  <2>3. DataCached' /\ HeapOfAsked'
    BY <1>1, <2>1, <2>2 DEF Untouched, DataCached, HeapOfAsked
  <2>4. ASSUME NEW q \in Pids, NEW a \in Pages, pte'[q][a] \in {"noncached", "frame0"}
        PROVE  a >= StartBrk /\ Asked(q)'
    <3>1. CASE pte'[q][a] = pte[q][a]
      BY <1>1, <2>4, <3>1 DEF Untouched, OthersUntouched, Asked
    <3>2. CASE q = Pid(w) /\ a = next[w]
      <4>1. a >= StartBrk
        BY <2>1, <3>2
      <4> QED BY <1>1, <2>1, <3>2, <4>1
    <3> QED BY <2>2, <3>1, <3>2
  <2> QED BY <2>3, <2>4 DEF Untouched, OthersUntouched, Asked
<1>4. CASE prot' = prot /\ pte' = pte
  BY <1>1, <1>4, SameTables
<1> QED
  BY <1>2, <1>3, <1>4 DEF Write, CopyParams, ParamsFault, AllocBuffer,
       AllocFails, CopyPages, ListFault, SkipTask, FoundTask, NoMoreTasks,
       TakeLock, PopulateNone, PopulateGivesUp, PopulateDone, ListPages,
       print_mem, WalkDone, FreeBuffer, Undefined, processVars

LEMMA ProgramUntouched ==
  ASSUME TypeInv, BusyOnHeap, CpAsked, Untouched, NEW p \in Pids,
         Touch(p) \/ GrowHeap(p)
  PROVE  BusyOnHeap' /\ CpAsked' /\ Untouched'
<1>1. UNCHANGED <<cp, pc, req, vma, task, next, prot>>
  BY DEF Touch, GrowHeap, writerVars
<1>2. \A q : Asked(q) => Asked(q)'
  BY <1>1 DEF Asked, At
<1>3. BusyOnHeap' /\ CpAsked'
  BY <1>1, <1>2 DEF BusyOnHeap, CpAsked, Busy, Pid, Asked, At
<1>4. CASE Touch(p)
  <2>1. PICK v \in 1..2, a \in Pages : Areas(p)[v].start <= a /\ Fault(p, v, {a})
    BY <1>4 DEF Touch
  <2>2. v = 2 => a >= StartBrk
    BY <2>1, LayoutAssumption DEF Areas, Pages
  <2>3. prot' = prot /\ \A b \in {a} : v = 2 => b >= StartBrk
    BY <1>1, <2>2
  <2>4. Untouched'
    BY <1>2, <2>1, <2>3, FaultUntouched DEF TypeInv
  <2> QED BY <1>3, <2>4
<1>5. CASE GrowHeap(p)
  BY <1>1, <1>2, <1>3, <1>5, SameTables DEF GrowHeap
<1> QED BY <1>4, <1>5

(* Whatever the writers ask and however they interleave, only heap pages of *)
(* processes asked about become noncacheable or are mapped to frame 0       *)
(* (both_multiple.c:384-413).                                               *)
THEOREM Others == Apart => (Spec => []OthersUntouched)
<1> DEFINE Inv == TypeInv /\ BusyOnHeap /\ CpAsked /\ Untouched
<1> SUFFICES ASSUME Apart PROVE Spec => []OthersUntouched
  OBVIOUS
<1>1. Init => Inv
  BY InitType, ListedPids DEF Init, BusyOnHeap, Busy, CpAsked, At, Untouched,
       DataCached, HeapOfAsked, OthersUntouched
<1>2. Inv /\ [Next]_vars => Inv'
  <2>1. Inv /\ Next => Inv'
    <3>1. ASSUME Inv, NEW w \in Writers, Write(w) PROVE Inv'
      BY <3>1, WriteType, BusyStep, CpStep, WriteUntouched
    <3>2. ASSUME Inv, NEW p \in Pids, Touch(p) \/ GrowHeap(p) PROVE Inv'
      BY <3>2, ProgramType, ProgramUntouched
    <3> QED BY <3>1, <3>2 DEF Next
  <2>2. Inv /\ UNCHANGED vars => Inv'
    <3> SUFFICES ASSUME Inv, UNCHANGED vars PROVE Inv'
      OBVIOUS
    <3>1. TypeInv'
      BY DEF TypeInv, TypeOK, BusyTyped, Busy, vars, writerVars, processVars
    <3>2. \A q : Asked(q) => Asked(q)'
      BY DEF Asked, At, vars, writerVars
    <3>3. BusyOnHeap' /\ CpAsked'
      BY <3>2 DEF BusyOnHeap, CpAsked, Busy, Pid, Asked, At, vars, writerVars
    <3> QED BY <3>1, <3>2, <3>3, SameTables DEF vars, processVars
  <2> QED BY <2>1, <2>2
<1>3. Inv => OthersUntouched
  BY DEF Untouched
<1> QED BY <1>1, <1>2, <1>3, PTL DEF Spec

-----------------------------------------------------------------------------
(***************************************************************************)
(* A write to /proc/memprofile by a lone writer, that names at least one    *)
(* page and does not run out of memory, does what was asked.  The invariant *)
(* LoneInv has two parts: what the writer holds is its own request (Holds), *)
(* and the page table of the process is as far as the walk has come         *)
(* (Progress).                                                              *)
(***************************************************************************)

\* The conditions; Apart, above, keeps data and heap distinct.
Lone == /\ ~OutOfMemory /\ \A r \in Requests : Len(r.buff) > 0
        /\ \A u, w \in Writers : u = w

InKernel(w) == pc[w] \in {"copy", "search", "populate", "list", "walk", "free"}

RequestInCp(w) == /\ cp.size = Len(req[w].buff) /\ cp.shouldSkip = req[w].shouldSkip
                  /\ cp.pid = req[w].pid

\* What the writer holds is what it asked for.
Holds(w) ==
  /\ At(w, "alloc") => RequestInCp(w) /\ cp.buff = User(w)
  /\ InKernel(w) => RequestInCp(w) /\ Owns(w)
  /\ At(w, "copy") => temp_buff[w] = User(w)
  /\ InKernel(w) /\ ~At(w, "copy") => words[w] = req[w].buff
  /\ At(w, "walk") => page_addr[w] =
       [i \in 1..Len(req[w].buff) |-> PageAddr(StartBrk, req[w].buff[i])]
  /\ pc[w] \in {"idle", "done"} => words[w] = NoBuffer
  /\ At(w, "alloc") => words[w] = NoBuffer
  /\ At(w, "copy") => words[w] = << >>
  /\ At(w, "fault") => (words[w] # NoBuffer) = (req[w].bad = "list")
  /\ ~At(w, "undefined")

Arrays == DOMAIN words = Writers /\ DOMAIN page_addr = Writers

HeapPages == StartBrk..(MaxBrk - 1)

\* No page of p's heap was made noncacheable, nor will be by a fault.
Fresh(p) == /\ prot[p][2] = "cached"
            /\ \A a \in HeapPages : pte[p][a] \in {"absent", "cached"}

Present(p, hi) == \A a \in HeapPages : a < hi => pte[p][a] # "absent"

\* The heap pages below hi are as w wants them, the others as populated.
Settled(w, hi) ==
  \A a \in HeapPages : a < hi =>
    /\ pte[req[w].pid][a] # "absent"
    /\ (pte[req[w].pid][a] = "noncached") = AskedNoncacheable(req[w], a)

Found(w) == \E i \in 1..Len(Tasks) : i < task[w] /\ Tasks[i] = req[w].pid

\* How far the walk has come, from the process's point of view.
Progress(w) ==
  LET p == req[w].pid IN
  /\ Busy(w) => task[w] \in 1..Len(Tasks) /\ Tasks[task[w]] = p /\ vma[w] = 2
                /\ StartBrk <= next[w] /\ next[w] <= brk[p]
  /\ p \in Pids =>
     /\ pc[w] \in {"idle", "alloc", "copy", "fault"} => Fresh(p) /\ task[w] = 1
     /\ At(w, "search") /\ ~Found(w) => Fresh(p)
     /\ At(w, "search") /\ Found(w) => Settled(w, brk[p])
     /\ At(w, "populate") => Fresh(p) /\ Present(p, next[w])
     /\ At(w, "list") => Fresh(p) /\ Present(p, brk[p])
     /\ At(w, "walk") => /\ Settled(w, next[w])
                         /\ \A a \in HeapPages :
                              next[w] <= a /\ a < brk[p] => pte[p][a] = "cached"
     /\ pc[w] \in {"free", "done"} => Settled(w, FirstBrk)

LoneInv == /\ TypeInv /\ Arrays /\ NoFrameZero
           /\ \A w \in Writers : Holds(w) /\ Progress(w)

-----------------------------------------------------------------------------
LEMMA FaultExact ==
  ASSUME TypeOK, NEW p \in Pids, NEW v \in 1..2, NEW some, Fault(p, v, some)
  PROVE  \A q \in Pids, a \in Pages :
           pte'[q][a] = IF q = p /\ a \in some /\ pte[q][a] = "absent"
                          THEN prot[p][v] ELSE pte[q][a]
BY DEF TypeOK, Fault

LEMMA ChangeExact ==
  ASSUME TypeOK, NEW p \in Pids, NEW v \in 1..2, NEW a \in Pages, pte[p][a] # "absent",
         MakeNoncacheable(p, v, a)
  PROVE  \A q \in Pids, b \in Pages :
           pte'[q][b] = IF q = p /\ b = a THEN "noncached" ELSE pte[q][b]
<1>1. pte[p] \in [Pages -> {"absent", "cached", "noncached", "frame0"}]
  BY DEF TypeOK
<1> DEFINE new == [pte[p] EXCEPT ![a] = "noncached"]
<1>2. \A b \in Pages : new[b] = IF b = a THEN "noncached" ELSE pte[p][b]
  BY <1>1
<1>3. pte' = [pte EXCEPT ![p] = new]
  BY DEF MakeNoncacheable
<1> HIDE DEF new
<1> QED BY <1>2, <1>3 DEF TypeOK

LEMMA HeapInPages == HeapPages \subseteq Pages
BY LayoutAssumption DEF HeapPages, Pages

LEMMA RequestTypes ==
  ASSUME TypeOK, NEW w \in Writers
  PROVE  req[w].buff \in Seq(Nat) /\ req[w].shouldSkip \in BOOLEAN
BY RequestAssumption DEF TypeOK

LEMMA InitLone == Init => LoneInv
<1> SUFFICES ASSUME Init PROVE LoneInv
  OBVIOUS
<1>1. NoFrameZero
  BY DEF Init, NoFrameZero
<1>2. Arrays
  BY DEF Init, Arrays
<1>3. ASSUME NEW w \in Writers PROVE Holds(w)
  BY DEF Init, Holds, InKernel, At
<1>4. ASSUME NEW w \in Writers PROVE Progress(w)
  BY HeapInPages DEF Init, Progress, Fresh, Busy, At
<1> QED BY <1>1, <1>2, <1>3, <1>4, InitType DEF LoneInv

(* The program touching a page, or growing its heap.                        *)
LEMMA ProgramLone ==
  ASSUME LoneInv, NEW q \in Pids, Touch(q) \/ GrowHeap(q)
  PROVE  LoneInv'
<1> USE DEF LoneInv, TypeInv
<1>1. UNCHANGED <<cp, pc, writerVars, prot>>
  BY DEF Touch, GrowHeap
<1>2. TypeInv' /\ Arrays'
  BY <1>1, ProgramType DEF Arrays, writerVars
<1>3. ASSUME NEW w \in Writers PROVE Holds(w)'
  BY <1>1 DEF Holds, InKernel, At, Owns, RequestInCp, writerVars
<1>4. /\ \A p \in Pids, a \in Pages :
           \/ pte'[p][a] = pte[p][a]
           \/ p = q /\ pte[p][a] = "absent" /\ \E v \in 1..2 : pte'[p][a] = prot[q][v]
                    /\ (a \in HeapPages => v = 2)
      /\ \A p \in Pids : p # q => brk'[p] = brk[p]
      /\ ~Stopped(q)
  <2>1. CASE Touch(q)
    <3>1. PICK v \in 1..2, a \in Pages : /\ Areas(q)[v].start <= a /\ a < Areas(q)[v].end
                                         /\ Fault(q, v, {a})
      BY <2>1 DEF Touch
    <3>2. a \in HeapPages => v = 2
      BY <3>1, LayoutAssumption DEF Areas, HeapPages
    <3> QED BY <2>1, <3>1, <3>2, FaultExact DEF Touch
  <2>2. CASE GrowHeap(q)
    BY <2>2 DEF GrowHeap, TypeOK
  <2> QED BY <2>1, <2>2
<1>5. NoFrameZero'
  <2>1. \A v \in 1..2 : prot[q][v] # "frame0"
    BY DEF TypeOK
  <2> QED BY <1>4, <2>1 DEF NoFrameZero
<1>6. ASSUME NEW w \in Writers PROVE Progress(w)'
  <2> DEFINE p == req[w].pid
  <2>1. UNCHANGED <<pc[w], req[w], task[w], vma[w], next[w], prot>>
    BY <1>1 DEF writerVars
  <2>2. CASE p = q
    <3>1. pc[w] \in {"idle", "done", "fault"}
      BY <1>4, <2>2 DEF Stopped, Returned, At
    <3>2. Fresh(p) => Fresh(p)'
      BY <1>4, <2>1, <2>2, HeapInPages DEF Fresh
    <3>3. Settled(w, FirstBrk) => Settled(w, FirstBrk)'
      BY <1>4, <2>1, <2>2, HeapInPages DEF Settled
    <3> QED BY <2>1, <2>2, <3>1, <3>2, <3>3 DEF Progress, Busy, At
  <2>3. CASE p # q /\ p \in Pids
    <3>1. brk'[p] = brk[p] /\ \A a \in HeapPages : pte'[p][a] = pte[p][a]
      BY <1>4, <2>3, HeapInPages
    <3>2. Fresh(p)' = Fresh(p) /\ \A hi : Present(p, hi)' = Present(p, hi)
      BY <2>1, <3>1 DEF Fresh, Present
    <3>3. \A hi : Settled(w, hi) => Settled(w, hi)'
      BY <2>1, <3>1 DEF Settled
    <3> QED BY <2>1, <3>1, <3>2, <3>3 DEF Progress, Busy, At, Found, Settled
  <2>4. CASE p \notin Pids
    <3>1. ~Busy(w)
      BY <2>4, TaskPid DEF Progress
    <3> QED BY <2>1, <2>4, <3>1 DEF Progress, Busy
  <2> QED BY <2>2, <2>3, <2>4
<1> QED BY <1>2, <1>3, <1>5, <1>6

-----------------------------------------------------------------------------
(* The writer's own steps.                                                  *)
LEMMA HoldsStep ==
  ASSUME Lone, LoneInv, NEW w \in Writers, Write(w)
  PROVE  Holds(w)' /\ Arrays'
<1> USE DEF LoneInv, TypeInv, Arrays
<1>1. CASE CopyParams(w)
  BY <1>1 DEF CopyParams, Goto, At, Holds, InKernel, RequestInCp, TypeOK, writerVars
<1>2. CASE AllocBuffer(w)
  BY <1>2 DEF AllocBuffer, Goto, At, Holds, InKernel, RequestInCp, Owns, TypeOK
<1>3. CASE CopyPages(w)
  BY <1>3 DEF CopyPages, Mapped, Goto, At, Holds, InKernel, RequestInCp, Owns, TypeOK
<1>4. CASE ParamsFault(w)
  BY <1>4 DEF ParamsFault, Goto, At, Holds, InKernel, TypeOK, writerVars
<1>10. CASE ListFault(w)
  <2>1. words'[w] = << >> /\ req'[w].bad = "list" /\ pc'[w] = "fault"
    BY <1>10 DEF ListFault, Mapped, Goto, At, Holds, TypeOK, writerVars
  <2>2. << >> # NoBuffer
    BY DEF NoBuffer
  <2> QED BY <1>10, <2>1, <2>2 DEF ListFault, Holds, InKernel, At, writerVars
<1>11. ~AllocFails(w)
  BY DEF AllocFails, Lone
<1>5. CASE \/ SkipTask(w) \/ TakeLock(w) \/ PopulateSome(w) \/ PopulateNone(w)
                \/ PopulateGivesUp(w) \/ print_mem(w)
  BY <1>5 DEF SkipTask, TakeLock, PopulateSome, PopulateNone, PopulateGivesUp,
              print_mem, Populating, At, Holds, InKernel, RequestInCp, Owns
<1>6. CASE FoundTask(w) \/ NoMoreTasks(w) \/ PopulateDone(w) \/ WalkDone(w)
  BY <1>6 DEF FoundTask, NoMoreTasks, PopulateDone, WalkDone, Goto, At, Holds,
              InKernel, RequestInCp, Owns, TypeOK, writerVars
<1>7. CASE ListPages(w)
  <2>1. Area(w).start = StartBrk
    BY <1>7 DEF ListPages, Progress, Busy, At, Area, Areas
  <2>2. /\ cp.size = Len(req[w].buff) /\ words[w] = req[w].buff
        /\ cp' = cp /\ req' = req /\ words' = words /\ Owns(w) /\ RequestInCp(w)
    BY <1>7 DEF ListPages, Holds, InKernel, At, RequestInCp
  <2>3. page_addr'[w] = [i \in 1..Len(req[w].buff) |-> PageAddr(StartBrk, req[w].buff[i])]
    BY <1>7, <2>1, <2>2 DEF ListPages
  <2>4. pc'[w] = "walk" /\ DOMAIN page_addr' = Writers /\ DOMAIN words' = Writers
    BY <1>7, <2>2 DEF ListPages, Goto, TypeOK
  <2> QED BY <2>2, <2>3, <2>4 DEF Holds, InKernel, At, RequestInCp, Owns
<1>8. CASE FreeBuffer(w)
  BY <1>8 DEF FreeBuffer, Goto, At, Holds, InKernel, TypeOK
<1>9. ~Undefined(w)
  <2>1. /\ pc[w] \in {"copy", "list", "free"} => Owns(w)
        /\ At(w, "copy") => cp.size > 0 /\ temp_buff[w] = User(w)
    BY DEF Holds, InKernel, RequestInCp, At, Lone, TypeOK
  <2>2. At(w, "walk") => Len(page_addr[w]) = cp.size
    <3> SUFFICES ASSUME At(w, "walk") PROVE Len(page_addr[w]) = cp.size
      OBVIOUS
    <3>1. cp.size = Len(req[w].buff) /\ Len(req[w].buff) \in Nat
      BY RequestFields DEF Holds, InKernel, RequestInCp, At
    <3>2. page_addr[w] = [i \in 1..cp.size |-> PageAddr(StartBrk, req[w].buff[i])]
      BY <3>1 DEF Holds
    <3> QED BY <3>1, <3>2
  <2> QED BY <2>1, <2>2 DEF Undefined, Lone, TypeOK
<1> QED BY <1>1, <1>2, <1>3, <1>4, <1>5, <1>6, <1>7, <1>8, <1>9, <1>10, <1>11 DEF Write

(* print_mem skips exactly the pages that are to stay cacheable.            *)
LEMMA SkipsAsAsked ==
  ASSUME LoneInv, NEW w \in Writers, At(w, "walk"), NEW a \in Nat
  PROVE  Skips(w, a) = ~AskedNoncacheable(req[w], a)
<1> USE DEF LoneInv, TypeInv
<1>1. /\ cp.size = Len(req[w].buff) /\ cp.shouldSkip = req[w].shouldSkip
      /\ page_addr[w] = [i \in 1..Len(req[w].buff) |-> PageAddr(StartBrk, req[w].buff[i])]
  BY DEF Holds, InKernel, RequestInCp, At
<1>2. (\E i \in 1..cp.size : page_addr[w][i] = a)
        <=> (\E i \in 1..Len(req[w].buff) : a = StartBrk + req[w].buff[i] - 1)
  BY <1>1 DEF PageAddr
<1>3. req[w].shouldSkip \in BOOLEAN
  BY RequestTypes
<1> QED BY <1>1, <1>2, <1>3 DEF Skips, AskedNoncacheable

(* The steps before and between the walks.                                  *)
LEMMA ProgressOutside ==
  ASSUME Lone, Apart, LoneInv, NEW w \in Writers, Write(w), ~PopulateSome(w),
         ~print_mem(w)
  PROVE  Progress(w)'
<1> USE DEF LoneInv, TypeInv
<1> DEFINE p == req[w].pid
<1>1. req' = req /\ brk' = brk /\ pte' = pte /\ prot' = prot
  BY DEF Write, CopyParams, ParamsFault, AllocBuffer, AllocFails, CopyPages,
       ListFault, SkipTask, FoundTask, NoMoreTasks, TakeLock, PopulateSome,
       PopulateNone, PopulateGivesUp, PopulateDone, ListPages, print_mem,
       WalkDone, FreeBuffer, Undefined, writerVars, processVars
<1>2. Fresh(p)' = Fresh(p) /\ \A hi : Present(p, hi)' = Present(p, hi)
  BY <1>1 DEF Fresh, Present
<1>3. \A hi : Settled(w, hi) => Settled(w, hi)'
  BY <1>1 DEF Settled
<1>4. CASE CopyParams(w) \/ ParamsFault(w) \/ AllocBuffer(w) \/ ListFault(w)
  BY <1>1, <1>2, <1>4 DEF CopyParams, ParamsFault, AllocBuffer, ListFault, Goto, At,
     Progress, Busy, TypeOK, writerVars
<1>14. CASE TakeLock(w) \/ PopulateNone(w)
  BY <1>1, <1>2, <1>14 DEF TakeLock, PopulateNone, Populating, At, Progress, Busy,
     TypeOK
<1>5. CASE CopyPages(w)
  <2>1. task'[w] = task[w] /\ pc'[w] = "search"
    BY <1>5 DEF CopyPages, Goto, TypeOK
  <2>2. p \in Pids => Fresh(p) /\ task[w] = 1
    BY <1>5 DEF CopyPages, Progress, At
  <2>3. p \in Pids => ~Found(w)'
    BY <1>1, <2>1, <2>2 DEF Found
  <2> QED BY <1>1, <1>2, <2>1, <2>2, <2>3 DEF Progress, Busy, At
<1>6. CASE SkipTask(w)
  <2>1. /\ pc'[w] = "search" /\ pc[w] = "search" /\ task'[w] = task[w] + 1
        /\ task[w] \in 1..Len(Tasks)
    BY <1>6, RequestAssumption DEF SkipTask, NextTask, At, TypeOK
  <2>2. Tasks[task[w]] # p
    <3>1. Tasks[task[w]] \in Pids /\ cp.pid = p
      BY <2>1, TaskPid DEF Holds, InKernel, RequestInCp
    <3>2. FindHeap(Tasks[task[w]]) = 2
      BY <3>1, HeapFound
    <3> QED BY <1>6, <3>1, <3>2 DEF SkipTask, Wanted
  <2>3. Found(w)' = Found(w)
    BY <1>1, <2>1, <2>2 DEF Found
  <2> QED BY <1>1, <1>2, <1>3, <2>1, <2>3 DEF Progress, Busy, At
<1>7. CASE FoundTask(w)
  <2>1. task[w] \in 1..Len(Tasks) /\ Tasks[task[w]] = cp.pid /\ pc[w] = "search"
    BY <1>7, RequestAssumption DEF FoundTask, Wanted, At, TypeOK
  <2>2. Tasks[task[w]] = p /\ p \in Pids
    BY <2>1, TaskPid DEF Holds, InKernel, RequestInCp
  <2>3. FindHeap(p) = 2 /\ Areas(p)[2].start = StartBrk
    BY <2>2, HeapFound DEF Areas
  <2>4. vma'[w] = 2 /\ next'[w] = StartBrk /\ task' = task /\ pc'[w] = "populate"
    BY <1>7, <2>2, <2>3 DEF FoundTask, Goto, TypeOK
  <2>5. ~Found(w)
    BY <2>1, <2>2, RequestAssumption DEF Found
  <2>6. StartBrk <= brk[p] /\ Present(p, StartBrk)
    BY <2>2, LayoutAssumption DEF TypeOK, Present, HeapPages
  <2>7. Fresh(p)
    BY <2>1, <2>2, <2>5 DEF Progress, At
  <2>8. next'[w] <= brk[p] /\ StartBrk <= next'[w]
    BY <2>4, <2>6, LayoutAssumption
  <2>9. Present(p, next[w])'
    BY <1>1, <2>4, <2>6 DEF Present
  <2> QED BY <1>1, <1>2, <2>1, <2>2, <2>4, <2>7, <2>8, <2>9 DEF Progress, Busy, At
<1>8. CASE NoMoreTasks(w)
  <2>1. pc[w] = "search" /\ pc'[w] = "free" /\ task[w] > Len(Tasks) /\ task[w] \in Nat
    BY <1>8, RequestAssumption DEF NoMoreTasks, Goto, At, TypeOK
  <2>2. p \in Pids => Found(w)
    <3>1. Len(Tasks) \in Nat
      BY RequestAssumption
    <3> QED BY <2>1, <3>1 DEF Found, Pids
  <2>3. p \in Pids => Settled(w, FirstBrk)
    <3> SUFFICES ASSUME p \in Pids PROVE Settled(w, FirstBrk)
      OBVIOUS
    <3>1. brk[p] \in Nat /\ FirstBrk <= brk[p] /\ Settled(w, brk[p])
      BY <2>1, <2>2, LayoutAssumption DEF Progress, At, TypeOK
    <3> QED BY <3>1, LayoutAssumption DEF Settled, HeapPages
  <2> QED BY <1>1, <1>3, <2>1, <2>3 DEF Progress, Busy, At
<1>9. CASE PopulateDone(w)
  <2>1. /\ pc[w] = "populate" /\ pc'[w] = "list" /\ next[w] >= Area(w).end
        /\ UNCHANGED <<task, vma, next>>
    BY <1>9 DEF PopulateDone, PopulateEnd, Goto, At, TypeOK
  <2>2. Area(w).end = brk[p] /\ brk[p] \in Nat /\ next[w] <= brk[p] /\ p \in Pids
    BY <2>1, TaskPid, LayoutAssumption DEF Progress, Busy, Area, Areas, Pid, TypeOK
  <2>3. Present(p, brk[p])
    BY <2>1, <2>2 DEF Progress, At, TypeOK
  <2> QED BY <1>1, <1>2, <2>1, <2>2, <2>3 DEF Progress, Busy, At, Present
<1>10. CASE ListPages(w)
  <2>1. pc[w] = "list" /\ pc'[w] = "walk" /\ UNCHANGED <<task, vma>>
    BY <1>10 DEF ListPages, Goto, At, TypeOK
  <2>2. Area(w).start = StartBrk /\ brk[p] \in Nat /\ p \in Pids /\ StartBrk <= brk[p]
    BY <2>1, TaskPid, LayoutAssumption DEF Progress, Busy, Area, Areas, Pid, TypeOK
  <2>3. next'[w] = StartBrk
    BY <1>10, <2>2 DEF ListPages, TypeOK
  <2>4. Settled(w, StartBrk)
    BY LayoutAssumption DEF Settled, HeapPages
  <2>5. \A a \in HeapPages : a < brk[p] => pte[p][a] = "cached"
    BY <2>1, <2>2 DEF Progress, At, Fresh, Present
  <2>6. /\ Settled(w, next[w])'
        /\ \A a \in HeapPages : next'[w] <= a /\ a < brk[p] => pte'[p][a] = "cached"
    BY <1>1, <2>3, <2>4, <2>5 DEF Settled
  <2> QED BY <1>1, <2>1, <2>2, <2>3, <2>6, LayoutAssumption DEF Progress, Busy, At
<1>11. CASE WalkDone(w)
  <2>1. /\ pc[w] = "walk" /\ pc'[w] = "search" /\ task'[w] = task[w] + 1
        /\ next[w] = Area(w).end /\ task[w] \in 1..Len(Tasks)
    BY <1>11 DEF WalkDone, NextTask, Goto, At, TypeOK, Progress, Busy
  <2>2. Area(w).end = brk[p] /\ Tasks[task[w]] = p /\ p \in Pids
    BY <2>1, TaskPid DEF Progress, Busy, Area, Areas, Pid
  <2>3. Settled(w, brk[p]) /\ Found(w)'
    BY <1>1, <2>1, <2>2 DEF Progress, At, Found
  <2>4. Settled(w, brk[p])'
    BY <1>1, <1>3, <2>3
  <2> QED BY <1>1, <2>1, <2>3, <2>4 DEF Progress, Busy, At, Settled
<1>12. CASE FreeBuffer(w)
  BY <1>1, <1>3, <1>12 DEF FreeBuffer, Goto, At, Progress, Busy, TypeOK
<1>13. ~AllocFails(w) /\ ~PopulateGivesUp(w) /\ ~Undefined(w)
  BY HoldsStep DEF AllocFails, PopulateGivesUp, Undefined, Lone, At, Holds, Goto, TypeOK
<1> QED
  BY <1>4, <1>5, <1>6, <1>7, <1>8, <1>9, <1>10, <1>11, <1>12, <1>13,
     <1>14 DEF Write

(* Pages faulted in before the walk are cacheable.                          *)
LEMMA PopulateLone ==
  ASSUME LoneInv, NEW w \in Writers, PopulateSome(w)
  PROVE  Progress(w)' /\ NoFrameZero'
<1> USE DEF LoneInv, TypeInv
<1> DEFINE p == req[w].pid
<1>1. /\ pc[w] = "populate" /\ UNCHANGED <<pc, req, task, vma, brk, prot>>
  BY DEF PopulateSome, Populating, At
<1>2. p \in Pids /\ Pid(w) = p /\ vma[w] = 2 /\ Area(w).end = brk[p] /\ brk[p] \in Nat
  BY <1>1, TaskPid, LayoutAssumption DEF Progress, Busy, Area, Areas, Pid, TypeOK
<1>3. PICK upto \in (next[w] + 1)..brk[p] :
        Fault(p, 2, next[w]..(upto - 1)) /\ next'[w] = upto
  BY <1>1, <1>2 DEF PopulateSome, PopulateEnd, TypeOK
<1>4. next[w] \in Nat /\ StartBrk <= next[w] /\ StartBrk \in Nat
  BY <1>1, LayoutAssumption DEF Progress, Busy, TypeOK
<1>5. StartBrk <= next'[w] /\ next'[w] <= brk[p]
  BY <1>2, <1>3, <1>4
<1>6. Fresh(p) /\ Present(p, next[w])
  BY <1>1, <1>2 DEF Progress, At
<1> DEFINE some == next[w]..(upto - 1)
<1>7. \A q \in Pids, a \in Pages :
        pte'[q][a] = IF q = p /\ a \in some /\ pte[q][a] = "absent"
                       THEN prot[p][2] ELSE pte[q][a]
  <2> HIDE DEF some
  <2>1. Fault(p, 2, some) /\ 2 \in 1..2
    BY <1>3 DEF some
  <2> QED BY <1>2, <2>1, FaultExact
<1>8. Fresh(p)' /\ NoFrameZero'
  BY <1>1, <1>2, <1>6, <1>7, HeapInPages DEF Fresh, NoFrameZero
<1>9. Present(p, next[w])'
  <2> SUFFICES ASSUME NEW a \in HeapPages, a < next'[w] PROVE pte'[p][a] # "absent"
    BY <1>1 DEF Present
  <2>1. CASE a < next[w]
    BY <1>2, <1>6, <1>7, <2>1, HeapInPages DEF Present, Fresh
  <2>2. CASE ~(a < next[w])
    <3>1. a \in some
      BY <1>3, <1>4, <2>2, LayoutAssumption DEF HeapPages
    <3> QED BY <1>2, <1>6, <1>7, <3>1, HeapInPages DEF Fresh
  <2> QED BY <2>1, <2>2
<1> QED BY <1>1, <1>2, <1>5, <1>8, <1>9 DEF Progress, Busy, At

(* The walk settles the page it is at.                                      *)
LEMMA WalkLone ==
  ASSUME LoneInv, NEW w \in Writers, print_mem(w)
  PROVE  Progress(w)' /\ NoFrameZero'
<1> USE DEF LoneInv, TypeInv
<1> DEFINE p == req[w].pid
           here == next[w]
<1>1. /\ pc[w] = "walk" /\ UNCHANGED <<pc, req, task, vma, brk>> /\ here < Area(w).end
  BY DEF print_mem, At
<1>2. p \in Pids /\ Pid(w) = p /\ vma[w] = 2 /\ Area(w).end = brk[p] /\ brk[p] \in Nat
  BY <1>1, TaskPid, LayoutAssumption DEF Progress, Busy, Area, Areas, Pid, TypeOK
<1>3. /\ here \in Nat /\ StartBrk \in Nat /\ StartBrk <= here /\ here < brk[p]
      /\ here \in HeapPages /\ here \in Pages
  BY <1>1, <1>2, LayoutAssumption, HeapInPages
     DEF Progress, Busy, TypeOK, HeapPages
<1>4. next'[w] = here + 1
  BY DEF print_mem, TypeOK
<1>5. /\ Settled(w, here) /\ pte[p][here] = "cached"
      /\ \A a \in HeapPages : here <= a /\ a < brk[p] => pte[p][a] = "cached"
  BY <1>1, <1>2, <1>3 DEF Progress, At
<1>6. Skips(w, here) = ~AskedNoncacheable(req[w], here)
  BY <1>1, <1>3, SkipsAsAsked DEF At
<1>7. \A q \in Pids, a \in Pages :
        pte'[q][a] = IF q = p /\ a = here /\ AskedNoncacheable(req[w], here)
                       THEN "noncached" ELSE pte[q][a]
  <2>1. CASE Skips(w, here)
    BY <1>6, <2>1 DEF print_mem
  <2>2. CASE ~Skips(w, here)
    <3>1. MakeNoncacheable(p, 2, here) /\ 2 \in 1..2 /\ pte[p][here] # "absent"
      BY <1>2, <1>5, <2>2 DEF print_mem
    <3>2. AskedNoncacheable(req[w], here)
      BY <1>6, <2>2
    <3> HIDE DEF p, here
    <3> QED BY <1>2, <1>3, <3>1, <3>2, ChangeExact
  <2> QED BY <2>1, <2>2
<1>8. NoFrameZero'
  BY <1>7 DEF NoFrameZero
<1>9. Settled(w, next[w])'
  <2> SUFFICES ASSUME NEW a \in HeapPages, a < here + 1
               PROVE  /\ pte'[p][a] # "absent"
                      /\ (pte'[p][a] = "noncached") = AskedNoncacheable(req[w], a)
    BY <1>1, <1>4 DEF Settled, AskedNoncacheable
  <2>1. CASE a = here
    <3>1. pte'[p][here] = IF AskedNoncacheable(req[w], here) THEN "noncached" ELSE "cached"
      BY <1>2, <1>3, <1>5, <1>7
    <3>2. AskedNoncacheable(req[w], here) \in BOOLEAN
      BY RequestTypes DEF AskedNoncacheable
    <3> HIDE DEF p, here
    <3>3. CASE AskedNoncacheable(req[w], here)
      BY <2>1, <3>1, <3>2, <3>3
    <3>4. CASE ~AskedNoncacheable(req[w], here)
      BY <2>1, <3>1, <3>2, <3>4
    <3> QED BY <3>3, <3>4
  <2>2. CASE a < here
    BY <1>2, <1>5, <1>7, <2>2, HeapInPages DEF Settled
  <2> QED BY <1>3, <2>1, <2>2, LayoutAssumption DEF HeapPages
<1>10. \A a \in HeapPages : next'[w] <= a /\ a < brk[p] => pte'[p][a] = "cached"
  <2> SUFFICES ASSUME NEW a \in HeapPages, here + 1 <= a, a < brk[p]
               PROVE  pte'[p][a] = "cached"
    BY <1>4
  <2>1. a # here /\ here <= a
    BY <1>3, LayoutAssumption DEF HeapPages
  <2> QED BY <1>2, <1>5, <1>7, <2>1, HeapInPages
<1>11. StartBrk <= next'[w] /\ next'[w] <= brk[p]
  BY <1>2, <1>3, <1>4
<1>12. task[w] \in 1..Len(Tasks) /\ Tasks[task[w]] = p /\ vma[w] = 2
  BY <1>1 DEF Progress, Busy
<1>13. pc'[w] = "walk" /\ req'[w].pid = p /\ task'[w] = task[w] /\ vma'[w] = vma[w]
       /\ brk'[p] = brk[p]
  BY <1>1
<1> HIDE DEF here, p
<1>14. Progress(w)'
  BY <1>9, <1>10, <1>11, <1>12, <1>13 DEF Progress, Busy, At
<1> QED BY <1>8, <1>14

LEMMA WriteLone ==
  ASSUME Lone, Apart, LoneInv, NEW w \in Writers, Write(w)
  PROVE  LoneInv'
<1>1. TypeInv' /\ Arrays' /\ Holds(w)'
  BY WriteType, HoldsStep DEF LoneInv
<1>2. Progress(w)' /\ NoFrameZero'
  <2>1. CASE PopulateSome(w)
    BY <2>1, PopulateLone
  <2>2. CASE print_mem(w)
    BY <2>2, WalkLone
  <2>3. CASE ~PopulateSome(w) /\ ~print_mem(w)
    <3>1. pte' = pte
      BY <2>3 DEF Write, CopyParams, ParamsFault, AllocBuffer, AllocFails,
           CopyPages, ListFault, SkipTask, FoundTask, NoMoreTasks, TakeLock,
           PopulateNone, PopulateGivesUp, PopulateDone, ListPages, WalkDone,
           FreeBuffer, Undefined, processVars
    <3> QED BY <2>3, <3>1, ProgressOutside DEF LoneInv, NoFrameZero
  <2> QED BY <2>1, <2>2, <2>3
<1> QED BY <1>1, <1>2 DEF LoneInv, Lone

LEMMA StutterLone == LoneInv /\ UNCHANGED vars => LoneInv'
<1> SUFFICES ASSUME LoneInv, UNCHANGED vars PROVE LoneInv'
  OBVIOUS
<1> USE DEF vars, writerVars, processVars
<1>1. TypeInv' /\ Arrays' /\ NoFrameZero'
  BY DEF LoneInv, TypeInv, TypeOK, BusyTyped, Busy, Arrays, NoFrameZero
<1>2. ASSUME NEW w \in Writers PROVE Holds(w)'
  BY DEF LoneInv, Holds, InKernel, At, Owns, RequestInCp
<1>3. ASSUME NEW w \in Writers PROVE Progress(w)'
  BY DEF LoneInv, Progress, Busy, At, Fresh, Present, Settled, Found
<1> QED BY <1>1, <1>2, <1>3 DEF LoneInv

LEMMA LoneInvariant == Lone /\ Apart => (Spec => []LoneInv)
<1> SUFFICES ASSUME Lone, Apart PROVE Spec => []LoneInv
  OBVIOUS
<1>1. LoneInv /\ [Next]_vars => LoneInv'
  BY WriteLone, ProgramLone, StutterLone DEF Next
<1> QED BY InitLone, <1>1, PTL DEF Spec

(* With one writer, memory enough and a data segment apart from the heap,   *)
(* every write that returned 0 has made exactly the requested heap pages    *)
(* noncacheable, and every refused one none (both_multiple.c:347-431).      *)
THEOREM Honoured == Lone /\ Apart => (Spec => []RequestHonoured)
<1>1. LoneInv => RequestHonoured
  <2> SUFFICES ASSUME LoneInv, NEW w \in Writers, Returned(w), req[w].pid \in Pids,
                      NEW a \in StartBrk..(FirstBrk - 1)
               PROVE  (pte[req[w].pid][a] = "noncached")
                        = (At(w, "done") /\ AskedNoncacheable(req[w], a))
    BY DEF RequestHonoured
  <2>1. a \in HeapPages /\ a < FirstBrk
    BY LayoutAssumption DEF HeapPages
  <2>2. CASE At(w, "done")
    BY <2>1, <2>2 DEF LoneInv, Progress, Settled, At
  <2>3. CASE At(w, "fault")
    BY <2>1, <2>3 DEF LoneInv, Progress, Fresh, At
  <2> QED BY <2>2, <2>3 DEF Returned, At
<1> QED BY <1>1, LoneInvariant, PTL

(* Under the same conditions no entry is made from an absent page           *)
(* (both_multiple.c:315-337).                                               *)
THEOREM NoZero == Lone /\ Apart => (Spec => []NoFrameZero)
<1>1. LoneInv => NoFrameZero
  BY DEF LoneInv
<1> QED BY <1>1, LoneInvariant, PTL

(* And no copy of a list stays allocated but that of a write refused for    *)
(* its list, which always does (both_multiple.c:358-361, 425).              *)
THEOREM ListsFreed == Lone /\ Apart => (Spec => []OnlyListFaultsLeak)
<1>1. LoneInv => OnlyListFaultsLeak
  <2> SUFFICES ASSUME LoneInv, NEW w \in Writers, Returned(w)
               PROVE  (words[w] # NoBuffer) = (At(w, "fault") /\ req[w].bad = "list")
    BY DEF OnlyListFaultsLeak
  <2> QED BY DEF LoneInv, Holds, Returned, At
<1> QED BY <1>1, LoneInvariant, PTL

-----------------------------------------------------------------------------
(* No writer walks past the highest break.                                  *)
WithinHeap == \A w \in Writers : next[w] <= MaxBrk

LEMMA AreaBelow ==
  ASSUME TypeOK, NEW p \in Pids, NEW v \in 1..2
  PROVE  Areas(p)[v].start <= MaxBrk /\ Areas(p)[v].end <= MaxBrk
BY LayoutAssumption DEF TypeOK, Areas

LEMMA BusyBelow ==
  ASSUME TypeInv, NEW w \in Writers, Busy(w)
  PROVE  /\ Area(w).start \in Nat /\ Area(w).start <= MaxBrk
         /\ Area(w).end \in Nat /\ Area(w).end <= MaxBrk
BY BusyArea, AreaBelow DEF TypeInv, BusyTyped, Area

(* Where the walk position goes.                                            *)
LEMMA NextWithin ==
  ASSUME TypeInv, WithinHeap, NEW w \in Writers, Write(w)
  PROVE  next'[w] <= MaxBrk
<1> USE DEF TypeInv
<1>0. MaxBrk \in Nat /\ next[w] \in Nat /\ next[w] <= MaxBrk
  BY LayoutAssumption DEF WithinHeap, TypeOK
<1>1. CASE next' = next
  BY <1>0, <1>1
<1>2. CASE FoundTask(w)
  <2> DEFINE p == Tasks[task[w]]
  <2>1. p \in Pids
    BY <1>2, RequestAssumption, TaskPid DEF FoundTask, TypeOK
  <2>2. FindHeap(p) \in 1..2 /\ Areas(p)[FindHeap(p)].start <= MaxBrk
    BY <2>1, HeapFound, AreaBelow
  <2> QED BY <1>2, <2>2 DEF FoundTask, TypeOK
<1>3. CASE PopulateSome(w)
  <2>1. PopulateEnd(w) \in Nat /\ PopulateEnd(w) <= MaxBrk
    BY <1>3, BusyBelow DEF PopulateSome, Populating, PopulateEnd, Busy, At
  <2> QED BY <1>0, <1>3, <2>1 DEF PopulateSome, TypeOK
<1>4. CASE PopulateGivesUp(w)
  <2>1. PopulateEnd(w) \in Nat /\ PopulateEnd(w) <= MaxBrk
    BY <1>4, BusyBelow DEF PopulateGivesUp, Populating, PopulateEnd, Busy, At
  <2> QED BY <1>4, <2>1 DEF PopulateGivesUp, TypeOK
<1>5. CASE ListPages(w)
  <2>1. Area(w).start <= MaxBrk
    BY <1>5, BusyBelow DEF ListPages, Busy, At
  <2> QED BY <1>5, <2>1 DEF ListPages, TypeOK
<1>6. CASE print_mem(w)
  <2>1. Area(w).end \in Nat /\ Area(w).end <= MaxBrk /\ next[w] < Area(w).end
    BY <1>6, BusyBelow DEF print_mem, Busy, At
  <2>2. next'[w] = next[w] + 1
    BY <1>6 DEF print_mem, TypeOK
  <2> QED BY <1>0, <2>1, <2>2
<1>7. \/ next' = next \/ FoundTask(w) \/ PopulateSome(w) \/ PopulateGivesUp(w)
      \/ ListPages(w) \/ print_mem(w)
  BY DEF Write, CopyParams, ParamsFault, AllocBuffer, AllocFails, CopyPages,
       ListFault, SkipTask, NoMoreTasks, TakeLock, PopulateNone, PopulateDone,
       WalkDone, FreeBuffer, Undefined, writerVars
<1> QED BY <1>1, <1>2, <1>3, <1>4, <1>5, <1>6, <1>7

(* A writer's step leaves the positions of the others alone.                *)
LEMMA OthersStay ==
  ASSUME TypeOK, NEW w \in Writers, Write(w), NEW u \in Writers, u # w
  PROVE  pc'[u] = pc[u] /\ task'[u] = task[u] /\ next'[u] = next[u]
       /\ locked'[u] = locked[u]
BY DEF Write, CopyParams, ParamsFault, AllocBuffer, AllocFails, CopyPages,
     ListFault, SkipTask, FoundTask, NoMoreTasks, TakeLock, PopulateSome,
     PopulateNone, PopulateGivesUp, PopulateDone, ListPages, print_mem, WalkDone,
     FreeBuffer, Undefined, NextTask, Goto, TypeOK, writerVars

LEMMA LeftType ==
  TypeOK /\ WithinHeap => \A w \in Writers : Left(w) \in Measures
<1> SUFFICES ASSUME TypeOK, WithinHeap, NEW w \in Writers
             PROVE  Left(w) \in Measures
  OBVIOUS
<1>1. Len(Tasks) \in Nat /\ task[w] \in 1..(Len(Tasks) + 1)
  BY RequestAssumption DEF TypeOK
<1>2. MaxBrk \in Nat /\ next[w] \in Nat /\ next[w] <= MaxBrk
  BY LayoutAssumption DEF TypeOK, WithinHeap
<1>3. Stage[pc[w]] \in Nat
  BY DEF Stage, TypeOK
<1> QED BY <1>1, <1>2, <1>3 DEF Left, Measures

LEMMA BelowAt ==
  ASSUME NEW m, NEW n, NEW i \in DOMAIN n, m[i] < n[i],
         \A j \in 1..(i - 1) : m[j] = n[j]
  PROVE  Below(m, n)
BY DEF Below

(* A writer's own step, by what it gets on with.                            *)
LEMMA WriteAdvances ==
  ASSUME TypeInv, NEW w \in Writers, Write(w)
  PROVE  Below(Left(w)', Left(w)) \/ Retried(w)
<1> USE DEF TypeInv
<1>1. /\ Len(Tasks) \in Nat /\ task[w] \in Nat /\ next[w] \in Nat /\ MaxBrk \in Nat
      /\ task \in [Writers -> Nat] /\ next \in [Writers -> Nat]
      /\ DOMAIN pc = Writers /\ locked \in [Writers -> BOOLEAN]
  BY LayoutAssumption, RequestAssumption DEF TypeOK
<1>2. CASE SkipTask(w) \/ WalkDone(w)
  <2>1. task'[w] = task[w] + 1
    BY <1>1, <1>2 DEF SkipTask, WalkDone, NextTask
  <2>2. DOMAIN Left(w) = 1..4 /\ Left(w)'[1] < Left(w)[1]
    BY <1>1, <2>1 DEF Left
  <2> QED BY <2>2, BelowAt
<1>3. CASE \/ PopulateSome(w) \/ PopulateGivesUp(w) \/ print_mem(w)
  <2>1. task'[w] = task[w] /\ pc'[w] = pc[w] /\ next'[w] \in Nat
    <3>1. next' \in [Writers -> Nat]
      BY WriteType DEF TypeOK
    <3> QED BY <1>3, <3>1 DEF PopulateSome, PopulateGivesUp, print_mem
  <2>2. next[w] < next'[w]
    <3>1. PopulateEnd(w) \in Nat
      BY <1>3, BusyArea DEF PopulateSome, PopulateGivesUp, Populating, print_mem,
           PopulateEnd, Busy, At
    <3>2. CASE PopulateSome(w)
      BY <1>1, <3>1, <3>2 DEF PopulateSome
    <3>3. CASE PopulateGivesUp(w)
      BY <1>1, <3>1, <3>3 DEF PopulateGivesUp, Populating
    <3>4. CASE print_mem(w)
      BY <1>1, <3>4 DEF print_mem
    <3> QED BY <1>3, <3>2, <3>3, <3>4
  <2>3. /\ DOMAIN Left(w) = 1..4
        /\ \A j \in 1..2 : Left(w)'[j] = Left(w)[j]
        /\ Left(w)'[3] < Left(w)[3]
    BY <1>1, <2>1, <2>2 DEF Left
  <2> QED BY <2>3, BelowAt
<1>5. CASE TakeLock(w)
  <2>1. /\ task'[w] = task[w] /\ pc'[w] = pc[w] /\ next'[w] = next[w]
        /\ ~locked[w] /\ locked'[w]
    BY <1>1, <1>5 DEF TakeLock
  <2>2. /\ DOMAIN Left(w) = 1..4
        /\ \A j \in 1..3 : Left(w)'[j] = Left(w)[j]
        /\ Left(w)'[4] < Left(w)[4]
    BY <1>1, <2>1 DEF Left
  <2> QED BY <2>2, BelowAt
<1>6. CASE PopulateNone(w)
  <2>1. /\ task'[w] = task[w] /\ pc'[w] = pc[w] /\ next'[w] = next[w]
        /\ ~locked'[w] /\ At(w, "populate")
    BY <1>1, <1>6 DEF PopulateNone, Populating
  <2> QED BY <2>1 DEF Retried, Left
<1>4. CASE /\ ~(SkipTask(w) \/ WalkDone(w) \/ TakeLock(w) \/ PopulateNone(w))
           /\ ~(PopulateSome(w) \/ PopulateGivesUp(w) \/ print_mem(w))
  <2>1. task'[w] = task[w]
    BY <1>4 DEF Write, CopyParams, ParamsFault, AllocBuffer, AllocFails,
         CopyPages, ListFault, FoundTask, NoMoreTasks, PopulateDone, ListPages,
         FreeBuffer, Undefined, writerVars
  <2>2. \A l : Goto(w, l) => pc'[w] = l
    BY <1>1 DEF Goto
  <2>3. /\ Stage[pc'[w]] \in Nat /\ Stage[pc[w]] \in Nat
        /\ Stage[pc'[w]] < Stage[pc[w]]
    <3>1. CASE CopyParams(w)
      <4>1. pc[w] = "idle" /\ pc'[w] = "alloc"
        BY <2>2, <3>1 DEF CopyParams, At
      <4> QED BY <4>1 DEF Stage
    <3>2. CASE AllocBuffer(w)
      <4>1. pc[w] = "alloc" /\ pc'[w] = "copy"
        BY <2>2, <3>2 DEF AllocBuffer, At
      <4> QED BY <4>1 DEF Stage
    <3>3. CASE CopyPages(w)
      <4>1. pc[w] = "copy" /\ pc'[w] = "search"
        BY <2>2, <3>3 DEF CopyPages, At
      <4> QED BY <4>1 DEF Stage
    <3>11. CASE ParamsFault(w)
      <4>1. pc[w] = "idle" /\ pc'[w] = "fault"
        BY <2>2, <3>11 DEF ParamsFault, At
      <4> QED BY <4>1 DEF Stage
    <3>12. CASE AllocFails(w)
      <4>1. pc[w] = "alloc" /\ pc'[w] = "copy"
        BY <2>2, <3>12 DEF AllocFails, At
      <4> QED BY <4>1 DEF Stage
    <3>4. CASE ListFault(w)
      <4>1. pc[w] = "copy" /\ pc'[w] = "fault"
        BY <2>2, <3>4 DEF ListFault, At
      <4> QED BY <4>1 DEF Stage
    <3>5. CASE FoundTask(w)
      <4>1. pc[w] = "search" /\ pc'[w] = "populate"
        BY <2>2, <3>5 DEF FoundTask, At
      <4> QED BY <4>1 DEF Stage
    <3>6. CASE NoMoreTasks(w)
      <4>1. pc[w] = "search" /\ pc'[w] = "free"
        BY <2>2, <3>6 DEF NoMoreTasks, At
      <4> QED BY <4>1 DEF Stage
    <3>7. CASE PopulateDone(w)
      <4>1. pc[w] = "populate" /\ pc'[w] = "list"
        BY <2>2, <3>7 DEF PopulateDone, At
      <4> QED BY <4>1 DEF Stage
    <3>8. CASE ListPages(w)
      <4>1. pc[w] = "list" /\ pc'[w] = "walk"
        BY <2>2, <3>8 DEF ListPages, At
      <4> QED BY <4>1 DEF Stage
    <3>9. CASE FreeBuffer(w)
      <4>1. pc[w] = "free" /\ pc'[w] = "done"
        BY <2>2, <3>9 DEF FreeBuffer, At
      <4> QED BY <4>1 DEF Stage
    <3>10. CASE Undefined(w)
      <4>1. pc[w] \in {"copy", "search", "list", "free", "walk"} /\ pc'[w] = "undefined"
        BY <2>2, <3>10 DEF Undefined, At
      <4> QED BY <4>1 DEF Stage
    <3> QED
      BY <1>4, <3>1, <3>2, <3>3, <3>4, <3>5, <3>6, <3>7, <3>8, <3>9, <3>10, <3>11, <3>12
         DEF Write
  <2>4. /\ DOMAIN Left(w) = 1..4
        /\ Left(w)'[1] = Left(w)[1] /\ Left(w)'[2] < Left(w)[2]
    BY <1>1, <2>1, <2>3 DEF Left
  <2> QED BY <2>4, BelowAt
<1> QED BY <1>2, <1>3, <1>4, <1>5, <1>6

LEMMA WithinStep ==
  ASSUME TypeInv, WithinHeap, [Next]_vars
  PROVE  WithinHeap'
<1>1. ASSUME NEW w \in Writers, Write(w) PROVE WithinHeap'
  <2> SUFFICES ASSUME NEW u \in Writers PROVE next'[u] <= MaxBrk
    BY DEF WithinHeap
  <2> QED BY <1>1, NextWithin, OthersStay DEF WithinHeap, TypeInv
<1>2. CASE UNCHANGED next
  BY <1>2 DEF WithinHeap
<1> QED BY <1>1, <1>2 DEF Next, Touch, GrowHeap, vars, writerVars

LEMMA StepAdvances ==
  ASSUME TypeInv, WithinHeap, Next, NEW w \in Writers
  PROVE  IF Write(w) THEN Below(Left(w)', Left(w)) \/ Retried(w)
                      ELSE Left(w)' = Left(w)
<1>1. CASE Write(w)
  BY <1>1, WriteAdvances
<1>2. CASE ~Write(w)
  <2>1. /\ pc'[w] = pc[w] /\ task'[w] = task[w] /\ next'[w] = next[w]
        /\ locked'[w] = locked[w]
    <3>1. ASSUME NEW u \in Writers, Write(u)
          PROVE  /\ pc'[w] = pc[w] /\ task'[w] = task[w] /\ next'[w] = next[w]
                 /\ locked'[w] = locked[w]
      BY <1>2, <3>1, OthersStay DEF TypeInv
    <3> QED BY <3>1 DEF Next, Touch, GrowHeap, writerVars
  <2> QED BY <1>2, <2>1 DEF Left
<1> QED BY <1>1, <1>2

(* However many writers race, and whatever they ask, each has a bounded     *)
(* number of steps to take, but for turns of the populate loop that gain no *)
(* page and set it back by no more than the lock (both_multiple.c:347-431). *)
THEOREM Advance == Spec => WritesAdvance
<1> DEFINE Inv == TypeInv /\ WithinHeap
<1>1. Init => Inv
  BY InitType, LayoutAssumption DEF Init, WithinHeap
<1>2. Inv /\ [Next]_vars => Inv'
  <2>1. TypeInv /\ [Next]_vars => TypeInv'
    <3>1. TypeInv /\ UNCHANGED vars => TypeInv'
      BY DEF TypeInv, TypeOK, BusyTyped, Busy, vars, writerVars, processVars
    <3> QED BY <3>1, WriteType, ProgramType DEF Next
  <2> QED BY <2>1, WithinStep
<1>3. Inv /\ Inv' /\ [Next]_vars =>
        [\A w \in Writers : /\ Left(w)' \in Measures
                            /\ IF Write(w) THEN Below(Left(w)', Left(w)) \/ Retried(w)
                                           ELSE Left(w)' = Left(w)]_vars
  <2>1. (TypeOK /\ WithinHeap => \A w \in Writers : Left(w) \in Measures)'
    BY LeftType, PTL
  <2> SUFFICES ASSUME Inv, Inv', Next, NEW w \in Writers
               PROVE  /\ Left(w)' \in Measures
                      /\ IF Write(w) THEN Below(Left(w)', Left(w)) \/ Retried(w)
                                     ELSE Left(w)' = Left(w)
    OBVIOUS
  <2>2. Left(w)' \in Measures
    BY <2>1 DEF TypeInv
  <2> QED BY <2>2, StepAdvances
<1> QED BY <1>1, <1>2, <1>3, PTL DEF Spec, WritesAdvance
=============================================================================
