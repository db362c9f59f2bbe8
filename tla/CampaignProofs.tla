--------------------------- MODULE CampaignProofs ---------------------------
(***************************************************************************)
(* What Campaign's runs check on a small instance, for every length of the  *)
(* heap, number of runs and cost: the entries of the profile lie in its      *)
(* allocation, and the pages that are sorted and listed are numbered from    *)
(* 0, so that the last heap page is none of them.                            *)
(***************************************************************************)
EXTENDS Campaign, TLAPS, SequenceTheorems
Entries == [cycles : Int, page_number : Nat]
Stops   == {"options", "profile", "sort", "list", "run", "over", "failed", "crashed"}

(* The types of what the profile is made from.                              *)
Typed ==
  /\ phase \in Stops /\ args \in Seq(Options) /\ cmd \in CommandLines
  /\ "n" \in DOMAIN params /\ params.n \in Int
  /\ heap_size \in 0..MaxPages /\ count \in Nat /\ samples \in Int /\ sample \in Nat
  /\ page \in Seq(Entries) /\ allocated \in Nat

(* Where the program is decides how much of the profile there is.  The heap *)
(* is scanned no more once an entry has been stored and the profile goes on.*)
Stages ==
  /\ phase = "options" => page = << >> /\ heap_size = 0
  /\ phase \in {"options", "profile"} => count = Len(page)
  /\ phase = "profile" /\ page # << >> => Len(page) < heap_size
  /\ phase \in {"sort", "list", "run"} => page # << >>
  /\ phase = "list" => count >= 1
  /\ phase = "run" => count >= 1 /\ count <= heap_size

(* Nothing is measured without a launch.                                    *)
Unlaunched == phase = "options" \/ params.n <= 0 => samples = 0 /\ spent = 0

(* The entries are as many as the heap has pages, but for the one written   *)
(* without a heap.                                                          *)
Fits ==
  /\ page # << >> => allocated = heap_size
  /\ Len(page) <= heap_size \/ (heap_size = 0 /\ Len(page) = 1)

(* Entries are numbered in the order they are stored, and sorting keeps the *)
(* numbers.                                                                 *)
Numbered ==
  /\ phase \in {"profile", "sort"} => \A j \in 1..Len(page) : page[j].page_number = j - 1
  /\ phase \in {"sort", "list", "run", "over"} /\ heap_size > 0 => Len(page) = heap_size
  /\ phase \in {"list", "run", "over"} /\ heap_size > 0 =>
       {page[j].page_number : j \in 1..heap_size} = 0..(heap_size - 1)

IInv == Typed /\ Stages /\ Unlaunched /\ Fits /\ Numbered

-----------------------------------------------------------------------------
(* The arithmetic of the build gives integers.                              *)
LEMMA ToIntInt == ASSUME NEW x \in Int PROVE ToInt(x) \in Int
  BY CostsAssumption DEF ToInt

(* A quotient that is defined is one.                                       *)
LEMMA QuotientInt == ASSUME NEW a \in Int, NEW b \in Int \ {0} PROVE Quotient(a, b) \in Int
<1>1. Magnitude(a) \in Nat /\ Magnitude(b) \in Nat \ {0}  BY DEF Magnitude
<1>2. PICK x \in Nat, y \in Nat \ {0} : x = Magnitude(a) /\ y = Magnitude(b)  BY <1>1
<1>3. x \div y \in Int  OBVIOUS
<1>4. QED BY <1>2, <1>3 DEF Quotient

(* The scan gives a number of pages.                                        *)
LEMMA ScanFits ==
  ASSUME NEW maps \in Maps, heap_size \in 0..MaxPages, NEW h \in read_proc_maps_file(maps)
  PROVE h \in 0..MaxPages
  BY LinesAssumption DEF read_proc_maps_file

(* Sorting h entries permutes them.                                         *)
LEMMA Sorted ==
  ASSUME NEW s \in Seq(Entries), NEW t \in qsort(s)
  PROVE \E f \in [1..Len(s) -> 1..Len(s)] :
          /\ t = [j \in 1..Len(s) |-> s[f[j]]]
          /\ \A k \in 1..Len(s) : \E j \in 1..Len(s) : f[j] = k
<1>1. DOMAIN s = 1..Len(s)  OBVIOUS
<1>2. PICK f \in Bijection(DOMAIN s, DOMAIN s) : t = [j \in DOMAIN s |-> s[f[j]]]
  BY DEF qsort
<1>3. f \in [DOMAIN s -> DOMAIN s] /\ \A k \in DOMAIN s : \E j \in DOMAIN s : f[j] = k
  BY <1>2 DEF Bijection, Injection, Surjection
<1>4. QED BY <1>1, <1>2, <1>3

(* A command line, and nothing measured yet.                                *)
LEMMA InitHolds == CampaignInit => IInv
<1>1. SUFFICES ASSUME CampaignInit PROVE IInv  OBVIOUS
<1>2. Typed
  <2>1. args \in Seq(Options) /\ cmd \in CommandLines  BY <1>1, LinesAssumption DEF CampaignInit
  <2>2. "n" \in DOMAIN params /\ params.n \in Int  BY <1>1 DEF CampaignInit, Garbage
  <2>3. heap_size \in 0..MaxPages  BY <1>1, CostsAssumption DEF CampaignInit
  <2>4. QED BY <1>1, <2>1, <2>2, <2>3 DEF CampaignInit, Typed, Stops
<1>3. Stages /\ Unlaunched /\ Fits /\ Numbered
  BY <1>1 DEF CampaignInit, Stages, Unlaunched, Fits, Numbered
<1>4. QED BY <1>2, <1>3 DEF IInv

(* Reading options moves no part of the profile.                            *)
LEMMA OptionsHold == IInv /\ (ReadOption \/ Refuse \/ Accept) => IInv'
<1>1. SUFFICES ASSUME IInv, ReadOption \/ Refuse \/ Accept PROVE IInv'  OBVIOUS
<1>2. phase = "options" /\ phase' \in {"options", "over", "failed", "profile"}
  BY <1>1 DEF ReadOption, Refuse, Accept
<1>3. UNCHANGED <<cmd, heap_size, count, sample, samples, spent, page, allocated>>
  BY <1>1 DEF ReadOption, Refuse, Accept, setup, heapVars, group, profile
<1>4. args' \in Seq(Options) /\ "n" \in DOMAIN params' /\ params'.n \in Int
  <2>1. CASE ReadOption
    <3>1. args \in Seq(Options) /\ args # << >> /\ "n" \in DOMAIN params /\ params.n \in Int
      BY <1>1, <2>1 DEF IInv, Typed, ReadOption
    <3>2. Head(args) \in Options /\ args' \in Seq(Options)
      BY <2>1, <3>1 DEF ReadOption
    <3>3. Head(args).opt = "n" => Head(args).arg \in Int
      BY <3>2 DEF Options
    <3>4. \/ params' = params
          \/ params' = [params EXCEPT ![Head(args).opt] = Head(args).arg]
      BY <2>1 DEF ReadOption
    <3>5. QED BY <3>1, <3>2, <3>3, <3>4
  <2>2. CASE Refuse \/ Accept
    BY <1>1, <2>2 DEF IInv, Typed, Refuse, Accept, setup
  <2>3. QED BY <1>1, <2>1, <2>2
<1>5. Typed'  BY <1>1, <1>2, <1>3, <1>4 DEF IInv, Typed, Stops
<1>6. Stages'  BY <1>1, <1>2, <1>3 DEF IInv, Stages, Typed
<1>7. Unlaunched'  BY <1>1, <1>2, <1>3 DEF IInv, Unlaunched
<1>8. Fits'  BY <1>1, <1>2, <1>3 DEF IInv, Fits
<1>9. Numbered'  BY <1>1, <1>2, <1>3 DEF IInv, Numbered, Stages, Typed
<1>10. QED BY <1>5, <1>6, <1>7, <1>8, <1>9 DEF IInv

-----------------------------------------------------------------------------
Launch ==
  \/ ForkFails \/ ScanOverflows \/ NotStarted \/ NeverCalled \/ EndsInside \/ Timed
  \/ EntryMisread \/ ReturnMisread \/ TraceFails

(* Whatever becomes of a launch, it leaves the profile and the request      *)
(* alone, and scans the heap only before the first entry is stored.         *)
LEMMA LaunchKeeps ==
  ASSUME Launch
  PROVE  /\ phase \in {"profile", "run"} /\ sample < params.n
         /\ phase' \in {phase, "failed", "crashed"}
         /\ UNCHANGED <<args, cmd, params, entry, kernel_params, count, page, allocated,
                        truth, rows>>
         /\ sample' \in {sample, sample + 1}
         /\ UNCHANGED heapVars \/ Scan
  BY DEF Launch, ForkFails, ScanOverflows, NotStarted, NeverCalled, EndsInside, Timed,
    EntryMisread, ReturnMisread, TraceFails, LaunchEnds, MainEnds, Launching, setup, profile

(* A launch adds nothing to the sum of its group, or the cost of one call,  *)
(* or misreads a stop.                                                      *)
LEMMA LaunchAdds ==
  ASSUME Launch
  PROVE  \/ UNCHANGED group
         \/ /\ sample' = sample + 1 /\ misread' = misread
            /\ \E cost \in Costs : samples' = ToInt(samples + cost) /\ spent' = spent + cost
         \/ /\ sample' = sample + 1 /\ misread' /\ spent' = spent
            /\ \E gap \in Gaps : samples' = ToInt(samples + gap)
  BY DEF Launch, ForkFails, ScanOverflows, NotStarted, NeverCalled, EndsInside, Timed,
    EntryMisread, ReturnMisread, TraceFails, LaunchEnds, MainEnds

LEMMA LaunchHeap ==
  ASSUME IInv, Launch
  PROVE  heap_size' \in 0..MaxPages /\ (page # << >> => heap_size' = heap_size)
<1>1. CASE UNCHANGED heapVars  BY <1>1 DEF IInv, Typed, heapVars
<1>2. CASE Scan /\ ~UNCHANGED heapVars
  <2>1. PICK maps \in Maps : heap_size' \in read_proc_maps_file(maps)
    BY <1>2 DEF Scan, MapsNow
  <2>2. heap_size' \in 0..MaxPages  BY <2>1, ScanFits DEF IInv, Typed
  <2>3. heap_size = 0  BY <1>2 DEF Scan, Scans
  <2>4. page = << >>
    BY <2>3, LaunchKeeps, CostsAssumption DEF IInv, Stages, Typed
  <2>5. QED BY <2>2, <2>4
<1>3. QED BY <1>1, <1>2, LaunchKeeps

LEMMA LaunchHolds == IInv /\ Launch => IInv'
<1>1. SUFFICES ASSUME IInv, Launch PROVE IInv'  OBVIOUS
<1>2. phase \in {"profile", "run"} /\ phase' \in {phase, "failed", "crashed"} /\ sample < params.n
  BY <1>1, LaunchKeeps
<1>3. UNCHANGED <<args, cmd, params, count, page, allocated>>
      /\ sample' \in {sample, sample + 1}
  BY <1>1, LaunchKeeps
<1>4. heap_size' \in 0..MaxPages /\ (page # << >> => heap_size' = heap_size)
  BY <1>1, LaunchHeap
<1>5. samples' \in Int
  <2>1. samples \in Int /\ Costs \subseteq Int /\ Gaps \subseteq Int
    BY <1>1, CostsAssumption DEF IInv, Typed
  <2>2. samples' = samples \/ \E x \in Costs \cup Gaps : samples' = ToInt(samples + x)
    BY <1>1, LaunchAdds DEF group
  <2>3. QED BY <2>1, <2>2, ToIntInt
<1>6. Typed'  BY <1>1, <1>2, <1>3, <1>4, <1>5 DEF IInv, Typed, Stops
<1>7. Stages'  BY <1>1, <1>2, <1>3, <1>4 DEF IInv, Stages
<1>8. Unlaunched'  BY <1>1, <1>2, <1>3 DEF IInv, Typed, Unlaunched
<1>9. Fits'
  <2>1. CASE page = << >>  BY <2>1, <1>3, <1>4 DEF Fits
  <2>2. CASE page # << >>  BY <2>2, <1>1, <1>3, <1>4 DEF Fits, IInv
  <2>3. QED BY <2>1, <2>2
<1>10. Numbered'  BY <1>1, <1>2, <1>3, <1>4 DEF IInv, Numbered, Stages
<1>11. QED BY <1>6, <1>7, <1>8, <1>9, <1>10 DEF IInv

(* An entry is stored behind the others, with their number as its own.      *)
LEMMA StoreHolds == IInv /\ StorePage => IInv'
<1>1. SUFFICES ASSUME IInv, StorePage PROVE IInv'  OBVIOUS
<1>2. phase = "profile" /\ count = Len(page) /\ params.n # 0 /\ params.n \in Int
  BY <1>1 DEF IInv, Stages, Typed, StorePage
<1>3. UNCHANGED <<args, cmd, params, heap_size>>  BY <1>1 DEF StorePage, setup, heapVars
<1>4. DEFINE e == [cycles |-> Quotient(samples, params.n), page_number |-> count]
<1>5. e \in Entries  BY <1>1, <1>2, QuotientInt DEF IInv, Typed, Entries
<1>6. page' = Append(page, e)  BY <1>1 DEF StorePage, PageNumber
<1>7. page \in Seq(Entries) /\ count \in Nat /\ heap_size \in 0..MaxPages /\ allocated \in Nat
  BY <1>1 DEF IInv, Typed
<1>8. /\ page' \in Seq(Entries) /\ Len(page') = Len(page) + 1 /\ page' # << >>
      /\ \A j \in 1..Len(page') : page'[j] = IF j = Len(page) + 1 THEN e ELSE page[j]
  BY <1>5, <1>6, <1>7
<1>9. count' = count + 1 /\ allocated' = IF count = 0 THEN heap_size ELSE allocated
  BY <1>1 DEF StorePage, Room
<1>10. \/ count + 1 < heap_size /\ phase' = "profile"
       \/ ~(count + 1 < heap_size) /\ phase' = "sort"
  BY <1>1 DEF StorePage
<1>11. samples' = 0 /\ spent' = 0 /\ sample' = 0
  BY <1>1 DEF StorePage, NewGroup, ResetSamples
<1>12. Typed'
  BY <1>1, <1>3, <1>7, <1>8, <1>9, <1>10, <1>11, CostsAssumption DEF IInv, Typed, Stops
<1>13. Stages'  BY <1>2, <1>3, <1>7, <1>8, <1>9, <1>10 DEF Stages
<1>14. count = 0 <=> page = << >>  BY <1>2, <1>7
<1>15. count # 0 => count < heap_size /\ allocated = heap_size
  BY <1>1, <1>2, <1>14 DEF IInv, Stages, Fits
<1>16. Fits'  BY <1>2, <1>3, <1>7, <1>8, <1>9, <1>15, CostsAssumption DEF Fits
<1>17. Numbered'
  <2>1. \A j \in 1..Len(page') : page'[j].page_number = j - 1
    BY <1>1, <1>2, <1>7, <1>8 DEF IInv, Numbered
  <2>2. phase' = "sort" /\ heap_size > 0 => Len(page') = heap_size
    BY <1>2, <1>7, <1>8, <1>10, <1>15, CostsAssumption
  <2>3. QED BY <2>1, <2>2, <1>3, <1>10 DEF Numbered
<1>18. Unlaunched'  BY <1>11 DEF Unlaunched
<1>19. QED BY <1>12, <1>13, <1>16, <1>17, <1>18 DEF IInv

(* Sorting permutes the entries for the pages of the heap.                  *)
LEMMA SortHolds == IInv /\ SortPages => IInv'
<1>1. SUFFICES ASSUME IInv, SortPages PROVE IInv'  OBVIOUS
<1>2. /\ phase = "sort" /\ page # << >> /\ page \in Seq(Entries)
      /\ heap_size \in 0..MaxPages /\ MaxPages \in Nat
      /\ Len(page) = heap_size \/ (heap_size = 0 /\ Len(page) = 1)
  <2>1. /\ phase = "sort" /\ page # << >> /\ page \in Seq(Entries)
        /\ heap_size \in 0..MaxPages /\ MaxPages \in Nat
    BY <1>1, CostsAssumption DEF IInv, Stages, Typed, SortPages
  <2>2. Len(page) # 0  BY <2>1
  <2>3. Len(page) = heap_size \/ (heap_size = 0 /\ Len(page) = 1)
    BY <1>1, <2>1, <2>2 DEF IInv, Fits, Numbered
  <2>4. QED BY <2>1, <2>3
<1>3. UNCHANGED <<args, cmd, heap_size, sample, samples, spent, allocated>>
      /\ phase' = "list" /\ count' = 1
  BY <1>1 DEF SortPages, heapVars, group
<1>4. "n" \in DOMAIN params' /\ params'.n \in {params.n, 1} /\ params.n \in Int
  BY <1>1 DEF IInv, Typed, SortPages
<1>5. DEFINE s == SubSeq(page, 1, heap_size)
             rest == SubSeq(page, heap_size + 1, Len(page))
<1>6. s \in Seq(Entries) /\ Len(s) = heap_size /\ \A j \in 1..heap_size : s[j] = page[j]
  BY <1>2
<1>7. PICK t \in qsort(s) : page' = t \o rest  BY <1>1 DEF SortPages
<1>8. PICK f \in [1..heap_size -> 1..heap_size] :
        /\ t = [j \in 1..heap_size |-> s[f[j]]]
        /\ \A k \in 1..heap_size : \E j \in 1..heap_size : f[j] = k
  <2>1. PICK f \in [1..Len(s) -> 1..Len(s)] :
          /\ t = [j \in 1..Len(s) |-> s[f[j]]]
          /\ \A k \in 1..Len(s) : \E j \in 1..Len(s) : f[j] = k
    BY <1>6, <1>7, Sorted
  <2>2. Len(s) = heap_size  BY <1>6
  <2>3. HIDE DEF s, rest
  <2>4. QED BY <2>1, <2>2
<1>9. t \in Seq(Entries) /\ Len(t) = heap_size
  <2>1. \A j \in 1..heap_size : f[j] \in 1..heap_size /\ s[f[j]] \in Entries
    BY <1>2, <1>6, <1>8, ElementOfSeq
  <2>2. t \in [1..heap_size -> Entries]  BY <1>8, <2>1
  <2>3. QED BY <1>2, <2>2
<1>10. rest \in Seq(Entries) /\ Len(rest) = Len(page) - heap_size  BY <1>2
<1>11. /\ page' \in Seq(Entries) /\ Len(page') = Len(page)
       /\ \A j \in 1..heap_size : page'[j] = page[f[j]]
  <2>1. page' \in Seq(Entries) /\ Len(page') = Len(page)  BY <1>2, <1>7, <1>9, <1>10
  <2>2. \A j \in 1..heap_size : page'[j] = t[j]  BY <1>2, <1>7, <1>9, <1>10
  <2>3. \A j \in 1..heap_size : t[j] = page[f[j]]  BY <1>6, <1>8
  <2>4. QED BY <2>1, <2>2, <2>3
<1>12. page' # << >>  BY <1>2, <1>11
<1>13. Typed'  BY <1>1, <1>3, <1>4, <1>11 DEF IInv, Typed, Stops
<1>14. Stages'  BY <1>3, <1>12 DEF Stages
<1>15. Fits'  BY <1>1, <1>2, <1>3, <1>11, <1>12 DEF IInv, Fits
<1>16. Numbered'
  <2>1. ASSUME heap_size > 0
        PROVE Len(page') = heap_size
              /\ {page'[j].page_number : j \in 1..heap_size} = 0..(heap_size - 1)
    <3>1. Len(page) = heap_size /\ \A j \in 1..heap_size : page[j].page_number = j - 1
      BY <1>1, <1>2, <2>1 DEF IInv, Numbered
    <3>2. \A j \in 1..heap_size : page'[j].page_number = f[j] - 1 /\ f[j] \in 1..heap_size
      BY <1>8, <1>11, <3>1
    <3>3. \A n \in 0..(heap_size - 1) : \E j \in 1..heap_size : f[j] = n + 1
      BY <1>2, <1>8
    <3>4. \A n \in 0..(heap_size - 1) : \E j \in 1..heap_size : page'[j].page_number = n
      <4>1. TAKE n \in 0..(heap_size - 1)
      <4>2. PICK j \in 1..heap_size : f[j] = n + 1  BY <3>3
      <4>3. n \in Int  BY <1>2, <4>1
      <4>4. page'[j].page_number = f[j] - 1  BY <3>2, <4>2
      <4>5. page'[j].page_number = n  BY <4>2, <4>3, <4>4
      <4>6. QED BY <4>2, <4>5
    <3>5. \A j \in 1..heap_size : page'[j].page_number \in 0..(heap_size - 1)
      <4>1. TAKE j \in 1..heap_size
      <4>2. page'[j].page_number = f[j] - 1 /\ f[j] \in 1..heap_size  BY <3>2, <4>1
      <4>3. heap_size \in Int  BY <1>2
      <4>4. QED BY <4>2, <4>3
    <3>6. QED BY <1>11, <3>1, <3>4, <3>5
  <2>2. QED BY <1>3, <2>1 DEF Numbered
<1>17. Unlaunched'  BY <1>1, <1>3, <1>4 DEF IInv, Unlaunched
<1>18. QED BY <1>13, <1>14, <1>15, <1>16, <1>17 DEF IInv

(* The second loop lists the entries as they are.                           *)
LEMMA ListHolds == IInv /\ (ListPages \/ WriteRow \/ CampaignOver \/ DividesByZero) => IInv'
<1>1. SUFFICES ASSUME IInv, ListPages \/ WriteRow \/ CampaignOver \/ DividesByZero PROVE IInv'
  OBVIOUS
<1>2. UNCHANGED <<args, cmd, params, heap_size, page, allocated>>
  BY <1>1 DEF ListPages, WriteRow, CampaignOver, DividesByZero, setup, heapVars, profile
<1>3. \/ phase = "list" /\ phase' = "run" /\ count' = count /\ count <= heap_size
      \/ phase = "run" /\ phase' = "list" /\ count' = count + 1
      \/ phase = "list" /\ phase' = "over" /\ count' = count
      \/ phase = "profile" /\ phase' = "crashed" /\ count' = count
  BY <1>1 DEF ListPages, WriteRow, CampaignOver, DividesByZero
<1>4. (samples' = 0 /\ spent' = 0 /\ sample' = 0) \/ UNCHANGED <<samples, spent, sample>>
  BY <1>1 DEF ListPages, WriteRow, CampaignOver, DividesByZero, group, NewGroup, ResetSamples
<1>5. Typed'  BY <1>1, <1>2, <1>3, <1>4 DEF IInv, Typed, Stops
<1>6. Stages'  BY <1>1, <1>2, <1>3 DEF IInv, Stages, Typed
<1>7. Fits'  BY <1>1, <1>2 DEF IInv, Fits
<1>8. Numbered'  BY <1>1, <1>2, <1>3 DEF IInv, Numbered
<1>9. Unlaunched'  BY <1>1, <1>2, <1>3, <1>4 DEF IInv, Unlaunched
<1>10. QED BY <1>5, <1>6, <1>7, <1>8, <1>9 DEF IInv

(* Every step of main keeps the invariant.                                  *)
LEMMA StepHolds == IInv /\ [CampaignNext]_cvars => IInv'
<1>1. SUFFICES ASSUME IInv, [CampaignNext]_cvars PROVE IInv'  OBVIOUS
<1>2. CASE UNCHANGED cvars
  <2>1. Typed'  BY <1>1, <1>2 DEF IInv, Typed, cvars, setup, heapVars, group, profile
  <2>2. Stages' /\ Unlaunched' /\ Fits' /\ Numbered'
    BY <1>1, <1>2 DEF IInv, Stages, Unlaunched, Fits, Numbered, cvars, setup, heapVars, group,
      profile
  <2>3. QED BY <2>1, <2>2 DEF IInv
<1>3. CASE CampaignNext
  BY <1>1, <1>3, OptionsHold, LaunchHolds, StoreHolds, SortHolds, ListHolds DEF CampaignNext, Launch
<1>4. QED BY <1>1, <1>2, <1>3

(* The invariant holds throughout.                                          *)
THEOREM Invariance == CampaignSpec => []IInv
<1>1. CampaignInit => IInv  BY InitHolds
<1>2. IInv /\ [CampaignNext]_cvars => IInv'  BY StepHolds
<1>3. QED BY <1>1, <1>2, PTL DEF CampaignSpec

(* Whatever the heap, the number of runs and their costs, and whatever run   *)
(* fails or does not reach the function, an entry of the profile is written *)
(* inside its allocation, but for the one written when no heap was found    *)
(* (functime.c:853-862).                                                    *)
THEOREM ProfileInBounds == CampaignSpec => []ProfileFits
<1>1. IInv => ProfileFits  BY DEF IInv, Typed, Fits, ProfileFits
<1>2. QED BY <1>1, Invariance, PTL

(* However the entries are sorted, even by a comparison that overflows, the *)
(* pages that can be listed are those numbered from 0: the last page of the *)
(* heap is none of them (functime.c:833, 856, 874).                         *)
THEOREM LastPageLeftOut == CampaignSpec => []LastPageNeverListed
<1>1. ASSUME IInv PROVE LastPageNeverListed
  <2>1. SUFFICES ASSUME phase \in {"sort", "list", "run", "over"}, heap_size > 0
                 PROVE {page[j].page_number : j \in 1..heap_size} = 0..(heap_size - 1)
    BY DEF LastPageNeverListed
  <2>2. CASE phase = "sort"
    <3>1. Len(page) = heap_size /\ \A j \in 1..heap_size : page[j].page_number = j - 1
      BY <1>1, <2>1, <2>2 DEF IInv, Numbered
    <3>2. \A n \in 0..(heap_size - 1) : n + 1 \in 1..heap_size /\ page[n + 1].page_number = n
      BY <1>1, <3>1, CostsAssumption DEF IInv, Typed
    <3>3. \A j \in 1..heap_size : page[j].page_number \in 0..(heap_size - 1)
      BY <1>1, <3>1, CostsAssumption DEF IInv, Typed
    <3>4. QED BY <3>2, <3>3
  <2>3. CASE phase # "sort"  BY <1>1, <2>1, <2>3 DEF IInv, Numbered
  <2>4. QED BY <2>2, <2>3
<1>2. QED BY <1>1, Invariance, PTL

-----------------------------------------------------------------------------
(***************************************************************************)
(* That the results of a campaign mean what they say, for every heap, cost  *)
(* and number of runs whose sums fit an int: the averages are those of the  *)
(* pages they are stored for, the second loop lists the cheapest pages, and *)
(* output.csv has one row per number of pages.                              *)
(***************************************************************************)

Ints == -(IntMax + 1)..IntMax

\* What sample_size may be: a register's content, an argument of -n, or the 1
\* of the second loop.
RunCounts ==
  Garbage \cup {1} \cup
  {n \in Int : \E line \in CommandLines : \E k \in DOMAIN line.options :
                 line.options[k] = [opt |-> "n", arg |-> n]}

\* The sums that samples is to hold fit an int.
SumsFit == \A n \in RunCounts, c \in Costs : n * c <= IntMax

-----------------------------------------------------------------------------
(* Arithmetic of the build.                                                 *)
LEMMA Monotone ==
  ASSUME NEW a \in Nat, NEW b \in Nat, NEW c \in Nat, a <= b PROVE a * c <= b * c
<1>1. PICK d \in Nat : b = a + d
  <2>1. b - a \in Nat  OBVIOUS
  <2>2. QED BY <2>1
<1>2. b * c = a * c + d * c /\ d * c \in Nat  BY <1>1
<1>3. QED BY <1>2

LEMMA DivFits == ASSUME NEW a \in Nat, NEW b \in Nat \ {0} PROVE a \div b \in 0..a
<1>1. a \div b \in Int  OBVIOUS
<1>2. a = b * (a \div b) + (a % b) /\ a % b \in 0..(b - 1)  OBVIOUS
<1>3. a \div b >= 0  OBVIOUS
<1>4. a \div b <= a  OBVIOUS
<1>5. QED BY <1>1, <1>3, <1>4

(* Conversion to int gives an int.                                          *)
LEMMA ToIntRange == ASSUME NEW x \in Int PROVE ToInt(x) \in Ints
<1>1. DEFINE m == 2 * (IntMax + 1)
<1>2. m \in Nat \ {0} /\ IntMax \in Nat  BY CostsAssumption
<1>3. x + IntMax + 1 \in Int  BY <1>2
<1>4. \A y \in Int : y % m \in 0..(m - 1)
  <2>1. HIDE DEF m
  <2>2. QED BY <1>2
<1>5. (x + IntMax + 1) % m \in 0..(m - 1)  BY <1>3, <1>4
<1>6. QED BY <1>2, <1>5 DEF ToInt, Ints

(* It changes nothing that an int holds.                                    *)
LEMMA ToIntExact == ASSUME NEW x \in Ints PROVE ToInt(x) = x
<1>1. DEFINE m == 2 * (IntMax + 1)
<1>2. m \in Nat \ {0} /\ IntMax \in Nat  BY CostsAssumption
<1>3. x + IntMax + 1 \in 0..(m - 1)  BY <1>2 DEF Ints
<1>4. \A y \in 0..(m - 1) : y % m = y
  <2>1. HIDE DEF m
  <2>2. QED BY <1>2
<1>5. (x + IntMax + 1) % m = x + IntMax + 1  BY <1>3, <1>4
<1>6. QED BY <1>2, <1>5 DEF ToInt, Ints

(* An average of ints is one.                                               *)
LEMMA QuotientRange == ASSUME NEW a \in Ints, NEW b \in Nat \ {0} PROVE Quotient(a, b) \in Ints
<1>1. IntMax \in Nat /\ a \in Int  BY CostsAssumption DEF Ints
<1>2. Magnitude(a) \in Nat /\ Magnitude(b) = b  BY <1>1 DEF Magnitude
<1>3. PICK x \in Nat : x = Magnitude(a)  BY <1>2
<1>4. x \div b \in 0..x  BY DivFits
<1>5. PICK q \in 0..x : q = x \div b  BY <1>4
<1>6. Quotient(a, b) = IF a >= 0 THEN q ELSE -q  BY <1>1, <1>2, <1>3, <1>5 DEF Quotient
<1>7. IF a >= 0 THEN x = a ELSE x = -a  BY <1>1, <1>3 DEF Magnitude
<1>8. QED BY <1>1, <1>5, <1>6, <1>7 DEF Ints

(* Of nothing it is 0, whatever the divisor.                                *)
LEMMA QuotientZero == ASSUME NEW b \in Int \ {0} PROVE Quotient(0, b) = 0
<1>1. PICK y \in Nat \ {0} : y = Magnitude(b)  BY DEF Magnitude
<1>2. 0 \div y = 0  OBVIOUS
<1>3. Magnitude(0) = 0  BY DEF Magnitude
<1>4. QED BY <1>1, <1>2, <1>3 DEF Quotient

(* Of sums that fit, cmpfunc tells which is larger.                         *)
LEMMA Compares ==
  ASSUME NEW a, NEW b, a.cycles \in 0..IntMax, b.cycles \in 0..IntMax
  PROVE cmpfunc(a, b) = a.cycles - b.cycles
<1>1. a.cycles - b.cycles \in Ints  BY CostsAssumption DEF Ints
<1>2. QED BY <1>1, ToIntExact DEF cmpfunc

-----------------------------------------------------------------------------
(* cmpfunc orders entries whose sums fit.                                   *)
LEMMA SumsConsistent ==
  ASSUME NEW s, \A j \in DOMAIN s : s[j].cycles \in 0..IntMax
  PROVE  Consistent(s)
<1>1. SUFFICES ASSUME NEW j \in DOMAIN s, NEW k \in DOMAIN s, NEW l \in DOMAIN s
               PROVE /\ cmpfunc(s[j], s[k]) < 0 <=> cmpfunc(s[k], s[j]) > 0
                     /\ cmpfunc(s[j], s[k]) <= 0 /\ cmpfunc(s[k], s[l]) <= 0 =>
                          cmpfunc(s[j], s[l]) <= 0
  BY DEF Consistent
<1>2. PICK x \in Int, y \in Int, z \in Int :
        x = s[j].cycles /\ y = s[k].cycles /\ z = s[l].cycles
  BY CostsAssumption
<1>3. /\ cmpfunc(s[j], s[k]) = x - y /\ cmpfunc(s[k], s[j]) = y - x
      /\ cmpfunc(s[k], s[l]) = y - z /\ cmpfunc(s[j], s[l]) = x - z
  BY <1>2, Compares
<1>4. QED BY <1>2, <1>3

(* qsort permutes the entries, and leaves them in order if their sums fit.  *)
LEMMA SortPermutes ==
  ASSUME IInv, SortPages
  PROVE  /\ Len(page') = Len(page)
         /\ \E f \in [1..Len(page) -> 1..Len(page)] :
              /\ \A j \in 1..Len(page) : page'[j] = page[f[j]]
              /\ \A j, k \in 1..Len(page) : f[j] = f[k] => j = k
         /\ (\A j \in 1..Len(page) : page[j].cycles \in 0..IntMax) =>
              \A j, k \in 1..heap_size : j < k => page'[j].cycles <= page'[k].cycles
<1>1. DEFINE s == SubSeq(page, 1, heap_size)
             rest == SubSeq(page, heap_size + 1, Len(page))
<1>2. /\ page \in Seq(Entries) /\ heap_size \in Nat /\ page # << >>
      /\ Len(page) = heap_size \/ (heap_size = 0 /\ Len(page) = 1)
  <2>1. page \in Seq(Entries) /\ heap_size \in Nat /\ page # << >> /\ phase = "sort"
    BY CostsAssumption DEF IInv, Typed, Stages, SortPages
  <2>2. Len(page) # 0  BY <2>1
  <2>3. QED BY <2>1, <2>2 DEF IInv, Fits, Numbered
<1>3. s \in Seq(Entries) /\ Len(s) = heap_size /\ \A j \in 1..heap_size : s[j] = page[j]
  BY <1>2
<1>4. PICK t \in qsort(s) : page' = t \o rest  BY DEF SortPages
<1>5. DOMAIN s = 1..heap_size  BY <1>3
<1>6. PICK f \in Bijection(DOMAIN s, DOMAIN s) : t = [j \in DOMAIN s |-> s[f[j]]]
  BY <1>4 DEF qsort
<1>7. /\ f \in [1..heap_size -> 1..heap_size]
      /\ \A j, k \in 1..heap_size : f[j] = f[k] => j = k
  BY <1>5, <1>6 DEF Bijection, Injection, IsInjective
<1>8. t = [j \in 1..heap_size |-> s[f[j]]]  BY <1>5, <1>6
<1>9. t \in Seq(Entries) /\ Len(t) = heap_size
  <2>1. \A j \in 1..heap_size : s[f[j]] \in Entries  BY <1>3, <1>7, ElementOfSeq
  <2>2. t \in [1..heap_size -> Entries]  BY <1>8, <2>1
  <2>3. QED BY <1>2, <2>2
<1>10. \A j \in 1..heap_size : t[j] = page[f[j]]  BY <1>3, <1>7, <1>8
<1>11. CASE heap_size = 0
  <2>1. Len(page) = 1 /\ rest = page /\ t = << >>  BY <1>2, <1>9, <1>11
  <2>2. page' = page  BY <1>2, <1>4, <2>1
  <2>3. PICK g : g = [j \in {1} |-> 1]  OBVIOUS
  <2>4. g \in [1..Len(page) -> 1..Len(page)] /\ g[1] = 1  BY <2>1, <2>3
  <2>5. QED BY <1>11, <2>1, <2>2, <2>4
<1>12. CASE heap_size # 0
  <2>1. Len(page) = heap_size /\ rest = << >>  BY <1>2, <1>12
  <2>2. page' = t  BY <1>4, <1>9, <2>1
  <2>3. ASSUME \A j \in 1..Len(page) : page[j].cycles \in 0..IntMax
        PROVE  \A j, k \in 1..heap_size : j < k => t[j].cycles <= t[k].cycles
    <3>1. \A j \in 1..heap_size : s[j].cycles \in 0..IntMax /\ t[j].cycles \in 0..IntMax
      BY <1>3, <1>7, <1>10, <2>1, <2>3
    <3>2. \A j, k \in 1..heap_size :
            /\ cmpfunc(s[j], s[k]) = s[j].cycles - s[k].cycles
            /\ cmpfunc(t[j], t[k]) = t[j].cycles - t[k].cycles
      BY <3>1, Compares
    <3>3. Consistent(s)
      BY <1>5, <3>1, SumsConsistent
    <3>4. \A j, k \in 1..heap_size : j < k => cmpfunc(t[j], t[k]) <= 0
      BY <1>4, <1>5, <3>3 DEF qsort
    <3>5. QED BY <3>1, <3>2, <3>4, CostsAssumption
  <2>4. /\ f \in [1..Len(page) -> 1..Len(page)] /\ Len(page') = Len(page)
        /\ \A j \in 1..Len(page) : page'[j] = page[f[j]]
        /\ \A j, k \in 1..Len(page) : f[j] = f[k] => j = k
    BY <1>7, <1>9, <1>10, <2>1, <2>2
  <2>5. (\A j \in 1..Len(page) : page[j].cycles \in 0..IntMax) =>
          \A j, k \in 1..heap_size : j < k => page'[j].cycles <= page'[k].cycles
    BY <2>2, <2>3
  <2>6. QED BY <2>4, <2>5
<1>13. QED BY <1>11, <1>12

-----------------------------------------------------------------------------
(* Ranges, whatever is measured.                                            *)
Ranges ==
  /\ samples \in Ints /\ sample \in Nat /\ vma_idx \in -1..(MaxVmas - 1)
  /\ \A j \in 1..Len(page) : page[j].cycles \in Ints

LEMMA RangesLaunch == ASSUME IInv, Ranges, Launch PROVE Ranges'
<1>1. samples' \in Ints
  <2>1. samples \in Int /\ Costs \subseteq Int /\ Gaps \subseteq Int
    BY CostsAssumption DEF IInv, Typed
  <2>2. samples' = samples \/ \E x \in Costs \cup Gaps : samples' = ToInt(samples + x)
    BY LaunchAdds DEF group
  <2>3. QED BY <2>1, <2>2, ToIntRange DEF Ranges
<1>2. vma_idx' \in -1..(MaxVmas - 1)
  <2>1. CASE UNCHANGED heapVars  BY <2>1 DEF heapVars, Ranges
  <2>2. CASE Scan /\ ~UNCHANGED heapVars
    <3>1. PICK maps \in Maps : VmasFit(Len(maps)) /\ vma_idx' = vma_alloc(Len(maps))
      BY <2>2 DEF Scan, MapsNow
    <3>2. Len(maps) \in Nat  BY LinesAssumption
    <3>3. QED BY <3>1, <3>2, CostsAssumption DEF Ranges, VmasFit, vma_alloc
  <2>3. QED BY <2>1, <2>2, LaunchKeeps
<1>3. page' = page /\ sample' \in Nat  BY LaunchKeeps DEF Ranges
<1>4. QED BY <1>1, <1>2, <1>3 DEF Ranges

LEMMA RangesStep == IInv /\ Ranges /\ [CampaignNext]_cvars => Ranges'
<1>1. SUFFICES ASSUME IInv, Ranges, [CampaignNext]_cvars PROVE Ranges'  OBVIOUS
<1>2. page \in Seq(Entries) /\ 0 \in Ints /\ IntMax \in Nat
  BY <1>1, CostsAssumption DEF IInv, Typed, Ints
<1>3. CASE UNCHANGED <<samples, sample, vma_idx, page>>
  BY <1>1, <1>3 DEF Ranges
<1>4. CASE Launch  BY <1>1, <1>4, RangesLaunch
<1>5. CASE StorePage
  <2>1. params.n \in Int \ {0}  BY <1>1, <1>5 DEF StorePage, IInv, Typed
  <2>2. Quotient(samples, params.n) \in Ints
    <3>1. CASE params.n > 0  BY <1>1, <2>1, <3>1, QuotientRange DEF Ranges
    <3>2. CASE ~(params.n > 0)
      BY <1>1, <1>2, <2>1, <3>2, QuotientZero DEF IInv, Unlaunched
    <3>3. QED BY <3>1, <3>2
  <2>3. DEFINE e == [cycles |-> Quotient(samples, params.n), page_number |-> PageNumber(count)]
  <2>4. page' = Append(page, e) /\ e.cycles \in Ints
    BY <1>5, <2>2 DEF StorePage
  <2>5. \A j \in 1..Len(page') : page'[j].cycles \in Ints
    <3>1. HIDE DEF e
    <3>2. QED BY <1>1, <1>2, <2>4 DEF Ranges
  <2>6. QED BY <1>1, <1>2, <1>5, <2>5 DEF StorePage, Ranges, heapVars, NewGroup, ResetSamples
<1>6. CASE SortPages
  BY <1>1, <1>6, SortPermutes DEF SortPages, Ranges, heapVars, group
<1>7. CASE ListPages
  BY <1>1, <1>2, <1>7 DEF ListPages, Ranges, profile, heapVars, NewGroup, ResetSamples
<1>8. QED
  BY <1>1, <1>3, <1>4, <1>5, <1>6, <1>7 DEF CampaignNext, Launch, cvars, heapVars, group, profile,
    ReadOption, Refuse, Accept, DividesByZero, WriteRow, CampaignOver

(* Whatever is measured, samples, the averages and the index of the last    *)
(* area stay in the ranges of their types (functime.c:203, 605, 855).       *)
THEOREM TypeCorrect == CampaignSpec => []TypeOK
<1>1. CampaignInit => Ranges
  BY CostsAssumption DEF CampaignInit, Ranges, Ints
<1>2. IInv /\ Ranges => TypeOK
  BY DEF IInv, Typed, Stops, Ranges, Ints, TypeOK
<1>3. QED BY <1>1, <1>2, RangesStep, Invariance, PTL DEF CampaignSpec

-----------------------------------------------------------------------------
(* While the sums fit, samples is what the runs cost unless a stop has been *)
(* misread, and that is no more than the dearest so far for each run.       *)
Summed ==
  /\ params.n \in RunCounts
  /\ \A j \in 1..Len(args) : args[j].opt = "n" => args[j].arg \in RunCounts
  /\ misread \/ samples = spent
  /\ misread \in BOOLEAN /\ spent \in 0..IntMax /\ sample \in Nat
  /\ \E c \in Costs : spent <= sample * c

LEMMA SomeCost == \E c \in Costs : c \in Nat
<1>1. PICK c : c \in Costs  BY CostsAssumption
<1>2. c \in 0..IntMax /\ IntMax \in Nat  BY <1>1, CostsAssumption
<1>3. QED BY <1>1, <1>2

LEMMA SummedInit == CampaignInit => Summed
<1>1. SUFFICES ASSUME CampaignInit PROVE Summed  OBVIOUS
<1>2. params.n \in RunCounts  BY <1>1 DEF CampaignInit, RunCounts
<1>3. \A j \in 1..Len(args) : args[j].opt = "n" => args[j].arg \in RunCounts
  <2>1. cmd \in CommandLines /\ args = cmd.options /\ args \in Seq(Options)
    BY <1>1, LinesAssumption DEF CampaignInit
  <2>2. SUFFICES ASSUME NEW j \in 1..Len(args), args[j].opt = "n"
                 PROVE args[j].arg \in RunCounts
    OBVIOUS
  <2>3. args[j] \in Options /\ j \in DOMAIN cmd.options  BY <2>1
  <2>4. args[j].arg \in Int /\ args[j] = [opt |-> "n", arg |-> args[j].arg]
    BY <2>2, <2>3 DEF Options
  <2>5. QED BY <2>1, <2>3, <2>4 DEF RunCounts
<1>4. samples = 0 /\ spent = 0 /\ sample = 0 /\ misread = FALSE  BY <1>1 DEF CampaignInit
<1>5. PICK c \in Costs : c \in Nat  BY SomeCost
<1>6. spent <= sample * c  BY <1>4, <1>5
<1>7. spent \in 0..IntMax /\ sample \in Nat  BY <1>4, CostsAssumption
<1>8. misread \in BOOLEAN  BY <1>4
<1>9. misread \/ samples = spent  BY <1>4
<1>10. QED BY <1>2, <1>3, <1>5, <1>6, <1>7, <1>8, <1>9 DEF Summed

\* More launches cost as much at most.
LEMMA SummedMore ==
  ASSUME Summed, UNCHANGED <<params, args, spent>>, sample' \in {sample, sample + 1},
         misread' \in BOOLEAN, misread' \/ samples' = spent'
  PROVE  Summed'
<1>1. PICK c \in Costs : c \in Nat /\ spent <= sample * c
  BY CostsAssumption DEF Summed
<1>2. sample \in Nat /\ sample' \in Nat /\ sample <= sample'  BY DEF Summed
<1>3. sample * c <= sample' * c /\ sample * c \in Int /\ sample' * c \in Int
  <2>1. PICK a \in Nat, b \in Nat : a = sample /\ b = sample' /\ a <= b  BY <1>2
  <2>2. a * c <= b * c  BY <1>1, <2>1, Monotone
  <2>3. a * c \in Int /\ b * c \in Int  BY <1>1
  <2>4. QED BY <2>1, <2>2, <2>3
<1>4. spent \in Int  BY CostsAssumption DEF Summed
<1>5. spent' <= sample' * c  BY <1>1, <1>3, <1>4
<1>6. QED BY <1>1, <1>2, <1>5 DEF Summed

LEMMA SummedTimed ==
  ASSUME SumsFit, IInv, Summed, Launch, NEW cost \in Costs,
         samples' = ToInt(samples + cost), spent' = spent + cost,
         sample' = sample + 1, misread' = misread
  PROVE  Summed'
<1>2. /\ UNCHANGED <<params, args>>
      /\ sample \in Nat /\ params.n \in Int /\ params.n \in RunCounts
      /\ sample + 1 <= params.n /\ spent \in Nat
  BY LaunchKeeps, CostsAssumption DEF Summed, IInv, Typed
<1>3. PICK d \in Costs : spent <= sample * d  BY DEF Summed
<1>4. Costs \subseteq Nat /\ IntMax \in Nat  BY CostsAssumption
<1>5. PICK c \in Costs : c \in Nat /\ d <= c /\ cost <= c
  BY <1>3, <1>4
<1>6. sample * d <= sample * c
  BY <1>2, <1>3, <1>4, <1>5, Monotone
<1>7. (sample + 1) * c = sample * c + c  BY <1>2, <1>5
<1>8. spent' <= sample' * c
  <2>1. sample * d \in Int /\ sample * c \in Int  BY <1>2, <1>3, <1>4, <1>5
  <2>2. cost \in Nat  BY <1>4
  <2>3. QED BY <1>2, <1>3, <1>5, <1>6, <1>7, <2>1, <2>2
<1>9. spent' \in 0..IntMax
  <2>1. params.n \in Nat /\ sample' * c <= params.n * c  BY <1>2, <1>5, Monotone
  <2>2. params.n * c <= IntMax  BY <1>2, <1>5 DEF SumsFit
  <2>3. sample' * c \in Int /\ params.n * c \in Int  BY <1>2, <1>5
  <2>4. spent' \in Nat  BY <1>2, <1>4
  <2>5. QED BY <1>4, <1>8, <2>1, <2>2, <2>3, <2>4
<1>10. misread' \/ samples' = spent'
  <2>1. CASE misread  BY <2>1
  <2>2. CASE ~misread
    <3>1. samples = spent  BY <2>2 DEF Summed
    <3>2. spent' \in Ints  BY <1>4, <1>9 DEF Ints
    <3>3. QED BY <3>1, <3>2, ToIntExact
  <2>3. QED BY <2>1, <2>2
<1>11. misread' \in BOOLEAN /\ sample' \in Nat  BY <1>2 DEF Summed
<1>12. QED BY <1>2, <1>5, <1>8, <1>9, <1>10, <1>11 DEF Summed

LEMMA SummedLaunch == ASSUME SumsFit, IInv, Summed, Launch PROVE Summed'
<1>1. UNCHANGED <<params, args>> /\ sample' \in {sample, sample + 1}  BY LaunchKeeps
<1>2. CASE UNCHANGED group
  <2>1. UNCHANGED <<samples, spent, misread>>  BY <1>2 DEF group
  <2>2. misread \in BOOLEAN /\ (misread \/ samples = spent)  BY DEF Summed
  <2>3. QED BY <1>1, <2>1, <2>2, SummedMore
<1>3. CASE /\ sample' = sample + 1 /\ misread' = misread
           /\ \E cost \in Costs : samples' = ToInt(samples + cost) /\ spent' = spent + cost
  BY <1>3, SummedTimed
<1>4. CASE misread' /\ spent' = spent
  <2>1. misread' \in BOOLEAN
    BY <1>4 DEF Launch, ForkFails, ScanOverflows, NotStarted, NeverCalled, EndsInside,
      Timed, EntryMisread, ReturnMisread, TraceFails, MainEnds, group, Summed
  <2>2. QED BY <1>1, <1>4, <2>1, SummedMore
<1>5. QED BY <1>2, <1>3, <1>4, LaunchAdds

LEMMA SummedStep == ASSUME SumsFit, IInv, Summed, [CampaignNext]_cvars PROVE Summed'
<1>1. CASE ReadOption
  <2>1. /\ args \in Seq(Options) /\ args # << >> /\ args' = Tail(args)
        /\ "n" \in DOMAIN params /\ UNCHANGED <<samples, spent, misread, sample>>
    BY <1>1 DEF ReadOption, IInv, Typed, group
  <2>2. /\ Head(args) = args[1] /\ 1 \in 1..Len(args)
        /\ \A j \in 1..Len(args') : args'[j] = args[j + 1] /\ j + 1 \in 1..Len(args)
    BY <2>1
  <2>3. \/ params' = params
        \/ params' = [params EXCEPT ![Head(args).opt] = Head(args).arg]
    BY <1>1 DEF ReadOption
  <2>4. params'.n \in RunCounts  BY <2>1, <2>2, <2>3 DEF Summed
  <2>5. QED BY <2>1, <2>2, <2>4 DEF Summed
<1>2. CASE Launch  BY <1>2, SummedLaunch
<1>3. CASE StorePage \/ ListPages
  <2>1. UNCHANGED <<params, args>> /\ sample' = 0 /\ samples' = 0 /\ spent' = 0
        /\ misread' = FALSE
    BY <1>3 DEF StorePage, ListPages, setup, NewGroup, ResetSamples
  <2>2. PICK c \in Costs : c \in Nat  BY SomeCost
  <2>3. spent' <= sample' * c  BY <2>1, <2>2
  <2>4. spent' \in 0..IntMax /\ sample' \in Nat  BY <2>1, CostsAssumption
  <2>5. misread' \in BOOLEAN  BY <2>1
  <2>6. misread' \/ samples' = spent'  BY <2>1
  <2>7. QED BY <2>1, <2>2, <2>3, <2>4, <2>5, <2>6 DEF Summed
<1>4. CASE SortPages
  <2>1. params'.n \in RunCounts
    BY <1>4 DEF SortPages, Summed, IInv, Typed, RunCounts
  <2>2. QED BY <1>4, <2>1 DEF SortPages, Summed, group
<1>5. CASE UNCHANGED <<params, args, samples, spent, misread, sample>>
  BY <1>5 DEF Summed
<1>6. QED
  BY <1>1, <1>2, <1>3, <1>4, <1>5 DEF CampaignNext, Launch, cvars, setup, group, Refuse, Accept,
    DividesByZero, WriteRow, CampaignOver

-----------------------------------------------------------------------------
Costings == [cost : Int, misread : BOOLEAN]

(* The profile holds the averages of the pages it names.                    *)
Means ==
  /\ truth \in Seq(Costings) /\ Len(truth) = Len(page)
  /\ \A j \in 1..Len(page) :
       /\ page[j].page_number + 1 \in 1..Len(page)
       /\ \/ truth[page[j].page_number + 1].misread
          \/ /\ page[j].cycles = truth[page[j].page_number + 1].cost
             /\ page[j].cycles \in 0..IntMax

\* What a group that was not misread stores.
LEMMA StoredMean ==
  ASSUME IInv, Summed, StorePage
  PROVE  /\ Quotient(spent, params.n) \in 0..IntMax
         /\ misread \/ Quotient(samples, params.n) = Quotient(spent, params.n)
<1>1. params.n \in Int \ {0} /\ spent \in Nat /\ spent <= IntMax /\ IntMax \in Nat
  BY CostsAssumption DEF IInv, Typed, StorePage, Summed
<1>2. CASE params.n > 0
  <2>1. spent \div params.n \in 0..spent  BY <1>1, <1>2, DivFits
  <2>2. Magnitude(spent) = spent /\ Magnitude(params.n) = params.n  BY <1>1, <1>2 DEF Magnitude
  <2>3. Quotient(spent, params.n) = spent \div params.n
    BY <1>1, <1>2, <2>2 DEF Quotient
  <2>4. PICK q \in 0..spent : q = spent \div params.n  BY <2>1
  <2>5. QED BY <1>1, <2>3, <2>4 DEF Summed
<1>3. CASE ~(params.n > 0)
  <2>1. spent = 0 /\ samples = 0  BY <1>1, <1>3 DEF IInv, Unlaunched
  <2>2. Quotient(0, params.n) = 0  BY <1>1, QuotientZero
  <2>3. QED BY <1>1, <2>1, <2>2
<1>4. QED BY <1>2, <1>3

LEMMA MeansStored == ASSUME IInv, Summed, Means, StorePage PROVE Means'
<1>1. PICK q \in 0..IntMax : q = Quotient(spent, params.n)  BY StoredMean
<1>2. PICK e : e = [cycles |-> Quotient(samples, params.n), page_number |-> count]
  OBVIOUS
<1>3. PICK c : c = [cost |-> q, misread |-> misread]  OBVIOUS
<1>4. page' = Append(page, e) /\ truth' = Append(truth, c)
  BY <1>1, <1>2, <1>3 DEF StorePage, PageNumber
<1>5. c \in Costings  BY <1>1, <1>3, CostsAssumption DEF Costings, Summed
<1>6. params.n \in Int \ {0} /\ samples \in Int  BY DEF IInv, Typed, StorePage
<1>7. Quotient(samples, params.n) \in Int  BY <1>6, QuotientInt
<1>8. count = Len(page) /\ count \in Nat /\ page \in Seq(Entries) /\ e \in Entries
  BY <1>2, <1>7 DEF IInv, Typed, Stages, StorePage, Entries
<1>9. /\ Len(page') = Len(page) + 1
      /\ \A j \in 1..Len(page) : page'[j] = page[j]
      /\ page'[Len(page) + 1] = e
  BY <1>4, <1>8
<1>10. /\ truth' \in Seq(Costings) /\ Len(truth') = Len(page')
       /\ \A j \in 1..Len(page) : truth'[j] = truth[j]
       /\ truth'[Len(page) + 1] = c
  BY <1>4, <1>5, <1>8, <1>9 DEF Means
<1>11. ASSUME NEW j \in 1..Len(page')
       PROVE /\ page'[j].page_number + 1 \in 1..Len(page')
             /\ \/ truth'[page'[j].page_number + 1].misread
                \/ /\ page'[j].cycles = truth'[page'[j].page_number + 1].cost
                   /\ page'[j].cycles \in 0..IntMax
  <2>1. CASE j = Len(page) + 1
    <3>1. /\ page'[j].cycles = Quotient(samples, params.n)
          /\ page'[j].page_number + 1 = j /\ truth'[j] = c
      BY <1>2, <1>8, <1>9, <1>10, <2>1
    <3>2. misread \/ Quotient(samples, params.n) = q  BY <1>1, StoredMean
    <3>3. j \in 1..Len(page')  OBVIOUS
    <3>4. CASE misread  BY <1>3, <3>1, <3>3, <3>4
    <3>5. CASE Quotient(samples, params.n) = q  BY <1>1, <1>3, <3>1, <3>3, <3>5
    <3>6. QED BY <3>2, <3>4, <3>5
  <2>2. CASE j # Len(page) + 1
    <3>1. j \in 1..Len(page) /\ Len(page) \in Nat  BY <1>8, <1>9, <2>2
    <3>2. page'[j] = page[j]  BY <1>9, <3>1
    <3>3. PICK k : k = page[j].page_number + 1  OBVIOUS
    <3>4. /\ k \in 1..Len(page)
          /\ \/ truth[k].misread
             \/ page[j].cycles = truth[k].cost /\ page[j].cycles \in 0..IntMax
      BY <3>1, <3>3 DEF Means
    <3>5. truth'[k] = truth[k] /\ k \in 1..Len(page')  BY <1>9, <1>10, <3>1, <3>4
    <3>6. QED BY <3>2, <3>3, <3>4, <3>5
  <2>3. QED BY <2>1, <2>2
<1>12. QED BY <1>10, <1>11 DEF Means

LEMMA MeansStep == ASSUME IInv, Summed, Means, [CampaignNext]_cvars PROVE Means'
<1>1. CASE StorePage  BY <1>1, MeansStored
<1>2. CASE SortPages
  <2>1. Len(page') = Len(page) /\ truth' = truth  BY <1>2, SortPermutes DEF SortPages
  <2>2. PICK f \in [1..Len(page) -> 1..Len(page)] :
          \A j \in 1..Len(page) : page'[j] = page[f[j]]
    BY <1>2, SortPermutes
  <2>3. \A j \in 1..Len(page) : f[j] \in 1..Len(page)  BY <2>2
  <2>4. ASSUME NEW j \in 1..Len(page)
        PROVE /\ page'[j].page_number + 1 \in 1..Len(page)
              /\ \/ truth[page'[j].page_number + 1].misread
                 \/ /\ page'[j].cycles = truth[page'[j].page_number + 1].cost
                    /\ page'[j].cycles \in 0..IntMax
    <3>1. PICK k \in 1..Len(page) : page'[j] = page[k]  BY <2>2, <2>3
    <3>2. QED BY <3>1 DEF Means
  <2>5. QED BY <2>1, <2>4 DEF Means
<1>3. CASE UNCHANGED <<page, truth>>  BY <1>3 DEF Means
<1>4. CASE Launch  BY <1>3, <1>4, LaunchKeeps
<1>5. QED
  BY <1>1, <1>2, <1>3, <1>4 DEF CampaignNext, Launch, cvars, profile, ReadOption, Refuse, Accept,
    DividesByZero, ListPages, WriteRow, CampaignOver

(* From the sort on there is one entry for a page of the heap, and they are *)
(* in order if none was misread.                                            *)
Ranked ==
  phase \in {"list", "run"} => \A j, k \in 1..heap_size :
    /\ NoneMisread /\ j < k => page[j].cycles <= page[k].cycles
    /\ page[j].page_number = page[k].page_number => j = k

LEMMA RankedStep == ASSUME IInv, Means, Ranked, [CampaignNext]_cvars PROVE Ranked'
<1>1. CASE SortPages
  <2>1. /\ heap_size' = heap_size /\ heap_size \in Nat /\ truth' = truth
        /\ page \in Seq(Entries) /\ page # << >> /\ phase = "sort"
    BY <1>1, CostsAssumption DEF SortPages, heapVars, IInv, Typed, Stages
  <2>2. heap_size = 0 \/ Len(page) = heap_size
    BY <2>1 DEF IInv, Numbered
  <2>3. \A j \in 1..Len(page) : page[j].page_number = j - 1
    BY <2>1 DEF IInv, Numbered
  <2>4. ASSUME NoneMisread
        PROVE  \A j, k \in 1..heap_size : j < k => page'[j].cycles <= page'[k].cycles
    <3>1. \A j \in 1..Len(page) : page[j].cycles \in 0..IntMax
      BY <2>4 DEF Means, NoneMisread
    <3>2. QED BY <1>1, <3>1, SortPermutes
  <2>5. PICK f \in [1..Len(page) -> 1..Len(page)] :
          /\ \A j \in 1..Len(page) : page'[j] = page[f[j]]
          /\ \A j, k \in 1..Len(page) : f[j] = f[k] => j = k
    BY <1>1, SortPermutes
  <2>6. \A j, k \in 1..heap_size : page'[j].page_number = page'[k].page_number => j = k
    <3>1. CASE heap_size = 0  BY <3>1
    <3>2. CASE Len(page) = heap_size
      <4>1. \A j \in 1..heap_size : f[j] \in 1..Len(page) /\ f[j] \in Int
        BY <2>1, <2>5, <3>2
      <4>2. \A j \in 1..heap_size : page'[j].page_number = f[j] - 1
        BY <2>3, <2>5, <3>2, <4>1
      <4>3. QED BY <2>5, <3>2, <4>1, <4>2
    <3>3. QED BY <2>2, <3>1, <3>2
  <2>7. NoneMisread' = NoneMisread  BY <2>1 DEF NoneMisread
  <2>8. QED BY <2>1, <2>4, <2>6, <2>7 DEF Ranked
<1>2. CASE phase' \in {"list", "run"} /\ ~SortPages
  <2>1. /\ phase \in {"list", "run"} /\ page' = page /\ truth' = truth
        /\ heap_size' = heap_size \/ Launch
    BY <1>2, LaunchKeeps DEF CampaignNext, Launch, cvars, heapVars, profile, ReadOption, Refuse, Accept,
      StorePage, DividesByZero, ListPages, WriteRow, CampaignOver
  <2>2. CASE Launch
    <3>1. phase = "run"  BY <2>1, <2>2, LaunchKeeps
    <3>2. page # << >>  BY <3>1 DEF IInv, Stages
    <3>3. heap_size' = heap_size  BY <2>2, <3>2, LaunchHeap
    <3>4. NoneMisread' = NoneMisread  BY <2>1 DEF NoneMisread
    <3>5. QED BY <2>1, <3>3, <3>4 DEF Ranked
  <2>3. CASE heap_size' = heap_size
    <3>1. NoneMisread' = NoneMisread  BY <2>1 DEF NoneMisread
    <3>2. QED BY <2>1, <2>3, <3>1 DEF Ranked
  <2>4. QED BY <2>1, <2>2, <2>3
<1>3. QED BY <1>1, <1>2 DEF Ranked

(* Each loop launches with a list as long as it says, the second with the   *)
(* first entries of the profile.                                            *)
Requested ==
  /\ {"size", "buff"} \subseteq DOMAIN kernel_params
  /\ phase = "profile" => kernel_params.size = 1 /\ Len(kernel_params.buff) = 1
  /\ phase = "run" => kernel_params.size = count /\ kernel_params.buff = Listed(count)

LEMMA RequestedStep == ASSUME IInv, Requested, [CampaignNext]_cvars PROVE Requested'
<1>1. CASE Accept  BY <1>1 DEF Accept, Requested
<1>2. CASE StorePage
  <2>1. \/ phase' = "sort" /\ kernel_params' = kernel_params
        \/ /\ phase' = "profile" /\ phase = "profile"
           /\ kernel_params' = [kernel_params EXCEPT !.buff = <<PageNumber(count + 1)>>]
    BY <1>2 DEF StorePage
  <2>2. Len(<<PageNumber(count + 1)>>) = 1  OBVIOUS
  <2>3. QED BY <2>1, <2>2 DEF Requested
<1>3. CASE SortPages
  BY <1>3 DEF SortPages, Requested
<1>4. CASE ListPages
  <2>1. phase' = "run" /\ UNCHANGED <<count, page>>  BY <1>4 DEF ListPages, profile
  <2>2. Listed(count)' = Listed(count)  BY <2>1 DEF Listed
  <2>3. kernel_params' = [kernel_params EXCEPT !.size = count, !.buff = Listed(count)]
    BY <1>4 DEF ListPages
  <2>4. kernel_params'.size = count /\ kernel_params'.buff = Listed(count)
        /\ DOMAIN kernel_params' = DOMAIN kernel_params
    BY <2>3 DEF Requested
  <2>5. QED BY <2>1, <2>2, <2>4 DEF Requested
<1>5. CASE WriteRow  BY <1>5 DEF WriteRow, Requested
<1>6. CASE UNCHANGED <<kernel_params, count, page>> /\ phase' \in {phase, "over", "failed", "crashed"}
  BY <1>6 DEF Requested, Listed
<1>7. CASE Launch
  <2>1. UNCHANGED <<kernel_params, count, page>> /\ phase' \in {phase, "failed", "crashed"}
    BY <1>7, LaunchKeeps
  <2>2. QED BY <1>6, <2>1
<1>8. QED
  BY <1>1, <1>2, <1>3, <1>4, <1>5, <1>6, <1>7 DEF CampaignNext, Launch, cvars, profile, ReadOption,
    Refuse, DividesByZero, CampaignOver

RowType == [cycles : Int, spent : Int, misread : BOOLEAN, listed : SUBSET Nat]

(* The rows written so far: row i is for the first i entries.               *)
Chain ==
  \A i \in 1..Len(rows) :
    /\ rows[i].misread \/ rows[i].cycles = rows[i].spent
    /\ \A k \in 1..(i - 1) :
         rows[k].listed \subseteq rows[i].listed /\ rows[k].listed # rows[i].listed

Written ==
  /\ rows \in Seq(RowType) /\ Chain
  /\ phase \in {"options", "profile", "sort"} => rows = << >>
  /\ phase = "options" => entry = NoAddr
  /\ phase \in {"list", "run"} =>
       /\ count \in 1..(heap_size + 1) /\ Len(rows) = count - 1
       /\ heap_size > 0 => params.n = 1
       /\ \A i \in 1..Len(rows) : rows[i].listed = {page[j].page_number : j \in 1..i}
  /\ phase = "over" /\ entry # NoAddr => Len(rows) = heap_size

LEMMA RowWritten ==
  ASSUME IInv, Summed, Ranked, Requested, Written, WriteRow PROVE Written'
<1>1. /\ phase = "run" /\ phase' = "list" /\ count' = count + 1
      /\ UNCHANGED <<params, entry, page, heap_size>>
  BY DEF WriteRow, setup, heapVars, profile
<1>2. /\ count \in Nat /\ heap_size \in Nat /\ count >= 1 /\ count <= heap_size
      /\ Len(rows) = count - 1 /\ params.n = 1 /\ page \in Seq(Entries)
      /\ Len(page) = heap_size
  BY <1>1, CostsAssumption DEF IInv, Typed, Stages, Numbered, Written
<1>3. /\ Quotient(samples, 1) = samples /\ samples \in Int /\ spent \in Int
      /\ misread \in BOOLEAN /\ (misread \/ samples = spent)
  BY CostsAssumption DEF IInv, Typed, Summed, Quotient, Magnitude
<1>4. DEFINE Ranks(i) == {page[j].page_number : j \in 1..i}
             row == [cycles |-> samples, spent |-> spent, misread |-> misread,
                     listed |-> Ranks(count)]
<1>5. ToSet(kernel_params.buff) = Ranks(count)
  <2>1. kernel_params.buff = [j \in 1..count |-> page[j].page_number]
    BY <1>1 DEF Requested, Listed
  <2>2. QED BY <2>1 DEF ToSet
<1>6. rows' = Append(rows, row)  BY <1>2, <1>3, <1>5 DEF WriteRow
<1>7. \A j \in 1..heap_size : page[j].page_number \in Nat
  <2>1. TAKE j \in 1..heap_size
  <2>2. page[j] \in Entries  BY <1>2, <2>1, ElementOfSeq
  <2>3. QED BY <2>2 DEF Entries
<1>8. row \in RowType
  BY <1>2, <1>3, <1>7 DEF RowType
<1>9. /\ rows' \in Seq(RowType)
      /\ Len(rows') = count
      /\ \A i \in 1..(count - 1) : rows'[i] = rows[i]
      /\ rows'[count] = row
  <2>1. HIDE DEF row
  <2>2. QED BY <1>2, <1>6, <1>8 DEF Written
<1>10. /\ \A i \in 1..count : rows'[i].listed = Ranks(i)
       /\ \A i \in 1..count : rows'[i].misread \/ rows'[i].cycles = rows'[i].spent
  <2>1. \A i \in 1..(count - 1) :
          rows[i].listed = Ranks(i) /\ (rows[i].misread \/ rows[i].cycles = rows[i].spent)
    BY <1>1, <1>2 DEF Written, Chain
  <2>2. /\ rows'[count].listed = Ranks(count)
        /\ rows'[count].misread \/ rows'[count].cycles = rows'[count].spent
    BY <1>3, <1>9
  <2>3. HIDE DEF Ranks, row
  <2>4. \A i \in 1..count : i = count \/ i \in 1..(count - 1)  BY <1>2
  <2>5. QED BY <1>9, <2>1, <2>2, <2>4
<1>11. ASSUME NEW i \in 1..count, NEW k \in 1..(i - 1)
       PROVE  Ranks(k) \subseteq Ranks(i) /\ Ranks(k) # Ranks(i)
  <2>1. 1..k \subseteq 1..i /\ i \in 1..heap_size /\ i \notin 1..k /\ 1..k \subseteq 1..heap_size
    BY <1>2
  <2>2. page[i].page_number \in Ranks(i)  BY <2>1, <1>2
  <2>3. page[i].page_number \notin Ranks(k)  BY <1>1, <2>1 DEF Ranked
  <2>4. QED BY <2>1, <2>2, <2>3
<1>12. Chain'
  <2>1. HIDE DEF Ranks
  <2>2. \A i \in 1..count : 1..(i - 1) \subseteq 1..count  BY <1>2
  <2>3. QED BY <1>9, <1>10, <1>11, <2>2 DEF Chain
<1>13. \A i \in 1..Len(rows') : rows'[i].listed = {page'[j].page_number : j \in 1..i}
  <2>1. TAKE i \in 1..Len(rows')
  <2>2. rows'[i].listed = Ranks(i)
    <3>1. HIDE DEF Ranks, row
    <3>2. QED BY <1>9, <1>10, <2>1
  <2>3. page' = page  BY <1>1
  <2>4. QED BY <2>2, <2>3
<1>14. count' \in 1..(heap_size' + 1) /\ Len(rows') = count' - 1 /\ params'.n = 1
  BY <1>1, <1>2, <1>9
<1>15. QED
  <2>1. HIDE DEF Ranks, row
  <2>2. QED BY <1>1, <1>9, <1>12, <1>13, <1>14 DEF Written

LEMMA WrittenStep ==
  ASSUME IInv, Summed, Ranked, Requested, Written, [CampaignNext]_cvars PROVE Written'
<1>1. CASE WriteRow  BY <1>1, RowWritten
<1>2. CASE SortPages
  <2>1. /\ rows' = rows /\ rows = << >> /\ heap_size' = heap_size /\ heap_size \in Nat
        /\ count' = 1 /\ phase' = "list"
        /\ heap_size > 0 => params'.n = 1
    BY <1>2, CostsAssumption DEF SortPages, heapVars, Written, IInv, Typed
  <2>2. QED BY <2>1 DEF Written, Chain
<1>3. CASE Launch
  <2>1. /\ phase \in {"profile", "run"} /\ phase' \in {phase, "failed", "crashed"}
        /\ UNCHANGED <<rows, count, page, params, entry>>
    BY <1>3, LaunchKeeps
  <2>2. CASE phase = "profile"  BY <2>1, <2>2 DEF Written, Chain
  <2>3. CASE phase = "run"
    <3>1. page # << >>  BY <2>3 DEF IInv, Stages
    <3>2. heap_size' = heap_size  BY <1>3, <3>1, LaunchHeap
    <3>3. QED BY <2>1, <2>3, <3>2 DEF Written, Chain
  <2>4. QED BY <2>1, <2>2, <2>3
<1>4. CASE ReadOption \/ Refuse \/ Accept \/ StorePage
  BY <1>4 DEF ReadOption, Refuse, Accept, StorePage, Written, Chain, setup
<1>5. CASE CampaignOver
  <2>1. /\ phase = "list" /\ phase' = "over" /\ rows' = rows /\ heap_size' = heap_size
        /\ count > heap_size /\ heap_size \in Nat
    BY <1>5, CostsAssumption DEF CampaignOver, heapVars, IInv, Typed
  <2>2. Len(rows) = heap_size  BY <2>1 DEF Written
  <2>3. Chain'  BY <2>1 DEF Written, Chain
  <2>4. QED BY <2>1, <2>2, <2>3 DEF Written
<1>6. CASE DividesByZero
  BY <1>6 DEF DividesByZero, setup, heapVars, profile, Written, Chain
<1>7. CASE ListPages
  BY <1>7 DEF ListPages, Written, Chain, setup, heapVars, profile
<1>8. CASE UNCHANGED cvars
  BY <1>8 DEF cvars, setup, heapVars, profile, Written, Chain
<1>9. QED BY <1>1, <1>2, <1>3, <1>4, <1>5, <1>6, <1>7, <1>8 DEF CampaignNext, Launch

-----------------------------------------------------------------------------
Results == IInv /\ Summed /\ Means /\ Ranked /\ Requested /\ Written

LEMMA ResultsAlways == ASSUME SumsFit PROVE CampaignSpec => []Results
<1>1. CampaignInit => Results
  <2>1. SUFFICES ASSUME CampaignInit PROVE Results  OBVIOUS
  <2>2. IInv /\ Summed  BY <2>1, InitHolds, SummedInit
  <2>3. Means /\ Ranked /\ Requested /\ Written
    BY <2>1 DEF CampaignInit, Means, Ranked, Requested, Written, Chain
  <2>4. QED BY <2>2, <2>3 DEF Results
<1>2. Results /\ [CampaignNext]_cvars => Results'
  BY StepHolds, SummedStep, MeansStep, RankedStep, RequestedStep, WrittenStep DEF Results
<1>3. QED BY <1>1, <1>2, PTL DEF CampaignSpec

(* As long as the sums fit an int, the average stored for a page is that of *)
(* the page's own runs, before and after sorting, unless one of them was    *)
(* misread: what any other page's programs leave behind does not reach it   *)
(* (functime.c:596, 605, 832, 855).                                         *)
THEOREM Averages == ASSUME SumsFit PROVE CampaignSpec => []AveragesExact
<1>1. Results => AveragesExact
  BY DEF Results, IInv, Typed, Means, AveragesExact
<1>2. QED BY <1>1, ResultsAlways, PTL

(* As long as the sums fit an int, the list the module is given is as long  *)
(* as it says, and no page left out was cheaper than a listed one if no     *)
(* page's runs were misread (functime.c:195, 605, 824, 833, 874, 891-898).  *)
THEOREM Cheapest == ASSUME SumsFit PROVE CampaignSpec => []CheapestListed
<1>1. ASSUME Results PROVE CheapestListed
  <2>1. SUFFICES ASSUME Launching PROVE
          /\ Len(kernel_params.buff) = kernel_params.size
          /\ phase = "run" /\ NoneMisread =>
               \A a \in ToSet(kernel_params.buff) :
                 \A b \in (0..(heap_size - 1)) \ ToSet(kernel_params.buff) :
                   truth[a + 1].cost <= truth[b + 1].cost
    BY DEF CheapestListed
  <2>2. CASE phase = "profile"
    BY <1>1, <2>2 DEF Results, Requested
  <2>3. CASE phase = "run"
    <3>1. /\ count \in Nat /\ count <= heap_size /\ heap_size > 0 /\ heap_size \in Nat
          /\ Len(page) = heap_size
          /\ {page[j].page_number : j \in 1..heap_size} = 0..(heap_size - 1)
      BY <1>1, <2>3, CostsAssumption DEF Results, IInv, Typed, Stages, Numbered
    <3>2. kernel_params.size = count
          /\ kernel_params.buff = [j \in 1..count |-> page[j].page_number]
      BY <1>1, <2>3 DEF Results, Requested, Listed
    <3>3. Len(kernel_params.buff) = count  BY <3>1, <3>2
    <3>4. ASSUME NoneMisread, NEW a \in ToSet(kernel_params.buff),
                 NEW b \in (0..(heap_size - 1)) \ ToSet(kernel_params.buff)
          PROVE  truth[a + 1].cost <= truth[b + 1].cost
      <4>1. ToSet(kernel_params.buff) = {page[j].page_number : j \in 1..count}
        BY <3>2 DEF ToSet
      <4>2. PICK j \in 1..count : a = page[j].page_number  BY <4>1
      <4>3. PICK k \in 1..heap_size : b = page[k].page_number  BY <3>1
      <4>4. k \notin 1..count  BY <4>1, <4>3
      <4>5. j \in 1..heap_size /\ j < k  BY <3>1, <4>4
      <4>6. page[j].cycles <= page[k].cycles
        BY <1>1, <2>3, <3>4, <4>5 DEF Results, Ranked
      <4>7. \A i \in 1..heap_size : page[i].cycles = truth[page[i].page_number + 1].cost
        BY <1>1, <3>1, <3>4 DEF Results, Means, NoneMisread
      <4>8. page[j].cycles = truth[a + 1].cost /\ page[k].cycles = truth[b + 1].cost
        BY <4>2, <4>3, <4>5, <4>7
      <4>9. QED BY <4>6, <4>8
    <3>5. QED BY <3>2, <3>3, <3>4
  <2>4. QED BY <2>1, <2>2, <2>3 DEF Launching
<1>2. QED BY <1>1, ResultsAlways, PTL

(* As long as the sums fit an int, each row is the cost of its own run      *)
(* unless that was misread, row i lists a page more than row i - 1, and a   *)
(* campaign that ends well wrote as many rows as the heap has pages         *)
(* (functime.c:596, 886-927).                                               *)
THEOREM Rows == ASSUME SumsFit PROVE CampaignSpec => []RowsInOrder
<1>1. Results => RowsInOrder
  BY DEF Results, Written, Chain, RowsInOrder
<1>2. QED BY <1>1, ResultsAlways, PTL

(* After one program that ended before the function no run is timed any     *)
(* more, whatever the later programs do and whichever loop main is in       *)
(* (functime.c:526, 547, 583-584, 596, 605, 610).                           *)
THEOREM LapseFinal == CampaignSpec => LapseLasts
<1>1. ASSUME [CampaignNext]_cvars, Lapsed PROVE Lapsed' /\ samples' \in {0, samples}
  <2>1. CASE Launch
    BY <1>1, <2>1 DEF Lapsed, Launch, ForkFails, ScanOverflows, NotStarted, NeverCalled,
      EndsInside, Timed, EntryMisread, ReturnMisread, TraceFails, LaunchEnds, MainEnds,
      LinkAtExec, group
  <2>2. CASE ~Launch
    <3>1. UNCHANGED <<stage, ret_addr>>
      BY <1>1, <2>2 DEF CampaignNext, Launch, cvars, ReadOption, Refuse, Accept, StorePage,
        DividesByZero, SortPages, ListPages, WriteRow, CampaignOver
    <3>2. samples' \in {0, samples}
      BY <1>1, <2>2 DEF CampaignNext, Launch, cvars, group, NewGroup, ResetSamples, ReadOption,
        Refuse, Accept, StorePage, DividesByZero, SortPages, ListPages, WriteRow, CampaignOver
    <3>3. QED BY <1>1, <3>1, <3>2 DEF Lapsed
  <2>3. QED BY <2>1, <2>2
<1>2. QED BY <1>1, PTL DEF CampaignSpec, LapseLasts
=============================================================================
