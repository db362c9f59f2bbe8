------------------------------ MODULE PageFlip ------------------------------
(***************************************************************************)
(* Making one page of a running program noncacheable: the body of print_mem *)
(* in the kernel modules, against the hardware it has to keep coherent.     *)
(* functime_debugger/kernel/both_multiple.c cleans and invalidates the page *)
(* in L1 and then in L2, replaces its page-table entry and flushes its TLB  *)
(* entry; cacheable_except_one/all_cacheable_except_one.c does neither      *)
(* cleaning, and flushes the entry of the first page of the region.         *)
(*                                                                         *)
(* One cache line stands for the page.  Its data is not modelled, only      *)
(* whether a copy holds the value the program stored last.                  *)
(***************************************************************************)
CONSTANTS CleansCaches,  \* both_multiple.c: TRUE
          FlushesPage    \* the flushed TLB entry is the page's own

ASSUME VariantAssumption == CleansCaches \in BOOLEAN /\ FlushesPage \in BOOLEAN

VARIABLES
  step,      \* the next step of print_mem; "program" when the program runs
  pte,       \* the attribute in the page-table entry
  tlb,       \* the attribute in the TLB entry, or "none"
  l1, l2,    \* the copies in the caches, or NoCopy
  mem        \* does memory hold the last stored value?

fvars == <<step, pte, tlb, l1, l2, mem>>

-----------------------------------------------------------------------------
(* The hardware.                                                            *)
Attributes == {"cached", "noncached"}
Copies == [here : BOOLEAN, dirty : BOOLEAN, fresh : BOOLEAN]
NoCopy == [here |-> FALSE, dirty |-> FALSE, fresh |-> FALSE]
Copy(d, f) == [here |-> TRUE, dirty |-> d, fresh |-> f]

Aged(c) == [c EXCEPT !.fresh = FALSE]

\* A line leaves L1 for L2, or L2 for memory; a clean one is dropped.
ToL2  == /\ l1' = NoCopy
         /\ l2' = IF l1.dirty THEN l1 ELSE l2
ToMem == /\ l2' = NoCopy
         /\ mem' = IF l2.dirty THEN l2.fresh ELSE mem

\* What a fill of L1 brings: the L2 copy, else memory.
Below == IF l2.here THEN l2.fresh ELSE mem

Attribute == IF tlb = "none" THEN pte ELSE tlb

\* What the program would read now.
Visible == IF Attribute = "noncached" THEN mem
           ELSE IF l1.here THEN l1.fresh
           ELSE Below

FlipTypeOK ==
  /\ step \in {"program", "clean_l1", "clean_l2", "set_pte", "flush_tlb"}
  /\ pte \in Attributes /\ tlb \in Attributes \cup {"none"}
  /\ l1 \in Copies /\ l2 \in Copies
  /\ mem \in BOOLEAN

FlipInit == /\ step = "program" /\ pte = "cached" /\ tlb = "none"
            /\ l1 = NoCopy /\ l2 = NoCopy /\ mem = TRUE

\* The program is stopped, or inside write(), while print_mem runs.
Store ==
  /\ step = "program"
  /\ tlb' = Attribute
  /\ IF Attribute = "cached"
       THEN l1' = Copy(TRUE, TRUE) /\ l2' = Aged(l2) /\ mem' = FALSE
       ELSE l1' = Aged(l1) /\ l2' = Aged(l2) /\ mem' = TRUE
  /\ UNCHANGED <<step, pte>>

Load ==
  /\ step = "program"
  /\ tlb' = Attribute
  /\ l1' = IF Attribute = "cached" /\ ~l1.here THEN Copy(FALSE, Below) ELSE l1
  /\ UNCHANGED <<step, pte, l2, mem>>

\* Evictions happen at any time, and so do speculative fills, through the
\* kernel's own cacheable mapping of the page, and speculative table walks.
EvictL1 == l1.here /\ ToL2 /\ UNCHANGED <<step, pte, tlb, mem>>
EvictL2 == l2.here /\ ToMem /\ UNCHANGED <<step, pte, tlb, l1>>
FillL1  == ~l1.here /\ l1' = Copy(FALSE, Below) /\ UNCHANGED <<step, pte, tlb, l2, mem>>
FillL2  == ~l2.here /\ ~l1.dirty /\ l2' = Copy(FALSE, mem)
           /\ UNCHANGED <<step, pte, tlb, l1, mem>>
WalkTable == tlb = "none" /\ tlb' = pte /\ UNCHANGED <<step, pte, l1, l2, mem>>
EvictTlb  == tlb # "none" /\ tlb' = "none" /\ UNCHANGED <<step, pte, l1, l2, mem>>

Hardware == EvictL1 \/ EvictL2 \/ FillL1 \/ FillL2 \/ WalkTable \/ EvictTlb

-----------------------------------------------------------------------------
(* print_mem.                                                               *)

\* Bug: L2 is cleaned first, as in the commented-out call above the L1 loop.
AfterL2First(p) == CASE p = "program"   -> "clean_l2"
                     [] p = "clean_l2"  -> "clean_l1"
                     [] p = "clean_l1"  -> "set_pte"
                     [] p = "set_pte"   -> "flush_tlb"
                     [] p = "flush_tlb" -> "program"

\* Bug: the TLB entry is flushed before the page-table entry is replaced.
AfterFlushFirst(p) == CASE p = "program"   -> "clean_l1"
                        [] p = "clean_l1"  -> "clean_l2"
                        [] p = "clean_l2"  -> "flush_tlb"
                        [] p = "flush_tlb" -> "set_pte"
                        [] p = "set_pte"   -> "program"

\* Bug: L1 alone is cleaned; the dirty line stays in L2.
AfterL1Only(p) == CASE p = "program"   -> "clean_l1"
                    [] p = "clean_l1"  -> "set_pte"
                    [] p = "set_pte"   -> "flush_tlb"
                    [] p = "flush_tlb" -> "program"

After(p) == CASE p = "program"   -> IF CleansCaches THEN "clean_l1" ELSE "set_pte"
              [] p = "clean_l1"  -> "clean_l2"
              [] p = "clean_l2"  -> "set_pte"
              [] p = "set_pte"   -> "flush_tlb"
              [] p = "flush_tlb" -> "program"

print_mem ==
  /\ step = "program" /\ step' = After(step)
  /\ UNCHANGED <<pte, tlb, l1, l2, mem>>

invalidate_page_l1 ==
  /\ step = "clean_l1" /\ step' = After(step)
  /\ ToL2
  /\ UNCHANGED <<pte, tlb, mem>>

invalidate_page_l2 ==
  /\ step = "clean_l2" /\ step' = After(step)
  /\ ToMem
  /\ UNCHANGED <<pte, tlb, l1>>

set_pte_ext ==
  /\ step = "set_pte" /\ step' = After(step)
  /\ pte' = "noncached"
  /\ UNCHANGED <<tlb, l1, l2, mem>>

flush_tlb_page ==
  /\ step = "flush_tlb" /\ step' = After(step)
  /\ tlb' = IF FlushesPage THEN "none" ELSE tlb
  /\ UNCHANGED <<pte, l1, l2, mem>>

Module == \/ print_mem \/ invalidate_page_l1 \/ invalidate_page_l2
          \/ set_pte_ext \/ flush_tlb_page

FlipNext == Store \/ Load \/ Hardware \/ Module

FlipSpec == FlipInit /\ [][FlipNext]_fvars

-----------------------------------------------------------------------------
(* The program always reads what it stored last, however its copies moved   *)
(* through the caches before, during and after the change                   *)
(* (both_multiple.c:315-339).                                               *)
LoadsSeeLastStore == step = "program" => Visible

(* When print_mem has returned, the page is noncacheable for the program    *)
(* and not only in the page table (both_multiple.c:334-339).                *)
ChangeTakesEffect == step = "program" /\ pte = "noncached" => tlb # "cached"

(* Memory of a noncacheable page is never overwritten by a cached copy: it  *)
(* goes stale only while a cacheable store is allowed to leave it behind.   *)
NoLateWriteback ==
  [][mem /\ ~mem' => Attribute = "cached" /\ step = "program"]_fvars
=============================================================================
