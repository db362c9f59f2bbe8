--------------------------- MODULE PageFlipProofs ---------------------------
(***************************************************************************)
(* The page change of both_multiple.c loses no store, whatever the caches   *)
(* evict or fetch while it runs.                                            *)
(***************************************************************************)
EXTENDS PageFlip, TLAPS

\* both_multiple.c, as opposed to all_cacheable_except_one.c.
BothMultiple == CleansCaches = TRUE /\ FlushesPage = TRUE

(* While the page is cacheable the newest copy is fresh, a clean copy       *)
(* equals what lies below it, and only a dirty copy may hide stale data.    *)
Coherent ==
  /\ l1.here => l1.fresh
  /\ ~l1.dirty /\ l2.here => l2.fresh
  /\ ~l1.dirty /\ ~l2.dirty => mem
  /\ l1.dirty \/ l2.dirty => ~mem
  /\ l1.dirty => ~l2.fresh

FlipInv ==
  /\ l1.dirty => l1.here
  /\ l2.dirty => l2.here
  /\ pte = "cached" => Coherent /\ tlb # "noncached"
  /\ pte = "noncached" => /\ ~l1.dirty /\ ~l2.dirty /\ mem
                          /\ step # "flush_tlb" => tlb # "cached"
  /\ step = "clean_l2" => ~l1.dirty
  /\ step = "set_pte" => ~l1.dirty /\ ~l2.dirty
  /\ step = "flush_tlb" => pte = "noncached"

LEMMA CopyType ==
  ASSUME NEW d \in BOOLEAN, NEW f \in BOOLEAN
  PROVE  /\ Copy(d, f) \in Copies
         /\ Copy(d, f).here /\ Copy(d, f).dirty = d /\ Copy(d, f).fresh = f
BY DEF Copy, Copies

LEMMA NoCopyType ==
  NoCopy \in Copies /\ ~NoCopy.here /\ ~NoCopy.dirty /\ ~NoCopy.fresh
BY DEF NoCopy, Copies

LEMMA AgedType ==
  ASSUME NEW c \in Copies
  PROVE  /\ Aged(c) \in Copies
         /\ Aged(c).here = c.here /\ Aged(c).dirty = c.dirty /\ ~Aged(c).fresh
BY DEF Aged, Copies

LEMMA FieldType ==
  ASSUME NEW c \in Copies
  PROVE  c.here \in BOOLEAN /\ c.dirty \in BOOLEAN /\ c.fresh \in BOOLEAN
BY DEF Copies

LEMMA AttributeType == FlipTypeOK => Attribute \in Attributes
BY DEF FlipTypeOK, Attribute

LEMMA BelowType == FlipTypeOK => Below \in BOOLEAN
BY FieldType DEF FlipTypeOK, Below

(* Every step keeps the types (both_multiple.c:315-339).                    *)
THEOREM TypeCorrect == FlipSpec => []FlipTypeOK
<1>1. FlipInit => FlipTypeOK
  BY NoCopyType DEF FlipInit, FlipTypeOK, Attributes
<1>2. FlipTypeOK /\ [FlipNext]_fvars => FlipTypeOK'
  <2> SUFFICES ASSUME FlipTypeOK, [FlipNext]_fvars PROVE FlipTypeOK'
    OBVIOUS
  <2>1. CASE Store
    <3>1. l1' \in Copies /\ l2' \in Copies /\ mem' \in BOOLEAN
      <4>1. Copy(TRUE, TRUE) \in Copies /\ Aged(l1) \in Copies /\ Aged(l2) \in Copies
        BY CopyType, AgedType DEF FlipTypeOK
      <4> QED BY <2>1, <4>1 DEF Store
    <3> QED BY <2>1, <3>1, AttributeType DEF Store, FlipTypeOK
  <2>2. CASE Load
    <3>1. l1' \in Copies
      BY <2>2, CopyType, BelowType DEF Load, FlipTypeOK
    <3> QED BY <2>2, <3>1, AttributeType DEF Load, FlipTypeOK
  <2>3. CASE Hardware
    <3>1. CASE EvictL1 \/ EvictL2
      BY <3>1, NoCopyType, FieldType DEF EvictL1, EvictL2, ToL2, ToMem, FlipTypeOK
    <3>2. CASE FillL1
      BY <3>2, CopyType, BelowType DEF FillL1, FlipTypeOK
    <3>3. CASE FillL2
      BY <3>3, CopyType DEF FillL2, FlipTypeOK
    <3>4. CASE WalkTable \/ EvictTlb
      BY <3>4 DEF WalkTable, EvictTlb, FlipTypeOK
    <3> QED BY <2>3, <3>1, <3>2, <3>3, <3>4 DEF Hardware
  <2>4. CASE Module
    BY <2>4, NoCopyType, FieldType, VariantAssumption
    DEF Module, print_mem, invalidate_page_l1, invalidate_page_l2, set_pte_ext,
      flush_tlb_page, After, ToL2, ToMem, FlipTypeOK, Attributes
  <2>5. CASE UNCHANGED fvars
    BY <2>5 DEF fvars, FlipTypeOK
  <2> QED BY <2>1, <2>2, <2>3, <2>4, <2>5 DEF FlipNext
<1> QED BY <1>1, <1>2, PTL DEF FlipSpec

LEMMA FlipInvStep ==
  ASSUME BothMultiple PROVE FlipTypeOK /\ FlipInv /\ [FlipNext]_fvars => FlipInv'
<1> SUFFICES ASSUME FlipTypeOK, FlipInv, [FlipNext]_fvars PROVE FlipInv'
  OBVIOUS
<1> USE FieldType DEF FlipTypeOK, FlipInv, Coherent, Attributes
<1>1. CASE Store
  <2>1. CASE Attribute = "cached"
    <3>1. /\ l1'.here /\ l1'.dirty /\ l1'.fresh /\ ~mem'
          /\ l2'.here = l2.here /\ l2'.dirty = l2.dirty /\ ~l2'.fresh
      <4>1. l1' = Copy(TRUE, TRUE) /\ l2' = Aged(l2) /\ mem' = FALSE
        BY <1>1, <2>1 DEF Store
      <4>2. Copy(TRUE, TRUE).here /\ Copy(TRUE, TRUE).dirty /\ Copy(TRUE, TRUE).fresh
        BY DEF Copy
      <4> QED BY <4>1, <4>2, AgedType
    <3>2. pte = "cached" /\ tlb' = "cached" /\ UNCHANGED <<step, pte>>
      BY <1>1, <2>1 DEF Store, Attribute
    <3> QED BY <1>1, <3>1, <3>2 DEF Store
  <2>2. CASE Attribute # "cached"
    <3>1. /\ l1'.dirty = l1.dirty /\ l2'.dirty = l2.dirty /\ mem'
          /\ l1'.here = l1.here /\ l2'.here = l2.here
      BY <1>1, <2>2, AgedType DEF Store
    <3>2. pte = "noncached" /\ tlb' # "cached" /\ UNCHANGED <<step, pte>>
      BY <1>1, <2>2 DEF Store, Attribute
    <3> QED BY <1>1, <3>1, <3>2 DEF Store
  <2> QED BY <2>1, <2>2
<1>2. CASE Load
  <2>1. l1' = l1 \/ (~l1.here /\ pte = "cached" /\ l1' = Copy(FALSE, Below))
    BY <1>2 DEF Load, Attribute
  <2>2. CASE l1' = l1
    BY <1>2, <2>2 DEF Load, Attribute
  <2>3. CASE ~l1.here /\ pte = "cached" /\ l1' = Copy(FALSE, Below)
    BY <1>2, <2>3, CopyType, BelowType DEF Load, Attribute, Below
  <2> QED BY <2>1, <2>2, <2>3
<1>3. CASE EvictL1
  <2>1. l1' = NoCopy /\ UNCHANGED <<step, pte, tlb, mem>>
    BY <1>3 DEF EvictL1, ToL2
  <2>2. CASE l1.dirty
    <3>1. l2' = l1
      BY <1>3, <2>2 DEF EvictL1, ToL2
    <3> QED BY <2>1, <2>2, <3>1, NoCopyType
  <2>3. CASE ~l1.dirty
    <3>1. l2' = l2
      BY <1>3, <2>3 DEF EvictL1, ToL2
    <3> QED BY <2>1, <2>3, <3>1, NoCopyType
  <2> QED BY <2>2, <2>3
<1>9. CASE EvictL2
  <2>1. l2' = NoCopy /\ UNCHANGED <<step, pte, tlb, l1>>
    BY <1>9 DEF EvictL2, ToMem
  <2>2. CASE l2.dirty
    <3>1. mem' = l2.fresh
      BY <1>9, <2>2 DEF EvictL2, ToMem
    <3> QED BY <2>1, <2>2, <3>1, NoCopyType
  <2>3. CASE ~l2.dirty
    <3>1. mem' = mem
      BY <1>9, <2>3 DEF EvictL2, ToMem
    <3> QED BY <2>1, <2>3, <3>1, NoCopyType
  <2> QED BY <2>2, <2>3
<1>4. CASE FillL1
  <2>1. /\ l1'.here /\ ~l1'.dirty /\ l1'.fresh = Below /\ ~l1.here
        /\ UNCHANGED <<step, pte, tlb, l2, mem>>
    BY <1>4 DEF FillL1, Copy
  <2> QED BY <2>1 DEF Below
<1>10. CASE FillL2
  <2>1. /\ l2'.here /\ ~l2'.dirty /\ l2'.fresh = mem /\ ~l2.here /\ ~l1.dirty
        /\ UNCHANGED <<step, pte, tlb, l1, mem>>
    BY <1>10 DEF FillL2, Copy
  <2> QED BY <2>1
<1>5. CASE WalkTable \/ EvictTlb
  BY <1>5 DEF WalkTable, EvictTlb
<1>6. CASE print_mem \/ set_pte_ext \/ flush_tlb_page
  BY <1>6 DEF print_mem, set_pte_ext, flush_tlb_page, After, BothMultiple
<1>7. CASE invalidate_page_l1 \/ invalidate_page_l2
  BY <1>7, NoCopyType
  DEF invalidate_page_l1, invalidate_page_l2, After, BothMultiple, ToL2, ToMem
<1>8. CASE UNCHANGED fvars
  BY <1>8 DEF fvars
<1> QED BY <1>1, <1>2, <1>3, <1>4, <1>5, <1>6, <1>7, <1>8, <1>9, <1>10
  DEF FlipNext, Hardware, Module

LEMMA FlipInvariant == ASSUME BothMultiple PROVE FlipSpec => [](FlipTypeOK /\ FlipInv)
<1>1. FlipInit => FlipInv
  BY NoCopyType DEF FlipInit, FlipInv, Coherent
<1> QED BY <1>1, FlipInvStep, TypeCorrect, PTL DEF FlipSpec

(* The program reads what it stored last (both_multiple.c:315-339).         *)
THEOREM NoStoreLost == ASSUME BothMultiple PROVE FlipSpec => []LoadsSeeLastStore
<1>1. FlipTypeOK /\ FlipInv => LoadsSeeLastStore
  BY FieldType DEF FlipTypeOK, FlipInv, Coherent, LoadsSeeLastStore, Visible, Attribute,
    Below, Attributes
<1> QED BY <1>1, FlipInvariant, PTL

(* A page made noncacheable is so for the program's next access             *)
(* (both_multiple.c:334-339).                                               *)
THEOREM TakesEffect == ASSUME BothMultiple PROVE FlipSpec => []ChangeTakesEffect
<1>1. FlipTypeOK /\ FlipInv => ChangeTakesEffect
  BY DEF FlipInv, ChangeTakesEffect
<1> QED BY <1>1, FlipInvariant, PTL

(* A cached copy never overwrites the memory of a noncacheable page         *)
(* (both_multiple.c:329-337).                                               *)
THEOREM NoWriteback == ASSUME BothMultiple PROVE FlipSpec => NoLateWriteback
<1>1. FlipTypeOK /\ FlipInv /\ [FlipNext]_fvars
        => [mem /\ ~mem' => Attribute = "cached" /\ step = "program"]_fvars
  <2> SUFFICES ASSUME FlipTypeOK, FlipInv, FlipNext, mem, ~mem'
               PROVE  Attribute = "cached" /\ step = "program"
    BY DEF fvars
  <2>1. CASE Store
    BY <2>1 DEF Store
  <2>2. CASE Load \/ EvictL1 \/ FillL1 \/ FillL2 \/ WalkTable \/ EvictTlb \/ print_mem
             \/ invalidate_page_l1 \/ set_pte_ext \/ flush_tlb_page
    BY <2>2 DEF Load, EvictL1, FillL1, FillL2, WalkTable, EvictTlb, print_mem,
      invalidate_page_l1, set_pte_ext, flush_tlb_page
  <2>3. ~l2.dirty
    BY DEF FlipTypeOK, Attributes, FlipInv, Coherent
  <2>4. CASE EvictL2 \/ invalidate_page_l2
    BY <2>3, <2>4 DEF EvictL2, invalidate_page_l2, ToMem
  <2> QED BY <2>1, <2>2, <2>4 DEF FlipNext, Hardware, Module
<1> QED BY <1>1, FlipInvariant, PTL DEF FlipSpec, NoLateWriteback
=============================================================================
