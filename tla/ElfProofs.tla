----------------------------- MODULE ElfProofs -----------------------------
(***************************************************************************)
(* The invariants of Elf that its run checks, for all files that linkers    *)
(* leave, profiles of any size and any order of the two tools.              *)
(***************************************************************************)
EXTENDS Elf, Iteration

(* The names that occur, and what a file and a disk are.                    *)
Words    == STRING \cup {".profile", ".old_shstrtab", ".shstrtab"}
Contents == [content : Int, strings : Seq(Words)]
Sections == Section(Seq(Words))
Disks    == [0..MaxFile -> Contents \X Nat]

FileType(f) ==
  /\ f \in [secs : Seq(Sections), shstrndx : Nat, shoff : Nat]
  /\ f.shstrndx \in DOMAIN f.secs

LEMMA SectionFields ==
  ASSUME NEW s \in Sections
  PROVE  /\ s.name \in Nat /\ s.off \in Nat /\ s.size \in Nat \ {0} /\ s.alloc \in BOOLEAN
         /\ s.data \in Contents
         /\ s.data.content \in Int /\ s.data.strings \in Seq(Words)
BY DEF Sections, Section, Contents

LEMMA SectionOf ==
  ASSUME NEW f, FileType(f), NEW i \in DOMAIN f.secs
  PROVE  f.secs[i] \in Sections /\ f.secs \in Seq(Sections) /\ DOMAIN f.secs = 1..Len(f.secs)
         /\ Len(f.secs) \in Nat \ {0} /\ f.shoff \in Nat
BY DEF FileType

-----------------------------------------------------------------------------
(* The disk.                                                                *)
LEMMA PlaceType ==
  ASSUME NEW d \in Disks, NEW what \in Contents, NEW off \in Nat, NEW size \in Nat
  PROVE  Place(d, what, off, size) \in Disks
<1>1. ASSUME NEW o \in 0..MaxFile
      PROVE  (IF off <= o /\ o < off + size THEN <<what, o - off>> ELSE d[o]) \in Contents \X Nat
  <2>1. CASE off <= o /\ o < off + size
    <3>1. o - off \in Nat  BY <2>1, SizesAssumption
    <3>2. QED BY <2>1, <3>1
  <2>2. CASE ~(off <= o /\ o < off + size)
    BY <2>2 DEF Disks
  <2>3. QED BY <2>1, <2>2
<1>2. QED BY <1>1 DEF Place, Disks

LEMMA PlaceHolds ==
  ASSUME NEW d, NEW what, NEW off \in Nat, NEW size \in Nat, off + size <= MaxFile
  PROVE  Holds(Place(d, what, off, size), what, off, size)
<1>1. ASSUME NEW k \in 0..(size - 1) PROVE Place(d, what, off, size)[off + k] = <<what, k>>
  <2>1. off + k \in 0..MaxFile /\ off <= off + k /\ off + k < off + size /\ (off + k) - off = k
    BY SizesAssumption
  <2>2. QED BY <2>1 DEF Place
<1>2. QED BY <1>1 DEF Holds

(* What is placed elsewhere leaves it.                                      *)
LEMMA PlaceKeeps ==
  ASSUME NEW d, NEW what, NEW off \in Nat, NEW size \in Nat,
         NEW other, NEW at \in Nat, NEW len \in Nat, at + len <= MaxFile,
         Holds(d, other, at, len), at + len <= off \/ off + size <= at
  PROVE  Holds(Place(d, what, off, size), other, at, len)
<1>1. ASSUME NEW k \in 0..(len - 1) PROVE Place(d, what, off, size)[at + k] = <<other, k>>
  <2>1. at + k \in 0..MaxFile /\ ~(off <= at + k /\ at + k < off + size)
    BY SizesAssumption
  <2>2. d[at + k] = <<other, k>>  BY DEF Holds
  <2>3. QED BY <2>1, <2>2 DEF Place
<1>2. QED BY <1>1 DEF Holds

LEMMA WrittenSteps ==
  ASSUME NEW d \in Disks, NEW f, FileType(f), NEW dirty \in Seq(DOMAIN f.secs)
  PROVE  /\ Written(d, f, dirty) \in [0..Len(dirty) -> Disks]
         /\ Written(d, f, dirty)[0] = d
         /\ \A k \in 1..Len(dirty) :
              LET s == f.secs[dirty[k]] IN
              Written(d, f, dirty)[k] = Place(Written(d, f, dirty)[k - 1], s.data, s.off, s.size)
<1> DEFINE n == Len(dirty)
           Step(e, k) == Place(e, f.secs[dirty[k]].data, f.secs[dirty[k]].off, f.secs[dirty[k]].size)
           Body(g) == [k \in 0..n |-> IF k = 0 THEN d ELSE Step(g[k - 1], k)]
           G == [p \in Disks \X (1..n) |-> Step(p[1], p[2])]
<1>1. n \in Nat /\ \A k \in 1..n : dirty[k] \in DOMAIN f.secs /\ k - 1 \in 0..n  OBVIOUS
<1>2. \A e \in Disks, k \in 1..n : Step(e, k) \in Disks
  <2> SUFFICES ASSUME NEW e \in Disks, NEW k \in 1..n PROVE Step(e, k) \in Disks  OBVIOUS
  <2>1. f.secs[dirty[k]] \in Sections  BY <1>1, SectionOf
  <2>2. QED BY <2>1, SectionFields, PlaceType
<1> HIDE DEF Step
<1>3. \A e \in Disks, k \in 1..n : G[<<e, k>>] = Step(e, k) /\ G[<<e, k>>] \in Disks
  BY <1>2
<1>4. \E g \in [0..n -> Disks] : g = Body(g)
  <2>1. PICK g \in [0..n -> Disks] : Runs(g, n, d, G)
    <3> HIDE DEF G, n
    <3>1. Stays(n, Disks, G)  BY <1>3 DEF Stays
    <3>2. QED BY <1>1, <3>1, Loop
  <2>2. \A k \in 1..n : g[k] = Step(g[k - 1], k)
    <3> HIDE DEF G, n
    <3>1. QED BY <1>1, <1>3, <2>1 DEF Runs
  <2>3. g = Body(g)
    <3> HIDE DEF n, G
    <3>1. g = [k \in 0..n |-> g[k]]  BY <2>1
    <3>2. \A k \in 0..n : g[k] = IF k = 0 THEN d ELSE Step(g[k - 1], k)
      <4>1. \A k \in 0..n : k # 0 => k \in 1..n  BY <1>1
      <4>2. QED BY <2>1, <2>2, <4>1 DEF Runs
    <3>3. QED BY <3>1, <3>2
  <2>4. QED BY <2>3
<1>5. Written(d, f, dirty) = CHOOSE g : g = Body(g)  BY DEF Written, Step
<1>6. Written(d, f, dirty) = Body(Written(d, f, dirty))
  <2> HIDE DEF Body
  <2>1. QED BY <1>4, <1>5
<1> DEFINE w == Written(d, f, dirty)
<1>7. w[0] = d /\ \A k \in 1..n : w[k] = Step(w[k - 1], k)
  <2>1. \A k \in 0..n : w[k] = IF k = 0 THEN d ELSE Step(w[k - 1], k)
    <3> HIDE DEF w, n
    <3>1. w = Body(w)  BY <1>6 DEF w, n
    <3>2. QED BY <3>1
  <2>2. QED BY <1>1, <2>1
<1>8. w \in [0..n -> Disks]
  <2>1. w = [k \in 0..n |-> w[k]]
    <3> HIDE DEF n
    <3>1. QED BY <1>6 DEF n
  <2>2. \A k \in 0..n : w[k] \in Disks
    <3> DEFINE T == {k \in 0..n : w[k] \in Disks}
    <3> HIDE DEF w, n
    <3>1. 0 \in T  BY <1>1, <1>7
    <3>2. ASSUME NEW k \in 0..(n - 1), k \in T PROVE k + 1 \in T
      <4>1. k + 1 \in 1..n /\ (k + 1) - 1 = k  BY <1>1, <3>2
      <4>2. QED BY <1>2, <1>7, <3>2, <4>1
    <3> HIDE DEF T
    <3>3. \A k \in 0..n : k \in T  BY <1>1, <3>1, <3>2, BoundedInduction
    <3>4. QED BY <3>3 DEF T
  <2> HIDE DEF w, n
  <2>3. QED BY <2>1, <2>2
<1>9. QED BY <1>7, <1>8 DEF Step

LEMMA HeadersType == Headers \in Contents /\ Free \in Contents
BY DEF Headers, Free, Content, Contents

LEMMA WriteType ==
  ASSUME NEW d \in Disks, NEW f, FileType(f), NEW dirty \in Seq(DOMAIN f.secs)
  PROVE  Write(d, f, dirty) \in Disks
<1>1. Written(d, f, dirty)[Len(dirty)] \in Disks  BY WrittenSteps
<1>2. f.shoff \in Nat /\ HeaderLen(f) \in Nat  BY DEF FileType, HeaderLen
<1>3. QED BY <1>1, <1>2, HeadersType, PlaceType DEF Write

(* Nothing lies on top of section i, and it is in the file.                 *)
Clear(f, i, dirty) ==
  LET s == f.secs[i] IN
  /\ s.off + s.size <= MaxFile
  /\ s.off + s.size <= f.shoff \/ f.shoff + HeaderLen(f) <= s.off
  /\ \A k \in DOMAIN dirty : dirty[k] # i =>
       \/ s.off + s.size <= f.secs[dirty[k]].off
       \/ f.secs[dirty[k]].off + f.secs[dirty[k]].size <= s.off

(* A section can be read back if it was written, or was there and is left.  *)
LEMMA WriteSection ==
  ASSUME NEW d \in Disks, NEW f, FileType(f), NEW dirty \in Seq(DOMAIN f.secs),
         NEW i \in DOMAIN f.secs, Clear(f, i, dirty),
         \/ Holds(d, f.secs[i].data, f.secs[i].off, f.secs[i].size)
         \/ \E k \in DOMAIN dirty : dirty[k] = i
  PROVE  Holds(Write(d, f, dirty), f.secs[i].data, f.secs[i].off, f.secs[i].size)
<1> DEFINE n == Len(dirty)
           s == f.secs[i]
           w == Written(d, f, dirty)
           Was(k) == Holds(d, s.data, s.off, s.size) \/ \E j \in 1..k : dirty[j] = i
           T == {k \in 0..n : Was(k) => Holds(w[k], s.data, s.off, s.size)}
<1>1. /\ n \in Nat /\ DOMAIN dirty = 1..n
      /\ s.off \in Nat /\ s.size \in Nat /\ s.off + s.size <= MaxFile
      /\ f.shoff \in Nat /\ HeaderLen(f) \in Nat
  BY SectionOf, SectionFields DEF Clear, HeaderLen
<1>2. w[0] = d /\ \A k \in 1..n :
        w[k] = Place(w[k - 1], f.secs[dirty[k]].data, f.secs[dirty[k]].off, f.secs[dirty[k]].size)
  BY WrittenSteps
<1>3. Was(n)  BY <1>1
<1> HIDE DEF w, n
<1>4. 0 \in T
  BY <1>1, <1>2
<1>5. ASSUME NEW k \in 0..(n - 1), k \in T PROVE k + 1 \in T
  <2> DEFINE t == f.secs[dirty[k + 1]]
  <2>1. k + 1 \in 1..n /\ (k + 1) - 1 = k /\ k + 1 \in 0..n  BY <1>1, <1>5
  <2>2. w[k + 1] = Place(w[k], t.data, t.off, t.size)  BY <1>2, <2>1
  <2>3. t.off \in Nat /\ t.size \in Nat
    <3>1. dirty[k + 1] \in DOMAIN f.secs  BY <1>1, <2>1
    <3>2. QED BY <3>1, SectionOf, SectionFields
  <2>4. CASE dirty[k + 1] = i
    <3>1. Holds(w[k + 1], s.data, s.off, s.size)  BY <1>1, <2>2, <2>4, PlaceHolds
    <3>2. QED BY <2>1, <3>1
  <2>5. CASE dirty[k + 1] # i
    <3>1. Was(k + 1) => Was(k)
      <4>1. \A j \in 1..(k + 1) : dirty[j] = i => j \in 1..k  BY <1>1, <1>5, <2>5
      <4>2. QED BY <4>1
    <3>2. s.off + s.size <= t.off \/ t.off + t.size <= s.off
      BY <1>1, <2>1, <2>5 DEF Clear
    <3> HIDE DEF s, t
    <3>3. Holds(w[k], s.data, s.off, s.size) => Holds(w[k + 1], s.data, s.off, s.size)
      BY <1>1, <2>2, <2>3, <3>2, PlaceKeeps
    <3>4. QED BY <1>5, <2>1, <3>1, <3>3
  <2>6. QED BY <2>4, <2>5
<1>6. \A k \in 0..n : k \in T
  <2> HIDE DEF T
  <2>1. QED BY <1>1, <1>4, <1>5, BoundedInduction
<1>7. Holds(w[n], s.data, s.off, s.size)
  <2>1. n \in 0..n  BY <1>1
  <2>2. QED BY <1>3, <1>6, <2>1
<1>8. s.off + s.size <= f.shoff \/ f.shoff + HeaderLen(f) <= s.off  BY DEF Clear
<1> HIDE DEF s
<1>9. Holds(Place(w[n], Headers, f.shoff, HeaderLen(f)), s.data, s.off, s.size)
  BY <1>1, <1>7, <1>8, PlaceKeeps
<1>10. QED BY <1>9 DEF Write, w, n, s

LEMMA WriteHeaders ==
  ASSUME NEW d, NEW f, FileType(f), NEW dirty, f.shoff + HeaderLen(f) <= MaxFile
  PROVE  Holds(Write(d, f, dirty), Headers, f.shoff, HeaderLen(f))
<1>1. f.shoff \in Nat /\ HeaderLen(f) \in Nat  BY DEF FileType, HeaderLen
<1>2. QED BY <1>1, PlaceHolds DEF Write

-----------------------------------------------------------------------------
(* The layout of libelf.                                                    *)
LEMMA EndsSteps ==
  ASSUME NEW f, FileType(f)
  PROVE  /\ Ends(f) \in [0..Len(f.secs) -> Nat] /\ Ends(f)[0] = FirstOffset
         /\ \A i \in 1..Len(f.secs) : Ends(f)[i] = Ends(f)[i - 1] + f.secs[i].size
<1> DEFINE n == Len(f.secs)
           Body(g) == [i \in 0..n |-> IF i = 0 THEN FirstOffset ELSE g[i - 1] + f.secs[i].size]
           G == [p \in Nat \X (1..n) |-> p[1] + f.secs[p[2]].size]
<1>1. n \in Nat /\ \A i \in 1..n : i - 1 \in 0..n /\ f.secs[i].size \in Nat
  <2>1. n \in Nat  BY DEF FileType
  <2>2. \A i \in 1..n : f.secs[i] \in Sections  BY DEF FileType
  <2>3. QED BY <2>1, <2>2, SectionFields
<1>2. \A e \in Nat, i \in 1..n : G[<<e, i>>] = e + f.secs[i].size /\ G[<<e, i>>] \in Nat
  BY <1>1
<1>3. \E g \in [0..n -> Nat] : g = Body(g)
  <2>1. PICK g \in [0..n -> Nat] : Runs(g, n, FirstOffset, G)
    <3> HIDE DEF G, n
    <3>1. Stays(n, Nat, G)  BY <1>2 DEF Stays
    <3>2. QED BY <1>1, <3>1, SizesAssumption, Loop
  <2>2. \A i \in 1..n : g[i] = g[i - 1] + f.secs[i].size
    <3> HIDE DEF G, n
    <3>1. QED BY <1>1, <1>2, <2>1 DEF Runs
  <2>3. g = Body(g)
    <3> HIDE DEF n, G
    <3>1. g = [i \in 0..n |-> g[i]]  BY <2>1
    <3>2. \A i \in 0..n : g[i] = IF i = 0 THEN FirstOffset ELSE g[i - 1] + f.secs[i].size
      <4>1. \A i \in 0..n : i # 0 => i \in 1..n  BY <1>1
      <4>2. QED BY <2>1, <2>2, <4>1 DEF Runs
    <3>3. QED BY <3>1, <3>2
  <2>4. QED BY <2>3
<1>4. Ends(f) = CHOOSE g : g = Body(g)  BY DEF Ends
<1>5. Ends(f) = Body(Ends(f))
  <2> HIDE DEF Body
  <2>1. QED BY <1>3, <1>4
<1> DEFINE e == Ends(f)
<1>6. e[0] = FirstOffset /\ \A i \in 1..n : e[i] = e[i - 1] + f.secs[i].size
  <2>1. \A i \in 0..n : e[i] = IF i = 0 THEN FirstOffset ELSE e[i - 1] + f.secs[i].size
    <3> HIDE DEF e, n
    <3>1. e = Body(e)  BY <1>5 DEF e, n
    <3>2. QED BY <3>1
  <2>2. QED BY <1>1, <2>1
<1>7. e \in [0..n -> Nat]
  <2>1. e = [i \in 0..n |-> e[i]]
    <3> HIDE DEF n
    <3>1. QED BY <1>5 DEF n
  <2>2. \A i \in 0..n : e[i] \in Nat
    <3> DEFINE T == {i \in 0..n : e[i] \in Nat}
    <3> HIDE DEF e, n
    <3>1. 0 \in T  BY <1>1, <1>6, SizesAssumption
    <3>2. ASSUME NEW i \in 0..(n - 1), i \in T PROVE i + 1 \in T
      <4>1. i + 1 \in 1..n /\ (i + 1) - 1 = i  BY <1>1, <3>2
      <4>2. QED BY <1>1, <1>6, <3>2, <4>1
    <3> HIDE DEF T
    <3>3. \A i \in 0..n : i \in T  BY <1>1, <3>1, <3>2, BoundedInduction
    <3>4. QED BY <3>3 DEF T
  <2> HIDE DEF e, n
  <2>3. QED BY <2>1, <2>2
<1>8. QED BY <1>6, <1>7

(* The sections follow each other.                                          *)
LEMMA EndsGrow ==
  ASSUME NEW f, FileType(f), NEW i \in 0..Len(f.secs), NEW j \in 0..Len(f.secs), i <= j
  PROVE  Ends(f)[i] <= Ends(f)[j]
<1> DEFINE n == Len(f.secs)
           e == Ends(f)
           T == {k \in 0..(n - i) : e[i] <= e[i + k]}
<1>1. /\ n \in Nat /\ e \in [0..n -> Nat]
      /\ \A k \in 1..n : e[k] = e[k - 1] + f.secs[k].size /\ f.secs[k].size \in Nat
  <2>1. \A k \in 1..n : f.secs[k] \in Sections  BY DEF FileType
  <2>2. n \in Nat  BY DEF FileType
  <2>3. QED BY <2>1, <2>2, EndsSteps, SectionFields
<1> HIDE DEF e, n
<1>2. i \in 0..n /\ j \in 0..n /\ n - i \in Nat  BY <1>1 DEF n
<1>3. 0 \in T  BY <1>1, <1>2
<1>4. ASSUME NEW k \in 0..((n - i) - 1), k \in T PROVE k + 1 \in T
  <2>1. i + (k + 1) \in 1..n /\ (i + (k + 1)) - 1 = i + k /\ i + k \in 0..n /\ k + 1 \in 0..(n - i)
    BY <1>1, <1>2, <1>4
  <2>2. e[i + (k + 1)] = e[i + k] + f.secs[i + (k + 1)].size /\ f.secs[i + (k + 1)].size \in Nat
    BY <1>1, <2>1
  <2>3. e[i] <= e[i + k] /\ e[i] \in Nat /\ e[i + k] \in Nat  BY <1>1, <1>2, <1>4, <2>1
  <2>4. e[i] <= e[i + (k + 1)]  BY <2>2, <2>3
  <2>5. QED BY <2>1, <2>4
<1>5. \A k \in 0..(n - i) : k \in T
  <2> HIDE DEF T
  <2>1. QED BY <1>2, <1>3, <1>4, BoundedInduction
<1>6. j - i \in 0..(n - i) /\ i + (j - i) = j  BY <1>1, <1>2
<1>7. QED BY <1>5, <1>6 DEF e

(* Sections of the same size have the same places.                          *)
LEMMA EndsAgree ==
  ASSUME NEW f, FileType(f), NEW g, FileType(g), NEW m \in Nat,
         m <= Len(f.secs), m <= Len(g.secs),
         \A i \in 1..m : f.secs[i].size = g.secs[i].size
  PROVE  \A i \in 0..m : Ends(f)[i] = Ends(g)[i]
<1> DEFINE e == Ends(f)
           d == Ends(g)
           T == {i \in 0..m : e[i] = d[i]}
<1>1. /\ e[0] = d[0]
      /\ \A i \in 1..m : e[i] = e[i - 1] + f.secs[i].size /\ d[i] = d[i - 1] + f.secs[i].size
  <2>1. Len(f.secs) \in Nat /\ Len(g.secs) \in Nat  BY DEF FileType
  <2>2. \A i \in 1..m : i \in 1..Len(f.secs) /\ i \in 1..Len(g.secs)  BY <2>1
  <2>3. QED BY <2>2, EndsSteps
<1> HIDE DEF e, d
<1>2. 0 \in T  BY <1>1
<1>3. ASSUME NEW i \in 0..(m - 1), i \in T PROVE i + 1 \in T
  <2>1. i + 1 \in 1..m /\ (i + 1) - 1 = i  BY <1>3
  <2>2. QED BY <1>1, <1>3, <2>1
<1>4. \A i \in 0..m : i \in T
  <2> HIDE DEF T
  <2>1. QED BY <1>2, <1>3, BoundedInduction
<1>5. QED BY <1>4 DEF e, d

LEMMA LaidShape ==
  ASSUME NEW f, FileType(f)
  PROVE  /\ FileType(Laid(f)) /\ Laid(f).shstrndx = f.shstrndx
         /\ Len(Laid(f).secs) = Len(f.secs) /\ DOMAIN Laid(f).secs = DOMAIN f.secs
         /\ Laid(f).shoff = Ends(f)[Len(f.secs)]
         /\ \A i \in DOMAIN f.secs :
              /\ Laid(f).secs[i].off = Ends(f)[i - 1]
              /\ Laid(f).secs[i].size = f.secs[i].size /\ Laid(f).secs[i].name = f.secs[i].name
              /\ Laid(f).secs[i].data = f.secs[i].data /\ Laid(f).secs[i].alloc = f.secs[i].alloc
<1> DEFINE n == Len(f.secs)
           secs == [i \in DOMAIN f.secs |-> [f.secs[i] EXCEPT !.off = Ends(f)[i - 1]]]
<1>1. /\ n \in Nat /\ DOMAIN f.secs = 1..n /\ n \in 0..n /\ Ends(f) \in [0..n -> Nat]
      /\ \A i \in 1..n : f.secs[i] \in Sections /\ i - 1 \in 0..n
  BY EndsSteps DEF FileType
<1>2. ASSUME NEW i \in 1..n
      PROVE  /\ secs[i] \in Sections /\ secs[i].off = Ends(f)[i - 1]
             /\ secs[i].size = f.secs[i].size /\ secs[i].name = f.secs[i].name
             /\ secs[i].data = f.secs[i].data /\ secs[i].alloc = f.secs[i].alloc
  <2>1. secs[i] = [f.secs[i] EXCEPT !.off = Ends(f)[i - 1]]  BY <1>1
  <2>2. f.secs[i] \in Sections /\ Ends(f)[i - 1] \in Nat  BY <1>1
  <2> HIDE DEF secs
  <2>3. QED BY <2>1, <2>2 DEF Sections, Section
<1>3. secs \in Seq(Sections) /\ Len(secs) = n /\ DOMAIN secs = 1..n
  <2>1. DOMAIN secs = 1..n  BY <1>1
  <2>2. secs = [i \in 1..n |-> secs[i]]  BY <1>1
  <2> HIDE DEF secs, n
  <2>3. QED BY <1>1, <1>2, <2>1, <2>2
<1>4. Laid(f) = [f EXCEPT !.secs = secs, !.shoff = Ends(f)[n]]  BY DEF Laid
<1> HIDE DEF secs
<1>5. Laid(f).secs = secs /\ Laid(f).shstrndx = f.shstrndx /\ Laid(f).shoff = Ends(f)[n]
      /\ Laid(f) \in [secs : Seq(Sections), shstrndx : Nat, shoff : Nat]
  <2>1. Ends(f)[n] \in Nat  BY <1>1
  <2> HIDE DEF n
  <2>2. QED BY <1>3, <1>4, <2>1 DEF FileType
<1>6. QED BY <1>1, <1>2, <1>3, <1>5 DEF FileType

-----------------------------------------------------------------------------
(* What the two tools make of the sections.                                 *)
LEMMA WordsIn == ".profile" \in Words /\ ".old_shstrtab" \in Words /\ ".shstrtab" \in Words
BY DEF Words

LEMMA GrownShape ==
  ASSUME NEW s \in Sections, NEW strings \in Seq(Words), NEW len \in Nat
  PROVE  LET g == Grown(s, strings, len) IN
         /\ g \in Sections /\ g.name = s.name /\ g.off = s.off /\ g.alloc = s.alloc
         /\ g.size = s.size + len /\ g.data.content = s.data.content
         /\ g.data.strings = s.data.strings \o strings
<1> DEFINE g == Grown(s, strings, len)
           both == s.data.strings \o strings
<1>1. s.size + len \in Nat \ {0} /\ both \in Seq(Words)
  <2>1. s.size \in Nat \ {0} /\ s.data.strings \in Seq(Words)  BY SectionFields
  <2>2. QED BY <2>1
<1>2. g = [s EXCEPT !.size = s.size + len, !.data = [s.data EXCEPT !.strings = both]]
  BY DEF Grown, Sections, Section
<1> HIDE DEF both, g
<1>3. [s.data EXCEPT !.strings = both] \in [content : Int, strings : Seq(Words)]
      /\ [s.data EXCEPT !.strings = both].content = s.data.content
      /\ [s.data EXCEPT !.strings = both].strings = both
  BY <1>1 DEF Sections, Section
<1>4. g \in Sections /\ g.name = s.name /\ g.off = s.off /\ g.alloc = s.alloc
      /\ g.size = s.size + len /\ g.data = [s.data EXCEPT !.strings = both]
  BY <1>1, <1>2, <1>3 DEF Sections, Section
<1>5. QED BY <1>3, <1>4 DEF g, both

LEMMA ProfileShape ==
  ASSUME NEW n \in Int, NEW size \in Nat \ {0}
  PROVE  LET p == Profile(n, size) IN
         /\ p \in Sections /\ p.name = 0 /\ p.off = 0 /\ p.size = size /\ p.alloc = FALSE
         /\ p.data = Content(n) /\ p.data.content = n
<1>1. << >> \in Seq(Words)  OBVIOUS
<1>2. QED BY <1>1 DEF Profile, Content, Sections, Section

(* The name table has grown, the other sections are as before.               *)
LEMMA NamedShape ==
  ASSUME NEW f, FileType(f)
  PROVE  LET g == add_section_name(f)
             x == f.shstrndx
             grown == Grown(f.secs[x], <<".profile">>, NameLen) IN
         /\ FileType(g) /\ Len(g.secs) = Len(f.secs) /\ DOMAIN g.secs = DOMAIN f.secs
         /\ g.shstrndx = x /\ g.shoff = f.shoff
         /\ g.secs \in Seq(Sections) /\ x \in DOMAIN f.secs
         /\ g \in [secs : Seq(Sections), shstrndx : Nat, shoff : Nat]
         /\ g.secs[x] = grown /\ \A i \in DOMAIN f.secs : i # x => g.secs[i] = f.secs[i]
         /\ grown \in Sections /\ grown.name = f.secs[x].name
         /\ grown.off = f.secs[x].off /\ grown.size = f.secs[x].size + NameLen
         /\ grown.data.strings = f.secs[x].data.strings \o <<".profile">>
<1> DEFINE x == f.shstrndx
           N == Len(f.secs)
           old == f.secs[x]
           grown == Grown(old, <<".profile">>, NameLen)
           g == add_section_name(f)
           secs == [f.secs EXCEPT ![x] = grown]
<1>1. /\ N \in Nat /\ DOMAIN f.secs = 1..N /\ x \in 1..N /\ old \in Sections
      /\ f \in [secs : Seq(Sections), shstrndx : Nat, shoff : Nat]
      /\ f.secs \in Seq(Sections)
  BY SectionOf DEF FileType
<1>2. /\ grown \in Sections /\ grown.data.strings = old.data.strings \o <<".profile">>
      /\ grown.name = old.name /\ grown.off = old.off /\ grown.size = old.size + NameLen
  <2>1. <<".profile">> \in Seq(Words)  BY WordsIn
  <2> DEFINE one == <<".profile">>
  <2>2. NameLen \in Nat /\ one \in Seq(Words)  BY <2>1, SizesAssumption
  <2> HIDE DEF old, one
  <2>3. /\ Grown(old, one, NameLen) \in Sections
        /\ Grown(old, one, NameLen).data.strings = old.data.strings \o one
        /\ Grown(old, one, NameLen).name = old.name /\ Grown(old, one, NameLen).off = old.off
        /\ Grown(old, one, NameLen).size = old.size + NameLen
    BY <1>1, <2>2, GrownShape
  <2>4. QED BY <2>3 DEF one
<1> HIDE DEF grown
<1>3. secs \in Seq(Sections) /\ Len(secs) = N /\ DOMAIN secs = 1..N
      /\ secs[x] = grown /\ \A i \in 1..N : i # x => secs[i] = f.secs[i]
  <2> HIDE DEF x, N
  <2>1. f.secs \in [1..N -> Sections]  BY <1>1
  <2>2. secs \in [1..N -> Sections] /\ secs[x] = grown
        /\ \A i \in 1..N : i # x => secs[i] = f.secs[i]
    BY <1>1, <1>2, <2>1
  <2>3. secs \in Seq(Sections) /\ Len(secs) = N /\ DOMAIN secs = 1..N
    <3> HIDE DEF secs
    <3>1. QED BY <1>1, <2>2
  <2>4. QED BY <2>2, <2>3
<1>4. g = [f EXCEPT !.secs = secs]
  BY <1>1 DEF add_section_name, grown
<1> HIDE DEF g, secs
<1>5. /\ g.secs = secs /\ g.shstrndx = x /\ g.shoff = f.shoff
      /\ g \in [secs : Seq(Sections), shstrndx : Nat, shoff : Nat]
  BY <1>1, <1>3, <1>4
<1>6. FileType(g)  BY <1>1, <1>3, <1>5 DEF FileType
<1>7. QED BY <1>1, <1>2, <1>3, <1>5, <1>6 DEF g, grown

(* One of the sections has the greatest offset.                             *)
LEMMA GreatestExists ==
  ASSUME NEW f, FileType(f)
  PROVE  \E i \in DOMAIN f.secs : \A j \in DOMAIN f.secs :
           \/ f.secs[j].off < f.secs[i].off
           \/ f.secs[j].off = f.secs[i].off /\ i <= j
<1> DEFINE n == Len(f.secs)
           off(i) == f.secs[i].off
           First(i, k) == \A j \in 1..k : off(j) < off(i) \/ (off(j) = off(i) /\ i <= j)
           T == {k \in 0..n : k > 0 => \E i \in 1..k : First(i, k)}
<1>1. n \in Nat \ {0} /\ DOMAIN f.secs = 1..n /\ \A i \in 1..n : off(i) \in Nat
  BY SectionOf, SectionFields DEF FileType
<1> HIDE DEF n, off
<1>2. 0 \in T  BY <1>1
<1>3. ASSUME NEW k \in 0..(n - 1), k \in T PROVE k + 1 \in T
  <2>1. k + 1 \in 1..n /\ k + 1 \in 0..n /\ k \in Nat  BY <1>1, <1>3
  <2>2. CASE k = 0
    <3>1. First(1, 1)  BY <1>1
    <3>2. QED BY <2>1, <2>2, <3>1
  <2>3. CASE k > 0
    <3>1. PICK i \in 1..k : First(i, k)  BY <1>3, <2>3
    <3>2. i \in 1..n /\ off(i) \in Nat /\ off(k + 1) \in Nat
          /\ \A j \in 1..k : off(j) \in Nat /\ j \in 1..n
      BY <1>1, <2>1
    <3>3. CASE off(k + 1) <= off(i)
      <4>1. First(i, k + 1)  BY <2>1, <3>1, <3>2, <3>3
      <4>2. QED BY <2>1, <4>1
    <3>4. CASE off(i) < off(k + 1)
      <4>1. First(k + 1, k + 1)  BY <2>1, <3>1, <3>2, <3>4
      <4>2. QED BY <2>1, <4>1
    <3>5. QED BY <3>2, <3>3, <3>4
  <2>4. QED BY <2>1, <2>2, <2>3
<1>4. \A k \in 0..n : k \in T
  <2> HIDE DEF T
  <2>1. QED BY <1>1, <1>2, <1>3, BoundedInduction
<1>5. \E i \in 1..n : First(i, n)
  <2>1. n \in 0..n /\ n > 0  BY <1>1
  <2>2. n \in T  BY <1>4, <2>1
  <2> HIDE DEF First
  <2>3. QED BY <2>1, <2>2
<1>6. QED BY <1>1, <1>5 DEF off

LEMMA ElfieShape ==
  ASSUME FileType(file), NEW n \in Int, NEW size \in Nat \ {0}
  PROVE  LET f == add_profile_section(n, size)
             N == Len(file.secs)
             old == file.secs[file.shstrndx] IN
         /\ FileType(f) /\ Len(f.secs) = N + 1 /\ f.shstrndx = file.shstrndx
         /\ f.shoff = file.shoff + size + NameLen
         /\ \A i \in 1..N : i # file.shstrndx => f.secs[i] = file.secs[i]
         /\ f.secs[file.shstrndx] = Grown(old, <<".profile">>, NameLen)
         /\ f.secs[N + 1].name = Len(old.data.strings) + 1
         /\ f.secs[N + 1].off = compute_section_offset(add_section_name(file))
         /\ f.secs[N + 1].size = size /\ f.secs[N + 1].data.content = n
<1> DEFINE N == Len(file.secs)
           x == file.shstrndx
           old == file.secs[x]
           grown == Grown(old, <<".profile">>, NameLen)
           f1 == add_section_name(file)
           off == compute_section_offset(f1)
           name == Len(NamesOf(f1).data.strings)
           p == Profile(n, size)
           f2 == add_section_payload(f1, n, size)
           f3 == update_section_header(f2, name, off)
           f == adjust_sec_table_offset(f3, size)
<1>1. /\ N \in Nat /\ DOMAIN file.secs = 1..N /\ x \in 1..N /\ old \in Sections
      /\ file \in [secs : Seq(Sections), shstrndx : Nat, shoff : Nat]
      /\ file.secs \in Seq(Sections)
  BY SectionOf DEF FileType
<1>2. p \in Sections /\ p.size = size /\ p.data.content = n  BY ProfileShape
<1>3. /\ f1 \in [secs : Seq(Sections), shstrndx : Nat, shoff : Nat]
      /\ f1.secs \in Seq(Sections) /\ FileType(f1) /\ Len(f1.secs) = N
      /\ f1.shstrndx = x /\ f1.shoff = file.shoff
      /\ grown.data.strings = old.data.strings \o <<".profile">>
  BY NamedShape
<1>4. old.data.strings \in Seq(Words)
  <2> HIDE DEF old
  <2>1. QED BY <1>1, SectionFields
<1>5. f1.secs[x] = grown /\ \A i \in 1..N : i # x => f1.secs[i] = file.secs[i]
  BY <1>1, NamedShape
<1> HIDE DEF grown, p
<1>6. name = Len(old.data.strings) + 1 /\ name \in Nat
  <2>1. NamesOf(f1) = grown  BY <1>3, <1>5 DEF NamesOf
  <2>2. name = Len(old.data.strings \o <<".profile">>)  BY <1>3, <2>1
  <2>3. Len(old.data.strings \o <<".profile">>) = Len(old.data.strings) + 1
        /\ Len(old.data.strings) \in Nat
    <3> HIDE DEF old
    <3>1. <<".profile">> \in Seq(Words) /\ Len(<<".profile">>) = 1  BY WordsIn
    <3>2. QED BY <1>4, <3>1
  <2> HIDE DEF old, name, f1
  <2>4. QED BY <2>2, <2>3
<1>7. off \in Nat
  <2> DEFINE Greatest == CHOOSE i \in DOMAIN f1.secs : \A j \in DOMAIN f1.secs :
                           \/ f1.secs[j].off < f1.secs[i].off
                           \/ f1.secs[j].off = f1.secs[i].off /\ i <= j
  <2>1. Greatest \in DOMAIN f1.secs
    <3> HIDE DEF f1
    <3>1. \E i \in DOMAIN f1.secs : \A j \in DOMAIN f1.secs :
            \/ f1.secs[j].off < f1.secs[i].off
            \/ f1.secs[j].off = f1.secs[i].off /\ i <= j
      <4>1. FileType(f1)  BY <1>3
      <4>2. QED BY <4>1, GreatestExists, Zenon
    <3>2. QED BY <3>1, Zenon
  <2>2. f1.secs[Greatest] \in Sections
    <3> HIDE DEF Greatest, f1
    <3>1. QED BY <1>3, <2>1, SectionOf
  <2>3. off = f1.secs[Greatest].off + f1.secs[Greatest].size
    BY DEF compute_section_offset, End
  <2> HIDE DEF Greatest, off, f1
  <2>4. f1.secs[Greatest].off \in Nat /\ f1.secs[Greatest].size \in Nat  BY <2>2, SectionFields
  <2>5. QED BY <2>3, <2>4
<1> DEFINE secs2 == Append(f1.secs, p)
           last3 == [p EXCEPT !.name = name, !.off = off]
           secs3 == [secs2 EXCEPT ![N + 1] = last3]
<1> HIDE DEF name, off
<1>8. /\ secs2 \in Seq(Sections) /\ Len(secs2) = N + 1 /\ DOMAIN secs2 = 1..(N + 1)
      /\ secs2[N + 1] = p /\ \A i \in 1..N : secs2[i] = f1.secs[i]
  <2> DEFINE s1 == f1.secs
  <2>1. s1 \in Seq(Sections) /\ Len(s1) = N  BY <1>3
  <2> HIDE DEF s1, N
  <2>2. /\ Append(s1, p) \in Seq(Sections) /\ Len(Append(s1, p)) = N + 1
        /\ DOMAIN Append(s1, p) = 1..(N + 1)
        /\ Append(s1, p)[N + 1] = p /\ \A i \in 1..N : Append(s1, p)[i] = s1[i]
    BY <1>1, <1>2, <2>1
  <2>3. QED BY <2>2 DEF s1
<1>9. /\ last3 \in Sections /\ last3.name = name /\ last3.off = off /\ last3.size = size
      /\ last3.data.content = n
  BY <1>2, <1>6, <1>7 DEF Sections, Section
<1> HIDE DEF secs2, last3
<1>10. /\ secs3 \in Seq(Sections) /\ Len(secs3) = N + 1 /\ DOMAIN secs3 = 1..(N + 1)
       /\ secs3[N + 1] = last3 /\ \A i \in 1..N : secs3[i] = f1.secs[i]
  <2> HIDE DEF f1
  <2>1. N + 1 \in 1..(N + 1) /\ \A i \in 1..N : i # N + 1 /\ i \in 1..(N + 1)  BY <1>1
  <2>2. QED BY <1>1, <1>8, <1>9, <2>1
<1>11. f = [f1 EXCEPT !.secs = secs3, !.shoff = file.shoff + size + NameLen]
  <2>1. f2 = [f1 EXCEPT !.secs = secs2] /\ f2.secs = secs2
    <3> HIDE DEF f1
    <3>1. QED BY <1>3 DEF add_section_payload, secs2, p, FileType
  <2>2. f3 = [f2 EXCEPT !.secs = secs3]
    <3> HIDE DEF f1, f2
    <3>1. f2.secs[Len(f2.secs)] = p /\ Len(f2.secs) = N + 1  BY <1>8, <2>1
    <3>2. QED BY <2>1, <3>1 DEF update_section_header, secs3, last3
  <2>3. f = [f3 EXCEPT !.shoff = f3.shoff + size + NameLen]  BY DEF adjust_sec_table_offset
  <2> HIDE DEF f1, f2, f3, secs3, f
  <2>4. f3 = [f1 EXCEPT !.secs = secs3]  BY <1>3, <2>1, <2>2 DEF FileType
  <2>5. f3.shoff = file.shoff  BY <1>3, <2>4 DEF FileType
  <2>6. QED BY <1>3, <2>3, <2>4, <2>5 DEF FileType
<1>12. /\ f.secs = secs3 /\ f.shoff = file.shoff + size + NameLen /\ f.shstrndx = x
       /\ f \in [secs : Seq(Sections), shstrndx : Nat, shoff : Nat]
  <2>1. file.shoff + size + NameLen \in Nat  BY <1>1, SizesAssumption
  <2> HIDE DEF f, f1, secs3
  <2>2. QED BY <1>3, <1>10, <1>11, <2>1 DEF FileType
<1>13. f = add_profile_section(n, size)  BY DEF add_profile_section, name, off
<1> HIDE DEF f, f1, secs3
<1>14. FileType(f) /\ Len(f.secs) = N + 1
  BY <1>1, <1>10, <1>12 DEF FileType
<1>15. \A i \in 1..N : i # x => f.secs[i] = file.secs[i]  BY <1>5, <1>10, <1>12
<1>16. f.secs[x] = grown  BY <1>1, <1>5, <1>10, <1>12
<1>17. f.secs[N + 1] = last3  BY <1>10, <1>12
<1>18. QED BY <1>6, <1>9, <1>12, <1>13, <1>14, <1>15, <1>16, <1>17 DEF grown, off, f1

(* Parts of a section, and two sections more.                               *)
LEMMA NameSet ==
  ASSUME NEW s \in Sections, NEW m \in Nat
  PROVE  LET r == [s EXCEPT !.name = m] IN
         /\ r \in Sections /\ r.name = m
         /\ r.off = s.off /\ r.size = s.size /\ r.alloc = s.alloc /\ r.data = s.data
BY DEF Sections, Section

LEMMA ContentSet ==
  ASSUME NEW s \in Sections, NEW n \in Int
  PROVE  LET r == [s EXCEPT !.data.content = n] IN
         /\ r \in Sections /\ r.data.content = n /\ r.data.strings = s.data.strings
         /\ r.name = s.name /\ r.off = s.off /\ r.size = s.size /\ r.alloc = s.alloc
BY DEF Sections, Section

LEMMA Joins ==
  ASSUME NEW a \in Seq(Words), NEW e \in Seq(Words)
  PROVE  /\ a \o e \in Seq(Words) /\ Len(a \o e) = Len(a) + Len(e)
         /\ \A i \in 1..Len(a) : (a \o e)[i] = a[i]
         /\ \A i \in 1..Len(e) : (a \o e)[Len(a) + i] = e[i]
OBVIOUS

LEMMA TwoMore ==
  ASSUME NEW a \in Seq(Sections), NEW b \in Sections, NEW c \in Sections
  PROVE  /\ a \o <<b, c>> \in Seq(Sections)
         /\ Len(a \o <<b, c>>) = Len(a) + 2 /\ DOMAIN (a \o <<b, c>>) = 1..(Len(a) + 2)
         /\ (a \o <<b, c>>)[Len(a) + 1] = b /\ (a \o <<b, c>>)[Len(a) + 2] = c
         /\ \A i \in 1..Len(a) : (a \o <<b, c>>)[i] = a[i]
<1>1. a \o <<b, c>> \in Seq(Sections)  OBVIOUS
<1>2. Len(a \o <<b, c>>) = Len(a) + 2  OBVIOUS
<1>3. (a \o <<b, c>>)[Len(a) + 1] = b /\ (a \o <<b, c>>)[Len(a) + 2] = c  OBVIOUS
<1>4. \A i \in 1..Len(a) : (a \o <<b, c>>)[i] = a[i]  OBVIOUS
<1>5. DOMAIN (a \o <<b, c>>) = 1..(Len(a) + 2)  BY <1>1, <1>2
<1>6. QED BY <1>1, <1>2, <1>3, <1>4, <1>5

(* elf_manipulator: the old name table is renamed, the new one is last.     *)
LEMMA AddsShape ==
  ASSUME FileType(file), NEW n \in Int, NEW size \in Nat \ {0}
  PROVE  LET N == Len(file.secs)
             g == setshstrndx(add_elf_sections(file, n, size), N + 2)
             x == file.shstrndx
             strings == file.secs[x].data.strings IN
         /\ FileType(g) /\ Len(g.secs) = N + 2 /\ g.shstrndx = N + 2
         /\ \A i \in 1..N : /\ g.secs[i].size = file.secs[i].size
                            /\ i # x => g.secs[i].name = file.secs[i].name
         /\ g.secs[x].name = Len(strings) + 2 /\ g.secs[N + 1].name = Len(strings) + 1
         /\ g.secs[N + 1].data.content = n
         /\ g.secs[N + 2].name = file.secs[x].name
         /\ g.secs[N + 2].data.strings = strings \o <<".profile", ".old_shstrtab">>
<1> DEFINE N == Len(file.secs)
           x == file.shstrndx
           old == file.secs[x]
           count == Len(old.data.strings)
           table == [old EXCEPT !.data.content = n]
           names == Grown(table, <<".profile", ".old_shstrtab">>, NameLen + OldNameLen)
           p == Profile(n, size)
           p2 == [p EXCEPT !.name = count + 1]
           other == [old EXCEPT !.name = count + 2]
           renamed == [file.secs EXCEPT ![x] = other]
           secs == renamed \o <<p2, names>>
           f == add_elf_sections(file, n, size)
           g == setshstrndx(f, N + 2)
<1>1. /\ N \in Nat /\ DOMAIN file.secs = 1..N /\ x \in 1..N /\ old \in Sections
      /\ file \in [secs : Seq(Sections), shstrndx : Nat, shoff : Nat]
      /\ file.secs \in Seq(Sections)
  BY SectionOf DEF FileType
<1>2. old.data.strings \in Seq(Words) /\ count \in Nat /\ count + 1 \in Nat /\ count + 2 \in Nat
      /\ N + 2 \in Nat
  <2>1. old.data.strings \in Seq(Words)  BY <1>1, SectionFields
  <2> DEFINE strings == old.data.strings
  <2>2. strings \in Seq(Words)  BY <2>1
  <2> HIDE DEF strings
  <2>3. Len(strings) \in Nat  BY <2>2
  <2>4. count = Len(strings)  BY DEF strings
  <2> HIDE DEF count, N
  <2>5. QED BY <1>1, <2>1, <2>3, <2>4
<1> HIDE DEF count
<1>3. table \in Sections /\ table.name = old.name /\ table.data.strings = old.data.strings
  <2> HIDE DEF old
  <2>1. QED BY <1>1, ContentSet
<1>4. /\ names \in Sections /\ names.name = old.name
      /\ names.data.strings = old.data.strings \o <<".profile", ".old_shstrtab">>
  <2>1. <<".profile", ".old_shstrtab">> \in Seq(Words) /\ NameLen + OldNameLen \in Nat
    BY WordsIn, SizesAssumption
  <2> DEFINE two == <<".profile", ".old_shstrtab">>
             len == NameLen + OldNameLen
  <2>2. names = Grown(table, two, len) /\ two \in Seq(Words) /\ len \in Nat  BY <2>1
  <2> HIDE DEF table, old, names, two, len
  <2>3. /\ names \in Sections /\ names.name = table.name
        /\ names.data.strings = table.data.strings \o two
    BY <1>3, <2>2, GrownShape
  <2>4. QED BY <1>3, <2>3 DEF two
<1>5. p2 \in Sections /\ p2.name = count + 1 /\ p2.data.content = n
  <2>1. p \in Sections /\ p.data.content = n  BY ProfileShape
  <2> HIDE DEF p
  <2>2. QED BY <1>2, <2>1, NameSet
<1>6. /\ other \in Sections /\ other.name = count + 2 /\ other.size = old.size
  <2> HIDE DEF old
  <2>1. QED BY <1>1, <1>2, NameSet
<1>7a. [file.secs EXCEPT ![x].name = count + 2] = renamed
  BY <1>1
<1> HIDE DEF names, p2, other
<1>7. /\ renamed \in Seq(Sections) /\ Len(renamed) = N /\ renamed[x] = other
      /\ \A i \in 1..N : i # x => renamed[i] = file.secs[i]
  BY <1>1, <1>6
<1> HIDE DEF renamed
<1>8. /\ secs \in Seq(Sections) /\ Len(secs) = N + 2 /\ DOMAIN secs = 1..(N + 2)
      /\ \A i \in 1..N : secs[i] = renamed[i]
      /\ secs[N + 1] = p2 /\ secs[N + 2] = names
  <2>1. secs = renamed \o <<p2, names>>  OBVIOUS
  <2>2. renamed \in Seq(Sections) /\ Len(renamed) = N /\ p2 \in Sections /\ names \in Sections
    BY <1>4, <1>5, <1>7
  <2>3. /\ secs \in Seq(Sections)
        /\ Len(secs) = Len(renamed) + 2 /\ DOMAIN secs = 1..(Len(renamed) + 2)
        /\ secs[Len(renamed) + 1] = p2 /\ secs[Len(renamed) + 2] = names
        /\ \A i \in 1..Len(renamed) : secs[i] = renamed[i]
    <3> HIDE DEF N
    <3>1. QED BY <2>2, TwoMore
  <2> HIDE DEF N, secs
  <2>4. QED BY <2>2, <2>3
<1>9. f = [file EXCEPT !.secs = secs]
  BY <1>7a DEF add_elf_sections, NamesOf, names, p2, count
<1> HIDE DEF secs, f
<1>10. /\ g.secs = secs /\ g.shstrndx = N + 2
       /\ g \in [secs : Seq(Sections), shstrndx : Nat, shoff : Nat]
  <2> HIDE DEF N
  <2>1. QED BY <1>1, <1>2, <1>8, <1>9 DEF setshstrndx
<1> HIDE DEF g
<1>11. FileType(g) /\ Len(g.secs) = N + 2  BY <1>1, <1>8, <1>10 DEF FileType
<1>12. \A i \in 1..N : /\ g.secs[i].size = file.secs[i].size
                       /\ i # x => g.secs[i].name = file.secs[i].name
  <2> SUFFICES ASSUME NEW i \in 1..N
               PROVE  /\ g.secs[i].size = file.secs[i].size
                      /\ i # x => g.secs[i].name = file.secs[i].name
    OBVIOUS
  <2>1. g.secs[i] = renamed[i]  BY <1>8, <1>10
  <2>2. CASE i = x  BY <1>6, <1>7, <2>1, <2>2
  <2>3. CASE i # x  BY <1>7, <2>1, <2>3
  <2>4. QED BY <2>2, <2>3
<1>13. g.secs[x] = other /\ g.secs[N + 1] = p2 /\ g.secs[N + 2] = names
  BY <1>1, <1>7, <1>8, <1>10
<1>14. QED BY <1>4, <1>5, <1>6, <1>10, <1>11, <1>12, <1>13 DEF f, g, count

LEMMA UpdateShape ==
  ASSUME FileType(file), NEW n \in Int, NEW size \in Nat \ {0}, NEW i \in DOMAIN file.secs
  PROVE  LET g == update_profile(file, n, i, size) IN
         /\ FileType(g) /\ Len(g.secs) = Len(file.secs) /\ g.shstrndx = file.shstrndx
         /\ \A j \in DOMAIN file.secs :
              /\ j # i => g.secs[j].size = file.secs[j].size
              /\ g.secs[j].name = file.secs[j].name
              /\ g.secs[j].data.strings = file.secs[j].data.strings
         /\ g.secs[i].data.content = n
<1> DEFINE N == Len(file.secs)
           s == [file.secs[i] EXCEPT !.size = size, !.data.content = n]
           secs == [file.secs EXCEPT ![i] = s]
           g == update_profile(file, n, i, size)
<1>1. /\ N \in Nat /\ DOMAIN file.secs = 1..N /\ i \in 1..N /\ file.secs[i] \in Sections
      /\ file \in [secs : Seq(Sections), shstrndx : Nat, shoff : Nat]
      /\ file.shstrndx \in 1..N
  BY SectionOf DEF FileType
<1>2. /\ s \in Sections /\ s.name = file.secs[i].name /\ s.data.content = n
      /\ s.data.strings = file.secs[i].data.strings
  BY <1>1 DEF Sections, Section
<1>3. g = [file EXCEPT !.secs = secs]
  BY <1>1 DEF update_profile, Sections, Section
<1> HIDE DEF s
<1>4. /\ secs \in Seq(Sections) /\ Len(secs) = N /\ DOMAIN secs = 1..N /\ secs[i] = s
      /\ \A j \in 1..N : j # i => secs[j] = file.secs[j]
  BY <1>1, <1>2
<1> HIDE DEF secs, g
<1>5. /\ g.secs = secs /\ g.shstrndx = file.shstrndx
      /\ g \in [secs : Seq(Sections), shstrndx : Nat, shoff : Nat]
  BY <1>1, <1>3, <1>4
<1>6. FileType(g)  BY <1>1, <1>4, <1>5 DEF FileType
<1>7. \A j \in 1..N : /\ j # i => g.secs[j].size = file.secs[j].size
                      /\ g.secs[j].name = file.secs[j].name
                      /\ g.secs[j].data.strings = file.secs[j].data.strings
  BY <1>2, <1>4, <1>5
<1>8. QED BY <1>1, <1>2, <1>4, <1>5, <1>6, <1>7 DEF g
-----------------------------------------------------------------------------
(* The inductive invariant.                                                 *)

(* What each section's header calls it.                                     *)
NamedBy(f, names) == \A i \in DOMAIN f.secs :
  /\ f.secs[i].name \in DOMAIN NamesOf(f).data.strings
  /\ NamesOf(f).data.strings[f.secs[i].name] = names[i]

(* What is loaded has its number and size, and the place that the linker or *)
(* libelf gives it; no profile is among it.                                 *)
LoadedKept ==
  /\ orig.shstrndx <= file.shstrndx
  /\ \A i \in 1..orig.shstrndx : named[i] # ".profile"
  /\ \A i \in 1..(orig.shstrndx - 1) : file.secs[i].size = orig.secs[i].size
  /\ \A i \in 1..orig.shstrndx :
       file.secs[i].off = IF laid THEN Ends(orig)[i - 1] ELSE orig.secs[i].off

Sound ==
  /\ FileType(file) /\ orig \in Files /\ runs \in Nat /\ disk \in Disks
  /\ laid \in BOOLEAN /\ inOrder \in BOOLEAN
  /\ named \in Seq(Words) /\ Len(named) = Len(file.secs)
  /\ NamedBy(file, named) /\ named[file.shstrndx] = ".shstrtab"
  /\ LoadedKept

Readable == inOrder => Whole(file, disk)

(* The files to begin with.                                                 *)
LEMMA SeqGrows ==
  ASSUME NEW A, NEW B, A \subseteq B
  PROVE  Seq(A) \subseteq Seq(B)
<1>1. SUFFICES ASSUME NEW s \in Seq(A) PROVE s \in Seq(B)  OBVIOUS
<1>2. s = [i \in 1..Len(s) |-> s[i]] /\ Len(s) \in Nat /\ \A i \in 1..Len(s) : s[i] \in B
  OBVIOUS
<1>3. QED BY <1>2

LEMMA StringsAreWords == Seq(STRING) \subseteq Seq(Words)
<1>1. STRING \subseteq Words  BY DEF Words
<1> DEFINE A == STRING
           B == Words
<1>2. A \subseteq B  BY <1>1
<1> HIDE DEF A, B
<1>3. Seq(A) \subseteq Seq(B)  BY <1>2, SeqGrows
<1>4. QED BY <1>3 DEF A, B

LEMMA FileOfFiles ==
  ASSUME NEW f \in Files
  PROVE  /\ FileType(f) /\ f.shstrndx \in 1..Len(f.secs)
         /\ \A i \in DOMAIN f.secs :
              LET s == f.secs[i]
                  strings == NamesOf(f).data.strings IN
              /\ s.name \in DOMAIN strings /\ strings[s.name] # ".profile"
              /\ i = f.shstrndx => strings[s.name] = ".shstrtab"
              /\ s.alloc => i <= f.shstrndx
              /\ s.off + s.size <= f.shoff \/ f.shoff + HeaderLen(f) <= s.off
              /\ s.off + s.size <= MaxFile
              /\ \A j \in DOMAIN f.secs \ {i} :
                   s.off + s.size <= f.secs[j].off \/ f.secs[j].off + f.secs[j].size <= s.off
         /\ f.shoff + HeaderLen(f) <= MaxFile
<1> DEFINE Plain == Section(Seq(STRING))
<1>1. /\ f \in [secs : Seq(Plain), shstrndx : DOMAIN f.secs, shoff : Nat]
      /\ \A i \in DOMAIN f.secs :
           LET s == f.secs[i]
               strings == f.secs[f.shstrndx].data.strings IN
           /\ s.name \in DOMAIN strings /\ strings[s.name] # ".profile"
           /\ i = f.shstrndx => strings[s.name] = ".shstrtab"
           /\ s.alloc => i <= f.shstrndx
           /\ s.off + s.size <= f.shoff \/ f.shoff + Len(f.secs) + 1 <= s.off
           /\ s.off + s.size <= MaxFile
           /\ \A j \in DOMAIN f.secs \ {i} :
                s.off + s.size <= f.secs[j].off \/ f.secs[j].off + f.secs[j].size <= s.off
      /\ f.shoff + Len(f.secs) + 1 <= MaxFile
  BY FilesAssumption
<1>2. Plain \subseteq Sections
  BY StringsAreWords DEF Section, Sections
<1> HIDE DEF Plain
<1>3. f.secs \in Seq(Plain) /\ f.shstrndx \in DOMAIN f.secs /\ f.shoff \in Nat
      /\ f = [secs |-> f.secs, shstrndx |-> f.shstrndx, shoff |-> f.shoff]
  BY <1>1
<1>4. f.secs \in Seq(Sections) /\ DOMAIN f.secs = 1..Len(f.secs) /\ Len(f.secs) \in Nat
  <2>1. f.secs \in Seq(Sections)  BY <1>2, <1>3, SeqGrows
  <2>2. QED BY <2>1
<1>5. FileType(f) /\ f.shstrndx \in 1..Len(f.secs)  BY <1>3, <1>4 DEF FileType
<1>6. f.shoff + HeaderLen(f) = f.shoff + Len(f.secs) + 1  BY <1>3, <1>4 DEF HeaderLen
<1>7. QED BY <1>1, <1>5, <1>6 DEF NamesOf

LEMMA AllOfType ==
  ASSUME NEW f, FileType(f)
  PROVE  /\ AllOf(f) \in Seq(DOMAIN f.secs) /\ DOMAIN AllOf(f) = DOMAIN f.secs
         /\ \A i \in DOMAIN f.secs : AllOf(f)[i] = i
BY DEF AllOf, FileType

(* All sections are written anew, clear of one another: all can be read.     *)
LEMMA AllWhole ==
  ASSUME NEW d \in Disks, NEW f, FileType(f), f.shoff + HeaderLen(f) <= MaxFile,
         \A i \in DOMAIN f.secs : Clear(f, i, AllOf(f))
  PROVE  Whole(f, Write(d, f, AllOf(f)))
<1> DEFINE e == Write(d, f, AllOf(f))
<1>1. Holds(e, Headers, f.shoff, HeaderLen(f))  BY WriteHeaders
<1>2. ASSUME NEW i \in DOMAIN f.secs
      PROVE  Holds(e, f.secs[i].data, f.secs[i].off, f.secs[i].size)
  <2>1. \E k \in DOMAIN AllOf(f) : AllOf(f)[k] = i  BY AllOfType
  <2>2. QED BY <2>1, AllOfType, WriteSection
<1> HIDE DEF e
<1>3. Whole(f, e)  BY <1>1, <1>2 DEF Whole, ToSet
<1>4. QED BY <1>3 DEF e

(* So it is as libelf lays them out.                                        *)
LEMMA LaidWhole ==
  ASSUME NEW d \in Disks, NEW f, FileType(f),
         Laid(f).shoff + HeaderLen(Laid(f)) <= MaxFile
  PROVE  Whole(Laid(f), Write(d, Laid(f), AllOf(Laid(f))))
<1> DEFINE g == Laid(f)
           n == Len(f.secs)
           e == Ends(f)
<1>1. /\ FileType(g) /\ Len(g.secs) = n /\ n \in Nat /\ DOMAIN g.secs = 1..n
      /\ g.shoff = e[n] /\ e \in [0..n -> Nat]
      /\ \A i \in 1..n : g.secs[i].off = e[i - 1] /\ g.secs[i].size = f.secs[i].size
  BY LaidShape, EndsSteps DEF FileType
<1>2. \A i \in 1..n : e[i] = e[i - 1] + f.secs[i].size  BY EndsSteps
<1>3. \A i, j \in 0..n : i <= j => e[i] <= e[j]  BY EndsGrow
<1> HIDE DEF e, g, n
<1>4. HeaderLen(g) \in Nat /\ e[n] + HeaderLen(g) <= MaxFile
  BY <1>1 DEF HeaderLen, g
<1>5. ASSUME NEW i \in DOMAIN g.secs PROVE Clear(g, i, AllOf(g))
  <2>1. i \in 1..n /\ i - 1 \in 0..n /\ i \in 0..n /\ n \in 0..n  BY <1>1
  <2>2. g.secs[i].off + g.secs[i].size = e[i] /\ e[i] <= e[n] /\ e[i] \in Nat /\ e[n] \in Nat
    BY <1>1, <1>2, <1>3, <2>1
  <2>3. ASSUME NEW j \in DOMAIN AllOf(g), AllOf(g)[j] # i
        PROVE  \/ e[i] <= g.secs[AllOf(g)[j]].off
               \/ g.secs[AllOf(g)[j]].off + g.secs[AllOf(g)[j]].size <= g.secs[i].off
    <3>1. AllOf(g)[j] = j /\ j \in 1..n /\ j # i  BY <1>1, <2>3, AllOfType
    <3>2. j - 1 \in 0..n /\ j \in 0..n /\ (j < i => j <= i - 1) /\ (i < j => i <= j - 1)
      BY <1>1, <2>1, <3>1
    <3>3. g.secs[j].off = e[j - 1] /\ g.secs[j].off + g.secs[j].size = e[j]
          /\ g.secs[i].off = e[i - 1]
      BY <1>1, <1>2, <2>1, <3>1
    <3>4. i < j \/ j < i  BY <2>1, <3>1
    <3>5. (i < j => e[i] <= e[j - 1]) /\ (j < i => e[j] <= e[i - 1])  BY <1>3, <2>1, <3>2
    <3>6. QED BY <3>1, <3>3, <3>4, <3>5
  <2>4. e[i] <= MaxFile  BY <1>4, <2>2, SizesAssumption
  <2>5. QED BY <1>1, <2>2, <2>3, <2>4 DEF Clear
<1>6. Whole(g, Write(d, g, AllOf(g)))  BY <1>1, <1>4, <1>5, AllWhole
<1>7. QED BY <1>6 DEF g

(* The name table, when it is last, has the greatest offset.                *)
LEMMA OffsetBehindNames ==
  ASSUME NEW f, FileType(f), NamesLast(f)
  PROVE  compute_section_offset(add_section_name(f)) = End(NamesOf(f)) + NameLen
<1> DEFINE x == f.shstrndx
           g == add_section_name(f)
           P(i) == \A j \in DOMAIN g.secs :
                     \/ g.secs[j].off < g.secs[i].off
                     \/ g.secs[j].off = g.secs[i].off /\ i <= j
           Greatest == CHOOSE i \in DOMAIN g.secs : P(i)
<1>1. /\ FileType(g) /\ DOMAIN g.secs = DOMAIN f.secs /\ x \in DOMAIN f.secs
      /\ g.secs[x].off = f.secs[x].off /\ g.secs[x].size = f.secs[x].size + NameLen
      /\ \A i \in DOMAIN f.secs : i # x => g.secs[i] = f.secs[i]
  BY NamedShape
<1>2. \A i \in DOMAIN f.secs : f.secs[i].off \in Nat /\ f.secs[i].size \in Nat \ {0}
  BY SectionOf, SectionFields
<1> HIDE DEF g
<1>3. \A i \in DOMAIN f.secs : i # x => g.secs[i].off < g.secs[x].off
  <2> SUFFICES ASSUME NEW i \in DOMAIN f.secs, i # x PROVE g.secs[i].off < g.secs[x].off
    OBVIOUS
  <2>1. f.secs[i].off + f.secs[i].size <= f.secs[x].off  BY DEF NamesLast, NamesOf, End
  <2>2. QED BY <1>1, <1>2, <2>1
<1>4. \E i \in DOMAIN g.secs : P(i)
  <2>1. QED BY <1>1, GreatestExists, Zenon
<1>5. Greatest \in DOMAIN g.secs /\ P(Greatest)
  <2> HIDE DEF P
  <2>1. QED BY <1>4, Zenon
<1> HIDE DEF Greatest
<1>6. Greatest = x
  <2>1. ASSUME Greatest # x PROVE FALSE
    <3>1. g.secs[Greatest].off < g.secs[x].off  BY <1>1, <1>3, <1>5, <2>1
    <3>2. g.secs[x].off < g.secs[Greatest].off \/ g.secs[x].off = g.secs[Greatest].off
      BY <1>1, <1>5
    <3>3. g.secs[x].off \in Nat /\ g.secs[Greatest].off \in Nat
      BY <1>1, <1>5, SectionOf, SectionFields
    <3>4. QED BY <3>1, <3>2, <3>3
  <2>2. QED BY <2>1
<1>7. compute_section_offset(g) = g.secs[x].off + g.secs[x].size
  <2>1. compute_section_offset(g) = End(g.secs[Greatest])
    BY DEF compute_section_offset, Greatest
  <2>2. QED BY <1>6, <2>1 DEF End
<1>8. QED BY <1>1, <1>2, <1>7, SizesAssumption DEF g, NamesOf, End

LEMMA InitSound == Init => Sound /\ Readable
<1> SUFFICES ASSUME Init PROVE Sound /\ Readable  OBVIOUS
<1> DEFINE free == [o \in 0..MaxFile |-> <<Free, 0>>]
           N == Len(file.secs)
<1>1. orig \in Files /\ file = orig /\ runs = 0 /\ inOrder = TRUE /\ laid = FALSE
      /\ named = [i \in DOMAIN orig.secs |-> NamesOf(orig).data.strings[orig.secs[i].name]]
  BY DEF Init
<1>2. FileType(file) /\ DOMAIN file.secs = 1..N /\ N \in Nat /\ file.shstrndx \in 1..N
  BY <1>1, FileOfFiles, SectionOf
<1>3. disk = Write(free, file, AllOf(file))
  BY <1>1 DEF Init, AllOf
<1>4. free \in Disks  BY HeadersType DEF Disks
<1>5. disk \in Disks  BY <1>2, <1>3, <1>4, AllOfType, WriteType
<1>6. ASSUME NEW i \in DOMAIN file.secs PROVE Clear(file, i, AllOf(file))
  <2>1. /\ file.secs[i].off + file.secs[i].size <= MaxFile
        /\ \/ file.secs[i].off + file.secs[i].size <= file.shoff
           \/ file.shoff + HeaderLen(file) <= file.secs[i].off
        /\ \A j \in DOMAIN file.secs \ {i} :
             \/ file.secs[i].off + file.secs[i].size <= file.secs[j].off
             \/ file.secs[j].off + file.secs[j].size <= file.secs[i].off
    BY <1>1, FileOfFiles
  <2>2. \A k \in DOMAIN AllOf(file) : AllOf(file)[k] # i => AllOf(file)[k] \in DOMAIN file.secs \ {i}
    BY <1>2, AllOfType
  <2>3. QED BY <2>1, <2>2 DEF Clear
<1>7. file.shoff + HeaderLen(file) <= MaxFile  BY <1>1, FileOfFiles
<1> HIDE DEF free
<1>8. Whole(file, disk)  BY <1>2, <1>3, <1>4, <1>6, <1>7, AllWhole
<1>9. ASSUME NEW i \in DOMAIN file.secs
      PROVE  /\ file.secs[i].name \in DOMAIN NamesOf(file).data.strings
             /\ NamesOf(file).data.strings[file.secs[i].name] = named[i]
             /\ named[i] \in Words /\ named[i] # ".profile"
             /\ i = file.shstrndx => named[i] = ".shstrtab"
  <2>1. /\ file.secs[i].name \in DOMAIN NamesOf(file).data.strings
        /\ NamesOf(file).data.strings[file.secs[i].name] # ".profile"
        /\ i = file.shstrndx => NamesOf(file).data.strings[file.secs[i].name] = ".shstrtab"
    BY <1>1, FileOfFiles
  <2>2. named[i] = NamesOf(file).data.strings[file.secs[i].name]  BY <1>1
  <2>3. NamesOf(file).data.strings \in Seq(Words)  BY <1>2, SectionOf, SectionFields DEF NamesOf
  <2>4. QED BY <2>1, <2>2, <2>3
<1>10. named \in Seq(Words) /\ Len(named) = Len(file.secs)
  <2>1. DOMAIN named = 1..N  BY <1>1, <1>2
  <2>2. named = [i \in 1..N |-> named[i]]  BY <1>1, <1>2
  <2>3. \A i \in 1..N : named[i] \in Words  BY <1>2, <1>9
  <2> HIDE DEF N
  <2>4. named \in Seq(Words) /\ Len(named) = N  BY <1>2, <2>1, <2>2, <2>3
  <2>5. QED BY <2>4 DEF N
<1>11. LoadedKept
  <2>1. orig.shstrndx <= file.shstrndx  BY <1>1, <1>2
  <2>2. \A i \in 1..orig.shstrndx : i \in DOMAIN file.secs  BY <1>1, <1>2
  <2>3. QED BY <1>1, <1>9, <2>1, <2>2 DEF LoadedKept
<1>12. QED BY <1>1, <1>2, <1>5, <1>8, <1>9, <1>10, <1>11 DEF Sound, Readable, NamedBy

(* The names that are read are those that the sections are to have.         *)
LEMMA NamesRead ==
  ASSUME Sound, Whole(file, disk), NEW i \in DOMAIN file.secs
  PROVE  elf_strptr(file, disk, i) = named[i]
<1>1. Holds(disk, NamesOf(file).data, NamesOf(file).off, NamesOf(file).size)
  <2>1. file.shstrndx \in DOMAIN file.secs  BY DEF Sound, FileType
  <2>2. QED BY <2>1 DEF Whole, NamesOf, ToSet
<1>2. QED BY <1>1 DEF elf_strptr, Sound, NamedBy

LEMMA ProfiledIsFirst ==
  ASSUME Sound, Whole(file, disk)
  PROVE  /\ is_profiled(file, disk) = 0 => \A i \in DOMAIN file.secs : named[i] # ".profile"
         /\ is_profiled(file, disk) # 0 =>
              /\ is_profiled(file, disk) \in DOMAIN file.secs
              /\ named[is_profiled(file, disk)] = ".profile"
              /\ \A j \in 1..(is_profiled(file, disk) - 1) : named[j] # ".profile"
<1> DEFINE found == {i \in DOMAIN file.secs : elf_strptr(file, disk, i) = ".profile"}
           least == CHOOSE i \in found : \A j \in found : i <= j
<1>1. found = {i \in DOMAIN file.secs : named[i] = ".profile"}  BY NamesRead
<1>2. DOMAIN file.secs = 1..Len(file.secs) /\ Len(file.secs) \in Nat
  BY SectionOf DEF Sound, FileType
<1>3. is_profiled(file, disk) = IF found = {} THEN 0 ELSE least  BY DEF is_profiled
<1> HIDE DEF found
<1>4. CASE found = {}
  <2>1. QED BY <1>1, <1>3, <1>4
<1>5. CASE found # {}
  <2>1. found \subseteq Nat  BY <1>1, <1>2
  <2>2. \E i \in found : \A j \in found : i <= j  BY <1>5, <2>1, Least
  <2>3. least \in found /\ \A j \in found : least <= j  BY <2>2, Zenon
  <2> HIDE DEF least
  <2>4. is_profiled(file, disk) = least  BY <1>3, <1>5
  <2>5. \A j \in 1..(least - 1) : j \notin found /\ j \in DOMAIN file.secs
    <3>1. least \in 1..Len(file.secs)  BY <1>1, <1>2, <2>3
    <3>2. \A j \in 1..(least - 1) : j \in 1..Len(file.secs) /\ ~(least <= j)  BY <1>2, <3>1
    <3>3. QED BY <1>2, <2>3, <3>2
  <2>6. least # 0 /\ least \in DOMAIN file.secs  BY <1>1, <1>2, <2>3
  <2>7. QED BY <1>1, <2>3, <2>4, <2>5, <2>6
<1>6. QED BY <1>4, <1>5

(* Whatever elf_manipulator has made of the sections, libelf lays them out,  *)
(* with what is loaded by the sizes it had from the beginning.              *)
LEMMA LaidOut ==
  ASSUME Sound, NEW g, FileType(g), elf_update(Laid(g)),
         named' \in Seq(Words), Len(named') = Len(g.secs), NamedBy(g, named'),
         named'[g.shstrndx] = ".shstrtab", orig.shstrndx <= g.shstrndx,
         \A i \in 1..orig.shstrndx : named'[i] # ".profile",
         \A i \in 1..(orig.shstrndx - 1) : g.secs[i].size = orig.secs[i].size,
         runs' \in Nat, orig' = orig, laid' = TRUE, inOrder' = inOrder
  PROVE  Sound' /\ Whole(file, disk)' /\ file' = Laid(g)
<1> DEFINE f == Laid(g)
           N == Len(g.secs)
<1>1. /\ FileType(f) /\ f.shstrndx = g.shstrndx /\ Len(f.secs) = N
      /\ DOMAIN f.secs = DOMAIN g.secs /\ DOMAIN g.secs = 1..N
      /\ \A i \in DOMAIN g.secs :
           /\ f.secs[i].off = Ends(g)[i - 1]
           /\ f.secs[i].size = g.secs[i].size /\ f.secs[i].name = g.secs[i].name
           /\ f.secs[i].data = g.secs[i].data
  BY LaidShape, SectionOf
<1>2. disk \in Disks  BY DEF Sound
<1>3. f.shoff + HeaderLen(f) <= MaxFile /\ file' = f /\ disk' = Write(disk, f, AllOf(f))
  BY DEF elf_update
<1>4. Whole(f, disk')  BY <1>2, <1>3, LaidWhole
<1>5. disk' \in Disks  BY <1>1, <1>2, <1>3, AllOfType, WriteType
<1>6. orig \in Files /\ FileType(orig) /\ orig.shstrndx \in 1..Len(orig.secs)
      /\ orig.shstrndx \in Nat \ {0} /\ Len(orig.secs) \in Nat
  <2>1. orig \in Files  BY DEF Sound
  <2>2. QED BY <2>1, FileOfFiles, SectionOf
<1>7. g.shstrndx \in 1..N /\ N \in Nat  BY <1>1, SectionOf DEF FileType
<1> HIDE DEF f
<1>8. NamesOf(f).data = NamesOf(g).data  BY <1>1, <1>7 DEF NamesOf
<1>9. NamedBy(f, named')  BY <1>1, <1>8 DEF NamedBy
<1>10. \A i \in 1..orig.shstrndx : f.secs[i].off = Ends(orig)[i - 1]
  <2> DEFINE m == orig.shstrndx - 1
  <2>1. m \in Nat /\ m <= N /\ m <= Len(orig.secs)  BY <1>6, <1>7
  <2>2. \A i \in 1..m : orig.secs[i].size = g.secs[i].size  OBVIOUS
  <2>3. \A i \in 1..orig.shstrndx : i - 1 \in 0..m /\ i \in DOMAIN g.secs  BY <1>1, <1>6, <1>7
  <2> HIDE DEF m, N
  <2>4. \A i \in 0..m : Ends(orig)[i] = Ends(g)[i]
    <3>1. m <= Len(g.secs)  BY <2>1 DEF N
    <3>2. FileType(orig)  BY <1>6
    <3>3. QED BY <2>1, <2>2, <3>1, <3>2, EndsAgree
  <2>5. QED BY <1>1, <2>3, <2>4
<1>11. \A i \in 1..(orig.shstrndx - 1) : f.secs[i].size = orig.secs[i].size
  <2>1. \A i \in 1..(orig.shstrndx - 1) : i \in DOMAIN g.secs  BY <1>1, <1>6, <1>7
  <2>2. QED BY <1>1, <2>1
<1>12. LoadedKept'  BY <1>1, <1>3, <1>10, <1>11 DEF LoadedKept
<1>13. inOrder \in BOOLEAN  BY DEF Sound
<1>14. Sound'
  BY <1>1, <1>3, <1>5, <1>6, <1>9, <1>12, <1>13 DEF Sound
<1>15. QED BY <1>3, <1>4, <1>14 DEF f

LEMMA AddsSound ==
  ASSUME Sound, Whole(file, disk), NEW size \in Nat \ {0}, runs' \in Nat,
         Adds(size), laid' = TRUE, inOrder' = inOrder
  PROVE  Sound' /\ Whole(file, disk)' /\ FirstProfileGiven'
<1> DEFINE N == Len(file.secs)
           x == file.shstrndx
           strings == file.secs[x].data.strings
           g == setshstrndx(add_elf_sections(file, runs', size), N + 2)
           two == <<".profile", ".shstrtab">>
           kept == [named EXCEPT ![x] = ".old_shstrtab"]
<1>1. /\ is_profiled(file, disk) = 0 /\ elf_update(Laid(g))
      /\ named' = kept \o two /\ orig' = orig
      /\ last' = [tool |-> "manipulator", end |-> "ok", given |-> runs']
  BY DEF Adds, Given
<1>2. /\ FileType(file) /\ N \in Nat \ {0} /\ DOMAIN file.secs = 1..N /\ x \in 1..N
      /\ strings \in Seq(Words)
  <2>1. FileType(file)  BY DEF Sound
  <2>2. x \in DOMAIN file.secs  BY <2>1 DEF FileType
  <2>3. QED BY <2>1, <2>2, SectionOf, SectionFields
<1>3. runs' \in Int  OBVIOUS
<1>4. /\ FileType(g) /\ Len(g.secs) = N + 2 /\ g.shstrndx = N + 2
      /\ \A i \in 1..N : /\ g.secs[i].size = file.secs[i].size
                         /\ i # x => g.secs[i].name = file.secs[i].name
      /\ g.secs[x].name = Len(strings) + 2 /\ g.secs[N + 1].name = Len(strings) + 1
      /\ g.secs[N + 1].data.content = runs'
      /\ g.secs[N + 2].name = file.secs[x].name
      /\ g.secs[N + 2].data.strings = strings \o <<".profile", ".old_shstrtab">>
  BY <1>2, <1>3, AddsShape
<1> HIDE DEF g
<1>5. named \in Seq(Words) /\ Len(named) = N /\ named[x] = ".shstrtab"
      /\ NamedBy(file, named) /\ \A i \in 1..N : named[i] # ".profile"
  BY <1>1, <1>2, ProfiledIsFirst DEF Sound
<1>6. kept \in Seq(Words) /\ Len(kept) = N /\ kept[x] = ".old_shstrtab"
      /\ \A i \in 1..N : i # x => kept[i] = named[i]
  <2>1. ".old_shstrtab" \in Words  BY WordsIn
  <2> HIDE DEF N, x
  <2>2. QED BY <1>2, <1>5, <2>1
<1>7. two \in Seq(Words) /\ Len(two) = 2 /\ two[1] = ".profile" /\ two[2] = ".shstrtab"
  BY WordsIn
<1>8. /\ named' \in Seq(Words) /\ Len(named') = N + 2 /\ DOMAIN named' = 1..(N + 2)
      /\ named'[N + 1] = ".profile" /\ named'[N + 2] = ".shstrtab"
      /\ named'[x] = ".old_shstrtab" /\ \A i \in 1..N : i # x => named'[i] = named[i]
  <2> HIDE DEF kept, two, N, x
  <2>1. /\ kept \o two \in Seq(Words) /\ Len(kept \o two) = Len(kept) + Len(two)
        /\ \A i \in 1..Len(kept) : (kept \o two)[i] = kept[i]
        /\ \A i \in 1..Len(two) : (kept \o two)[Len(kept) + i] = two[i]
    BY <1>6, <1>7, Joins
  <2>2. /\ (kept \o two)[N + 1] = two[1] /\ (kept \o two)[N + 2] = two[2]
    <3>1. 1 \in 1..Len(two) /\ 2 \in 1..Len(two)  BY <1>7
    <3>2. QED BY <1>6, <2>1, <3>1
  <2>3. DOMAIN (kept \o two) = 1..(N + 2)  BY <1>6, <1>7, <2>1
  <2>4. QED BY <1>1, <1>2, <1>6, <1>7, <2>1, <2>2, <2>3
<1> HIDE DEF two, kept
<1>9. NamedBy(g, named')
  <2> DEFINE more == <<".profile", ".old_shstrtab">>
             longer == strings \o more
             m == Len(strings)
  <2>1. more \in Seq(Words) /\ Len(more) = 2 /\ more[1] = ".profile"
        /\ more[2] = ".old_shstrtab"
    BY WordsIn
  <2>2. NamesOf(g).data.strings = longer  BY <1>4 DEF NamesOf
  <2>3. m \in Nat /\ DOMAIN strings = 1..m
    <3> HIDE DEF strings
    <3>1. QED BY <1>2
  <2>4. /\ DOMAIN longer = 1..(m + 2) /\ longer[m + 1] = ".profile"
        /\ longer[m + 2] = ".old_shstrtab" /\ \A i \in 1..m : longer[i] = strings[i]
    <3> HIDE DEF strings, more
    <3>1. /\ strings \o more \in Seq(Words) /\ Len(strings \o more) = Len(strings) + Len(more)
          /\ \A i \in 1..Len(strings) : (strings \o more)[i] = strings[i]
          /\ \A i \in 1..Len(more) : (strings \o more)[Len(strings) + i] = more[i]
      BY <1>2, <2>1, Joins
    <3>2. (strings \o more)[m + 1] = more[1] /\ (strings \o more)[m + 2] = more[2]
      <4>1. 1 \in 1..Len(more) /\ 2 \in 1..Len(more)  BY <2>1
      <4>2. QED BY <3>1, <4>1
    <3>3. DOMAIN (strings \o more) = 1..(m + 2)  BY <2>1, <2>3, <3>1
    <3>4. QED BY <2>1, <3>1, <3>2, <3>3
  <2>5. \A i \in 1..N : file.secs[i].name \in 1..m /\ strings[file.secs[i].name] = named[i]
    BY <1>2, <1>5, <2>3 DEF NamedBy, NamesOf
  <2>6. DOMAIN g.secs = 1..(N + 2)
    <3>1. FileType(g) /\ Len(g.secs) = N + 2  BY <1>4
    <3>2. g.secs \in Seq(Sections)  BY <3>1 DEF FileType
    <3>3. DOMAIN g.secs = 1..Len(g.secs)  BY <3>2
    <3>4. QED BY <3>1, <3>3
  <2> HIDE DEF longer, m, strings, N, x
  <2>7. ASSUME NEW i \in 1..(N + 2)
        PROVE  g.secs[i].name \in DOMAIN longer /\ longer[g.secs[i].name] = named'[i]
    <3>1. \A j \in 1..m : j \in 1..(m + 2)  BY <2>3
    <3>2. m + 1 \in 1..(m + 2) /\ m + 2 \in 1..(m + 2)  BY <2>3
    <3>3. CASE i \in 1..N /\ i # x
      <4>1. g.secs[i].name = file.secs[i].name /\ named'[i] = named[i]  BY <1>4, <1>8, <3>3
      <4>2. QED BY <2>4, <2>5, <3>1, <3>3, <4>1
    <3>4. CASE i = x
      <4>1. g.secs[i].name = m + 2  BY <1>4, <3>4 DEF m
      <4>2. QED BY <1>8, <2>4, <3>2, <3>4, <4>1
    <3>5. CASE i = N + 1
      <4>1. g.secs[i].name = m + 1  BY <1>4, <3>5 DEF m
      <4>2. QED BY <1>8, <2>4, <3>2, <3>5, <4>1
    <3>6. CASE i = N + 2
      <4>1. g.secs[i].name = file.secs[x].name  BY <1>4, <3>6
      <4>2. named'[i] = named[x]  BY <1>5, <1>8, <3>6
      <4>3. QED BY <1>2, <2>4, <2>5, <3>1, <4>1, <4>2
    <3>7. i \in 1..N \/ i = N + 1 \/ i = N + 2  BY <1>2
    <3>8. QED BY <3>3, <3>4, <3>5, <3>6, <3>7
  <2>8. QED BY <2>2, <2>6, <2>7 DEF NamedBy
<1>10. /\ orig.shstrndx \in Nat /\ orig.shstrndx <= x
       /\ \A i \in 1..(orig.shstrndx - 1) : file.secs[i].size = orig.secs[i].size
  <2>1. orig \in Files  BY DEF Sound
  <2>2. orig.shstrndx \in Nat  BY <2>1, FileOfFiles DEF FileType
  <2>3. QED BY <2>2 DEF Sound, LoadedKept
<1> HIDE DEF N, x, strings
<1>11. \A i \in 1..orig.shstrndx : named'[i] # ".profile"
  <2> SUFFICES ASSUME NEW i \in 1..orig.shstrndx PROVE named'[i] # ".profile"  OBVIOUS
  <2>1. i \in 1..N  BY <1>2, <1>10
  <2>2. CASE i = x  BY <1>8, <2>2
  <2>3. CASE i # x  BY <1>5, <1>8, <2>1, <2>3
  <2>4. QED BY <2>2, <2>3
<1>12. \A i \in 1..(orig.shstrndx - 1) : g.secs[i].size = orig.secs[i].size
  <2>1. \A i \in 1..(orig.shstrndx - 1) : i \in 1..N  BY <1>2, <1>10
  <2>2. QED BY <1>4, <1>10, <2>1
<1>13. orig.shstrndx <= g.shstrndx  BY <1>2, <1>4, <1>10
<1>14. named'[g.shstrndx] = ".shstrtab" /\ Len(named') = Len(g.secs)  BY <1>4, <1>8
<1>15. Sound' /\ Whole(file, disk)' /\ file' = Laid(g)
  BY <1>1, <1>4, <1>8, <1>9, <1>11, <1>12, <1>13, <1>14, LaidOut
<1>16. FirstProfileGiven'
  <2>1. N + 1 \in DOMAIN named' /\ N + 1 \in DOMAIN g.secs  BY <1>2, <1>4, <1>8, SectionOf
  <2>2. file'.secs[N + 1].data.content = runs'  BY <1>4, <1>15, <2>1, LaidShape
  <2>3. \A j \in 1..((N + 1) - 1) : named'[j] # ".profile"
    <3> SUFFICES ASSUME NEW j \in 1..((N + 1) - 1) PROVE named'[j] # ".profile"  OBVIOUS
    <3>1. j \in 1..N  BY <1>2
    <3>2. CASE j = x  BY <1>8, <3>2
    <3>3. CASE j # x  BY <1>5, <1>8, <3>1, <3>3
    <3>4. QED BY <3>2, <3>3
  <2>4. last'.given = runs'  BY <1>1
  <2>5. QED BY <1>8, <2>1, <2>2, <2>3, <2>4 DEF FirstProfileGiven
<1>17. QED BY <1>15, <1>16

LEMMA UpdatesSound ==
  ASSUME Sound, Whole(file, disk), NEW size \in Nat \ {0}, runs' \in Nat,
         Updates(size), laid' = TRUE, inOrder' = inOrder
  PROVE  Sound' /\ Whole(file, disk)' /\ FirstProfileGiven'
<1> DEFINE i == is_profiled(file, disk)
           g == update_profile(file, runs', i, size)
           N == Len(file.secs)
           x == file.shstrndx
<1>1. i # 0 /\ named' = named /\ orig' = orig  BY DEF Updates, Given
<1>2. i \in DOMAIN file.secs /\ named[i] = ".profile"
      /\ \A j \in 1..(i - 1) : named[j] # ".profile"
  <2>1. i # 0  BY <1>1
  <2> HIDE DEF i
  <2>2. QED BY <2>1, ProfiledIsFirst DEF i
<1> HIDE DEF i
<1>3. /\ FileType(file) /\ N \in Nat /\ DOMAIN file.secs = 1..N /\ x \in 1..N
      /\ named \in Seq(Words) /\ Len(named) = N /\ named[x] = ".shstrtab"
      /\ NamedBy(file, named) /\ orig \in Files
  <2>1. FileType(file)  BY DEF Sound
  <2>2. x \in DOMAIN file.secs  BY <2>1 DEF FileType
  <2>3. QED BY <2>1, <2>2, SectionOf DEF Sound
<1>4. /\ orig.shstrndx \in Nat /\ orig.shstrndx <= x
      /\ \A j \in 1..orig.shstrndx : named[j] # ".profile"
      /\ \A j \in 1..(orig.shstrndx - 1) : file.secs[j].size = orig.secs[j].size
      /\ \A j \in 1..orig.shstrndx :
           file.secs[j].off = IF laid THEN Ends(orig)[j - 1] ELSE orig.secs[j].off
  <2>1. orig.shstrndx \in Nat  BY <1>3, FileOfFiles DEF FileType
  <2>2. QED BY <2>1 DEF Sound, LoadedKept
<1>5. ASSUME elf_update(Laid(g)), last' = [tool |-> "manipulator", end |-> "ok", given |-> runs']
      PROVE  Sound' /\ Whole(file, disk)' /\ FirstProfileGiven'
  <2>1. runs' \in Int  OBVIOUS
  <2>2. /\ FileType(g) /\ Len(g.secs) = N /\ g.shstrndx = x
        /\ \A j \in DOMAIN file.secs :
             /\ j # i => g.secs[j].size = file.secs[j].size
             /\ g.secs[j].name = file.secs[j].name
             /\ g.secs[j].data.strings = file.secs[j].data.strings
        /\ g.secs[i].data.content = runs'
    <3>1. FileType(file) /\ i \in DOMAIN file.secs  BY <1>2, <1>3
    <3>2. QED BY <2>1, <3>1, UpdateShape
  <2> HIDE DEF g
  <2>3. DOMAIN g.secs = 1..N
    <3>1. g.secs \in Seq(Sections) /\ Len(g.secs) = N  BY <2>2 DEF FileType
    <3> HIDE DEF N
    <3>2. QED BY <3>1
  <2>4. NamesOf(g).data.strings = NamesOf(file).data.strings
    BY <1>3, <2>2 DEF NamesOf
  <2>5. NamedBy(g, named')  BY <1>1, <1>3, <2>2, <2>3, <2>4 DEF NamedBy
  <2>6. \A j \in 1..(orig.shstrndx - 1) : g.secs[j].size = orig.secs[j].size
    <3> SUFFICES ASSUME NEW j \in 1..(orig.shstrndx - 1)
                 PROVE  g.secs[j].size = orig.secs[j].size
      OBVIOUS
    <3>1. j \in 1..N /\ j \in 1..orig.shstrndx  BY <1>3, <1>4
    <3>2. j # i  BY <1>2, <1>4, <3>1
    <3>3. QED BY <1>3, <1>4, <2>2, <3>1, <3>2
  <2>7. Sound' /\ Whole(file, disk)' /\ file' = Laid(g)
    BY <1>1, <1>3, <1>4, <1>5, <2>2, <2>5, <2>6, LaidOut
  <2>8. FirstProfileGiven'
    <3>1. i \in DOMAIN named /\ i \in DOMAIN g.secs  BY <1>2, <1>3, <2>3
    <3>2. file'.secs[i].data.content = runs'  BY <2>2, <2>7, <3>1, LaidShape
    <3>3. last'.given = runs'  BY <1>5
    <3>4. QED BY <1>1, <1>2, <3>1, <3>2, <3>3 DEF FirstProfileGiven
  <2>9. QED BY <2>7, <2>8
<1>6. ASSUME Laid(file) = file, UNCHANGED <<file, disk>>,
             last' = [tool |-> "manipulator", end |-> "unwritten", given |-> runs']
      PROVE  Sound' /\ Whole(file, disk)' /\ FirstProfileGiven'
  <2>1. file' = file /\ disk' = disk  BY <1>6
  <2>2. Whole(file, disk)'  BY <2>1
  <2>3. FirstProfileGiven'
    <3>1. last'.end # "ok"  BY <1>6
    <3>2. QED BY <3>1 DEF FirstProfileGiven
  <2>4. \A j \in 1..orig.shstrndx : file.secs[j].off = Ends(orig)[j - 1]
    <3> DEFINE m == orig.shstrndx - 1
    <3>1. /\ FileType(orig) /\ orig.shstrndx \in 1..Len(orig.secs) /\ Len(orig.secs) \in Nat
      <4>1. FileType(orig) /\ orig.shstrndx \in 1..Len(orig.secs)  BY <1>3, FileOfFiles
      <4>2. QED BY <4>1 DEF FileType
    <3>2. m \in Nat /\ m <= N /\ m <= Len(orig.secs)  BY <1>3, <1>4, <3>1
    <3>3. \A j \in 1..m : file.secs[j].size = orig.secs[j].size  BY <1>4
    <3>4. \A j \in 1..orig.shstrndx : j - 1 \in 0..m /\ j \in DOMAIN file.secs
      BY <1>3, <1>4, <3>1
    <3>5. \A j \in DOMAIN file.secs : file.secs[j].off = Ends(file)[j - 1]
      BY <1>3, <1>6, LaidShape
    <3> HIDE DEF m
    <3>6. \A j \in 0..m : Ends(file)[j] = Ends(orig)[j]
      <4>1. m <= Len(file.secs) /\ FileType(file) /\ FileType(orig)  BY <1>3, <3>1, <3>2
      <4>2. QED BY <3>2, <3>3, <4>1, EndsAgree
    <3>7. QED BY <3>4, <3>5, <3>6
  <2>5. LoadedKept'  BY <1>1, <1>4, <2>1, <2>4 DEF LoadedKept
  <2>6. disk \in Disks /\ inOrder \in BOOLEAN  BY DEF Sound
  <2>7. Sound'  BY <1>1, <1>3, <2>1, <2>5, <2>6 DEF Sound
  <2>8. QED BY <2>2, <2>3, <2>7
<1>7. \/ elf_update(Laid(g)) /\ last' = [tool |-> "manipulator", end |-> "ok", given |-> runs']
      \/ /\ Laid(file) = file /\ UNCHANGED <<file, disk>>
         /\ last' = [tool |-> "manipulator", end |-> "unwritten", given |-> runs']
  BY DEF Updates, Given, i
<1>8. QED BY <1>5, <1>6, <1>7

LEMMA ElfieSound ==
  ASSUME Sound, Readable, NEW size \in Nat \ {0}, Elfie(size)
  PROVE  Sound' /\ Readable' /\ FirstProfileGiven'
<1> DEFINE N == Len(file.secs)
           x == file.shstrndx
           old == file.secs[x]
           strings == old.data.strings
           f == add_profile_section(runs', size)
           dirty == <<x, N + 1>>
<1>1. /\ runs' = runs + 1 /\ orig' = orig /\ last'.tool = "elfie"
      /\ f.shoff + HeaderLen(f) <= MaxFile
      /\ file' = f /\ disk' = Write(disk, f, <<f.shstrndx, Len(f.secs)>>)
      /\ named' = Append(named, ".profile")
      /\ inOrder' = (inOrder /\ NamesLast(file)) /\ laid' = laid
  BY DEF Elfie, Given
<1>2. /\ FileType(file) /\ N \in Nat \ {0} /\ DOMAIN file.secs = 1..N /\ x \in 1..N
      /\ strings \in Seq(Words) /\ file.shoff \in Nat
      /\ old.off \in Nat /\ old.size \in Nat \ {0}
      /\ \A i \in 1..N : file.secs[i].off \in Nat /\ file.secs[i].size \in Nat \ {0}
  <2>1. FileType(file)  BY DEF Sound
  <2>2. x \in DOMAIN file.secs  BY <2>1 DEF FileType
  <2>3. QED BY <2>1, <2>2, SectionOf, SectionFields
<1>3. runs' \in Nat /\ runs' \in Int  BY <1>1 DEF Sound
<1>4. /\ FileType(f) /\ Len(f.secs) = N + 1 /\ f.shstrndx = x
      /\ f.shoff = file.shoff + size + NameLen
      /\ \A i \in 1..N : i # x => f.secs[i] = file.secs[i]
      /\ f.secs[x] = Grown(old, <<".profile">>, NameLen)
      /\ f.secs[N + 1].name = Len(strings) + 1
      /\ f.secs[N + 1].off = compute_section_offset(add_section_name(file))
      /\ f.secs[N + 1].size = size
  <2>1. FileType(file) /\ runs' \in Int  BY <1>2, <1>3
  <2>2. QED BY <2>1, ElfieShape
<1>5. /\ f.secs[x].name = old.name /\ f.secs[x].off = old.off
      /\ f.secs[x].size = old.size + NameLen
      /\ f.secs[x].data.strings = strings \o <<".profile">>
  BY <1>2, <1>4, NamedShape
<1> HIDE DEF f
<1>6. DOMAIN f.secs = 1..(N + 1) /\ f.secs \in Seq(Sections)
  <2>1. f.secs \in Seq(Sections) /\ Len(f.secs) = N + 1  BY <1>4 DEF FileType
  <2>2. DOMAIN f.secs = 1..Len(f.secs)  BY <2>1
  <2>3. QED BY <2>1, <2>2
<1>7. disk' = Write(disk, f, dirty) /\ dirty \in Seq(DOMAIN f.secs)
  <2>1. x \in DOMAIN f.secs /\ N + 1 \in DOMAIN f.secs  BY <1>2, <1>6
  <2>2. <<f.shstrndx, Len(f.secs)>> = dirty  BY <1>4
  <2>3. dirty \in Seq(DOMAIN f.secs)
    <3> DEFINE D == DOMAIN f.secs
               y == N + 1
    <3>1. x \in D /\ y \in D  BY <2>1
    <3> HIDE DEF x, y, D
    <3>2. <<x, y>> \in Seq(D)  BY <3>1
    <3>3. QED BY <3>2 DEF y, D
  <2> HIDE DEF x, N, dirty
  <2>4. QED BY <1>1, <2>2, <2>3
<1>8. disk \in Disks /\ disk' \in Disks
  <2>1. disk \in Disks  BY DEF Sound
  <2>2. QED BY <1>4, <1>7, <2>1, WriteType
<1>9. named \in Seq(Words) /\ Len(named) = N /\ named[x] = ".shstrtab" /\ NamedBy(file, named)
      /\ orig \in Files /\ laid \in BOOLEAN /\ inOrder \in BOOLEAN
  BY DEF Sound
<1>10. /\ named' \in Seq(Words) /\ Len(named') = N + 1 /\ named'[N + 1] = ".profile"
       /\ \A i \in 1..N : named'[i] = named[i]
  <2>1. ".profile" \in Words  BY WordsIn
  <2> DEFINE word == ".profile"
  <2>2. word \in Words /\ named' = Append(named, word)  BY <1>1, <2>1
  <2>3. N \in Nat /\ named \in Seq(Words) /\ Len(named) = N  BY <1>2, <1>9
  <2> HIDE DEF N, x, word
  <2>4. /\ named' \in Seq(Words) /\ Len(named') = N + 1 /\ named'[N + 1] = word
        /\ \A i \in 1..N : named'[i] = named[i]
    BY <2>2, <2>3
  <2>5. QED BY <2>4 DEF word
<1>11. NamedBy(f, named')
  <2> DEFINE one == <<".profile">>
             longer == strings \o one
             m == Len(strings)
  <2>1. one \in Seq(Words) /\ Len(one) = 1 /\ one[1] = ".profile"  BY WordsIn
  <2>2. NamesOf(f).data.strings = longer  BY <1>4, <1>5 DEF NamesOf
  <2>3. m \in Nat /\ DOMAIN strings = 1..m
    <3> HIDE DEF strings
    <3>1. QED BY <1>2
  <2>4. /\ DOMAIN longer = 1..(m + 1) /\ longer[m + 1] = ".profile"
        /\ \A i \in 1..m : longer[i] = strings[i]
    <3> HIDE DEF strings, one
    <3>1. /\ strings \o one \in Seq(Words) /\ Len(strings \o one) = Len(strings) + Len(one)
          /\ \A i \in 1..Len(strings) : (strings \o one)[i] = strings[i]
          /\ \A i \in 1..Len(one) : (strings \o one)[Len(strings) + i] = one[i]
      BY <1>2, <2>1, Joins
    <3>2. (strings \o one)[m + 1] = one[1]
      <4>1. 1 \in 1..Len(one)  BY <2>1
      <4>2. QED BY <3>1, <4>1
    <3>3. DOMAIN (strings \o one) = 1..(m + 1)  BY <2>1, <2>3, <3>1
    <3>4. QED BY <2>1, <3>1, <3>2, <3>3
  <2>5. \A i \in 1..N : file.secs[i].name \in 1..m /\ strings[file.secs[i].name] = named[i]
    BY <1>2, <1>9, <2>3 DEF NamedBy, NamesOf
  <2> HIDE DEF longer, m, strings, N
  <2>6. ASSUME NEW i \in 1..(N + 1)
        PROVE  f.secs[i].name \in DOMAIN longer /\ longer[f.secs[i].name] = named'[i]
    <3>1. (\A j \in 1..m : j \in 1..(m + 1)) /\ m + 1 \in 1..(m + 1)  BY <2>3
    <3>2. CASE i \in 1..N
      <4>1. f.secs[i].name = file.secs[i].name /\ named'[i] = named[i]
        BY <1>4, <1>5, <1>10, <3>2
      <4>2. QED BY <2>4, <2>5, <3>1, <3>2, <4>1
    <3>3. CASE i = N + 1
      <4>1. f.secs[i].name = m + 1  BY <1>4, <3>3 DEF m
      <4>2. QED BY <1>10, <2>4, <3>1, <3>3, <4>1
    <3>4. QED BY <1>2, <3>2, <3>3
  <2>7. QED BY <1>6, <2>2, <2>6 DEF NamedBy
<1>12. LoadedKept'
  <2>1. /\ orig.shstrndx \in Nat /\ orig.shstrndx <= x
        /\ \A j \in 1..orig.shstrndx : named[j] # ".profile"
        /\ \A j \in 1..(orig.shstrndx - 1) : file.secs[j].size = orig.secs[j].size
        /\ \A j \in 1..orig.shstrndx :
             file.secs[j].off = IF laid THEN Ends(orig)[j - 1] ELSE orig.secs[j].off
    <3>1. orig.shstrndx \in Nat  BY <1>9, FileOfFiles DEF FileType
    <3>2. QED BY <3>1 DEF Sound, LoadedKept
  <2>2. \A j \in 1..orig.shstrndx : j \in 1..N  BY <1>2, <2>1
  <2>3. \A j \in 1..(orig.shstrndx - 1) : j \in 1..N /\ j # x  BY <1>2, <2>1
  <2>4. \A j \in 1..N : f.secs[j].off = file.secs[j].off  BY <1>4, <1>5
  <2>5. \A j \in 1..(orig.shstrndx - 1) : f.secs[j].size = orig.secs[j].size
    BY <1>4, <2>1, <2>3
  <2>6. \A j \in 1..orig.shstrndx : named'[j] # ".profile"  BY <1>10, <2>1, <2>2
  <2>7. \A j \in 1..orig.shstrndx :
          f.secs[j].off = IF laid THEN Ends(orig)[j - 1] ELSE orig.secs[j].off
    BY <2>1, <2>2, <2>4
  <2> HIDE DEF x, N
  <2>8. QED BY <1>1, <1>4, <2>1, <2>5, <2>6, <2>7 DEF LoadedKept
<1>13. Sound'
  <2>1. named'[x] = ".shstrtab"  BY <1>2, <1>9, <1>10
  <2>2. inOrder' \in BOOLEAN  BY <1>1, <1>9
  <2> HIDE DEF x, N
  <2>3. QED BY <1>1, <1>3, <1>4, <1>8, <1>9, <1>10, <1>11, <1>12, <2>1, <2>2 DEF Sound
<1>14. ASSUME inOrder' PROVE Whole(file, disk)'
  <2>1. Whole(file, disk) /\ NamesLast(file)  BY <1>1, <1>14 DEF Readable
  <2>2. /\ \A i \in 1..N : i # x => file.secs[i].off + file.secs[i].size <= old.off
        /\ old.off + old.size <= file.shoff
    BY <1>2, <2>1 DEF NamesLast, NamesOf, End
  <2>3. f.secs[N + 1].off = old.off + old.size + NameLen
    BY <1>2, <1>4, <2>1, OffsetBehindNames DEF NamesOf, End
  <2>4. \A i \in 1..N : Holds(disk, file.secs[i].data, file.secs[i].off, file.secs[i].size)
    BY <1>2, <2>1 DEF Whole, ToSet
  <2>5. DOMAIN dirty = 1..2 /\ dirty[1] = x /\ dirty[2] = N + 1  OBVIOUS
  <2>6. NameLen \in Nat \ {0} /\ MaxFile \in Nat  BY SizesAssumption
  <2> DEFINE h == HeaderLen(f)
             y == N + 1
  <2>7. /\ h \in Nat /\ f.shoff + h <= MaxFile
        /\ f.shoff = file.shoff + size + NameLen /\ file.shoff \in Nat
        /\ f.secs[x].off = old.off /\ f.secs[x].size = old.size + NameLen
        /\ f.secs[y].off = old.off + old.size + NameLen /\ f.secs[y].size = size
        /\ old.off \in Nat /\ old.size \in Nat \ {0}
    <3>1. h = N + 2 /\ N + 2 \in Nat  BY <1>2, <1>4 DEF HeaderLen
    <3>2. QED BY <1>1, <1>2, <1>4, <1>5, <2>3, <3>1
  <2> HIDE DEF dirty, strings, old, h
  <2>8. ASSUME NEW i \in DOMAIN f.secs
        PROVE  Holds(disk', f.secs[i].data, f.secs[i].off, f.secs[i].size)
    <3>1. Clear(f, i, dirty)
      <4>1. \A k \in DOMAIN dirty : dirty[k] = x \/ dirty[k] = y  BY <2>5
      <4>2. CASE i \in 1..N /\ i # x
        <5>1. /\ f.secs[i].off + f.secs[i].size <= old.off
              /\ f.secs[i].off \in Nat /\ f.secs[i].size \in Nat
          BY <1>2, <1>4, <2>2, <4>2
        <5>2. old.off + old.size <= file.shoff  BY <2>2
        <5> HIDE DEF N, x, y
        <5>3. /\ f.secs[i].off + f.secs[i].size <= f.secs[x].off
              /\ f.secs[i].off + f.secs[i].size <= f.secs[y].off
              /\ f.secs[i].off + f.secs[i].size <= f.shoff
              /\ f.secs[i].off + f.secs[i].size <= MaxFile
          BY <2>6, <2>7, <5>1, <5>2
        <5>4. QED BY <4>1, <5>3 DEF Clear, h
      <4>3. CASE i = x
        <5>1. old.off + old.size <= file.shoff  BY <2>2
        <5> HIDE DEF N, x, y
        <5>2. /\ f.secs[x].off + f.secs[x].size <= f.secs[y].off
              /\ f.secs[x].off + f.secs[x].size <= f.shoff
              /\ f.secs[x].off + f.secs[x].size <= MaxFile
          BY <2>6, <2>7, <5>1
        <5>3. QED BY <4>1, <4>3, <5>2 DEF Clear, h
      <4>4. CASE i = y
        <5>1. old.off + old.size <= file.shoff  BY <2>2
        <5> HIDE DEF N, x, y
        <5>2. /\ f.secs[x].off + f.secs[x].size <= f.secs[y].off
              /\ f.secs[y].off + f.secs[y].size <= f.shoff
              /\ f.secs[y].off + f.secs[y].size <= MaxFile
          BY <2>6, <2>7, <5>1
        <5>3. QED BY <4>1, <4>4, <5>2 DEF Clear, h
      <4>5. QED BY <1>2, <1>6, <4>2, <4>3, <4>4
    <3>2. \/ Holds(disk, f.secs[i].data, f.secs[i].off, f.secs[i].size)
          \/ \E k \in DOMAIN dirty : dirty[k] = i
      <4>1. dirty[1] = x /\ dirty[2] = y /\ 1 \in DOMAIN dirty /\ 2 \in DOMAIN dirty
        BY <2>5
      <4>2. CASE i \in 1..N /\ i # x  BY <1>4, <2>4, <4>2
      <4>3. i \in 1..N \/ i = y  BY <1>2, <1>6
      <4> HIDE DEF N, x, y
      <4>4. CASE i = x \/ i = y  BY <4>1, <4>4
      <4>5. QED BY <4>2, <4>3, <4>4
    <3> HIDE DEF N, x
    <3>3. QED BY <1>4, <1>7, <1>8, <3>1, <3>2, WriteSection
  <2>9. Holds(disk', Headers, f.shoff, HeaderLen(f))
    BY <1>1, <1>4, <1>7, WriteHeaders
  <2> HIDE DEF N, x
  <2>10. Whole(f, disk')  BY <2>8, <2>9 DEF Whole, ToSet
  <2>11. QED BY <1>1, <2>10
<1>15. Readable'  BY <1>14 DEF Readable
<1>16. FirstProfileGiven'  BY <1>1 DEF FirstProfileGiven
<1>17. QED BY <1>13, <1>15, <1>16

LEMMA NextSound ==
  ASSUME Sound, Readable, FirstProfileGiven, [Next]_vars
  PROVE  Sound' /\ Readable' /\ FirstProfileGiven'
<1>1. ASSUME NEW size \in ProfileSizes, Elfie(size)
      PROVE  Sound' /\ Readable' /\ FirstProfileGiven'
  <2>1. size \in Nat \ {0}  BY SizesAssumption
  <2>2. QED BY <1>1, <2>1, ElfieSound
<1>2. ASSUME NEW size \in ProfileSizes, Manipulate(size)
      PROVE  Sound' /\ Readable' /\ FirstProfileGiven'
  <2>1. size \in Nat \ {0}  BY SizesAssumption
  <2>2. runs' \in Nat /\ Whole(file, disk) /\ laid' = TRUE /\ inOrder' = inOrder
    BY <1>2 DEF Manipulate, Sound
  <2>3. Adds(size) \/ Updates(size)  BY <1>2 DEF Manipulate
  <2>4. Sound' /\ Whole(file, disk)' /\ FirstProfileGiven'
    BY <2>1, <2>2, <2>3, AddsSound, UpdatesSound
  <2>5. QED BY <2>4 DEF Readable
<1>3. ASSUME UNCHANGED <<file, disk, named, inOrder, laid, orig>>, runs' \in Nat
      PROVE  Sound' /\ Readable'
  BY <1>3 DEF Sound, Readable, LoadedKept, Whole, Holds
<1>4. CASE read_profile_file
  <2>1. UNCHANGED <<file, disk, named, inOrder, laid, orig>> /\ runs' \in Nat
        /\ last'.tool # "manipulator"
    BY <1>4 DEF read_profile_file, Given, Sound
  <2>2. QED BY <1>3, <2>1 DEF FirstProfileGiven
<1>5. CASE read_file
  <2>1. UNCHANGED <<file, disk, named, inOrder, laid, orig>> /\ runs' \in Nat
        /\ last'.end # "ok"
    BY <1>5 DEF read_file, Given, Sound
  <2>2. QED BY <1>3, <2>1 DEF FirstProfileGiven
<1>6. CASE UNCHANGED vars
  <2>1. UNCHANGED <<file, disk, named, inOrder, laid, orig>> /\ runs' = runs /\ last' = last
        /\ runs' \in Nat
    BY <1>6 DEF vars, Sound
  <2>2. QED BY <1>3, <2>1 DEF FirstProfileGiven
<1>7. QED BY <1>1, <1>2, <1>4, <1>5, <1>6 DEF Next

LEMMA InitGiven == Init => FirstProfileGiven
BY DEF Init, FirstProfileGiven

THEOREM FilesSound == Spec => [](Sound /\ Readable /\ FirstProfileGiven)
<1>1. Init => Sound /\ Readable /\ FirstProfileGiven  BY InitSound, InitGiven
<1>2. Sound /\ Readable /\ FirstProfileGiven /\ [Next]_vars
        => (Sound /\ Readable /\ FirstProfileGiven)'
  BY NextSound
<1>3. QED BY <1>1, <1>2, PTL DEF Spec

-----------------------------------------------------------------------------
(* The invariants that the run checks.                                      *)

(* Whatever the two programs have done to a file whose name table elfie has  *)
(* only met behind all other sections: each section can be read back, by the *)
(* name it was given.                                                       *)
THEOREM SectionsStayReadable == Spec => []SectionsReadable
<1>1. Sound /\ Readable => SectionsReadable
  BY NamesRead DEF SectionsReadable, Readable
<1>2. QED BY <1>1, FilesSound, PTL

(* The first section called .profile, which a reader of the file takes, is   *)
(* the one that elf_manipulator wrote when it last said it had.             *)
THEOREM FirstIsGiven == Spec => []FirstProfileGiven
<1>1. QED BY FilesSound, PTL

(* What is loaded moves when libelf lays the file out, and only if it did   *)
(* not follow by number and without gaps before.                            *)
THEOREM LoadedStayUnlessGaps == Spec => []LoadedMoveOnlyFromGaps
<1>1. ASSUME Sound PROVE LoadedMoveOnlyFromGaps
  <2> DEFINE loads == {i \in DOMAIN orig.secs : orig.secs[i].alloc}
  <2>1. orig \in Files /\ laid \in BOOLEAN  BY <1>1 DEF Sound
  <2>2. /\ FileType(orig) /\ orig.shstrndx \in Nat /\ DOMAIN orig.secs = 1..Len(orig.secs)
        /\ \A i \in DOMAIN orig.secs : orig.secs[i].alloc => i <= orig.shstrndx
    <3>1. /\ FileType(orig)
          /\ \A i \in DOMAIN orig.secs : orig.secs[i].alloc => i <= orig.shstrndx
      BY <2>1, FileOfFiles
    <3>2. orig.shstrndx \in Nat /\ orig.secs \in Seq(Sections)  BY <3>1 DEF FileType
    <3>3. QED BY <3>1, <3>2
  <2>3. ASSUME NEW i \in loads
        PROVE  /\ file.secs[i].off = IF laid THEN Ends(orig)[i - 1] ELSE orig.secs[i].off
               /\ Laid(orig).secs[i].off = Ends(orig)[i - 1]
    <3>1. i \in 1..orig.shstrndx  BY <2>2
    <3>2. QED BY <1>1, <2>2, <3>1, LaidShape DEF Sound, LoadedKept
  <2> HIDE DEF loads
  <2>4. CASE laid
    <3>1. (\A i \in loads : file.secs[i].off = orig.secs[i].off)
            <=> \A i \in loads : Laid(orig).secs[i].off = orig.secs[i].off
      BY <2>3, <2>4
    <3>2. QED BY <2>4, <3>1 DEF LoadedMoveOnlyFromGaps, loads
  <2>5. CASE ~laid
    <3>1. \A i \in loads : file.secs[i].off = orig.secs[i].off  BY <2>3, <2>5
    <3>2. QED BY <2>5, <3>1 DEF LoadedMoveOnlyFromGaps, loads
  <2>6. QED BY <2>1, <2>4, <2>5
<1>2. QED BY <1>1, FilesSound, PTL
=============================================================================
