-------------------------------- MODULE Elf --------------------------------
(***************************************************************************)
(* The two programs that put a profile into a section of an ELF file:       *)
(* elf_manipulator/elfie.c, which places everything itself, and             *)
(* elf_manipulator/elf_manipulator.c, which leaves the layout to libelf.    *)
(*                                                                          *)
(* Offsets and sizes are in small units.  Section i is file.secs[i]; the    *)
(* null section, number 0, is left out.  disk[o] is what was written last   *)
(* at offset o: which unit of which content, or of the header table.        *)
(***************************************************************************)
EXTENDS Integers, FiniteSets, Sequences, SequencesExt

CONSTANTS Files,        \* files to begin with
          ProfileSizes, \* sizes of the profiles one may add
          NameLen, OldNameLen, \* strlen + 1 of ".profile" and ".old_shstrtab"
          FirstOffset,  \* end of the ELF header and the program headers
          MaxRuns, MaxFile \* bounds

ASSUME SizesAssumption ==
  /\ ProfileSizes \subseteq Nat \ {0} /\ NameLen \in Nat \ {0} /\ OldNameLen \in Nat \ {0}
  /\ FirstOffset \in Nat /\ MaxFile \in Nat

Section(strings) ==
  [name : Nat, off : Nat, size : Nat \ {0}, alloc : BOOLEAN,
   data : [content : Int, strings : strings]]

\* What a linker leaves: no section is empty or has a profile, what is loaded is
\* numbered before the name table, and nothing lies on top of anything else.
ASSUME FilesAssumption == \A f \in Files :
  /\ f \in [secs : Seq(Section(Seq(STRING))), shstrndx : DOMAIN f.secs, shoff : Nat]
  /\ \A i \in DOMAIN f.secs :
       LET s == f.secs[i]
           strings == f.secs[f.shstrndx].data.strings IN
       /\ s.name \in DOMAIN strings /\ strings[s.name] # ".profile"
       /\ i = f.shstrndx => strings[s.name] = ".shstrtab"
       /\ s.alloc => i <= f.shstrndx
       /\ s.off + s.size <= f.shoff \/ f.shoff + Len(f.secs) + 1 <= s.off
       /\ s.off + s.size <= MaxFile
       /\ \A j \in DOMAIN f.secs \ {i} :
            s.off + s.size <= f.secs[j].off \/ f.secs[j].off + f.secs[j].size <= s.off
  /\ f.shoff + Len(f.secs) + 1 <= MaxFile

VARIABLES
  file,   \* secs, shstrndx, shoff: the section headers and the ELF header
  disk,
  orig,   \* the file to begin with
  runs,   \* how many profiles have been given
  last,   \* the last program, how it ended and the content it was given
  named,  \* what the sections are to be called
  inOrder,\* elfie has found the name table behind all other sections so far
  laid    \* libelf has laid out the file anew

vars == <<file, disk, orig, runs, last, named, inOrder, laid>>

-----------------------------------------------------------------------------
End(s)      == s.off + s.size
\* Contents: profiles have positive numbers, sections of the file negative ones.
Content(n) == [content |-> n, strings |-> << >>]
Headers    == Content(0)
Free       == Content(-100)

HeaderLen(f) == Len(f.secs) + 1
NamesOf(f)  == f.secs[f.shstrndx]

Place(d, what, off, size) ==
  [o \in 0..MaxFile |-> IF off <= o /\ o < off + size THEN <<what, o - off>> ELSE d[o]]
Holds(d, what, off, size) == \A k \in 0..(size - 1) : d[off + k] = <<what, k>>

\* libelf: the sections, then the table of their headers.
Written(d, f, dirty) ==
  LET disks[k \in 0..Len(dirty)] ==
        IF k = 0 THEN d
        ELSE LET s == f.secs[dirty[k]] IN Place(disks[k - 1], s.data, s.off, s.size)
  IN disks

Write(d, f, dirty) ==
  Place(Written(d, f, dirty)[Len(dirty)], Headers, f.shoff, HeaderLen(f))

\* libelf, left to itself: the sections follow each other by number, the table
\* of their headers is last.  The segments are left as they were.
Ends(f) ==
  LET ends[i \in 0..Len(f.secs)] ==
        IF i = 0 THEN FirstOffset ELSE ends[i - 1] + f.secs[i].size
  IN ends

Laid(f) ==
  [f EXCEPT !.secs  = [i \in DOMAIN f.secs |-> [f.secs[i] EXCEPT !.off = Ends(f)[i - 1]]],
            !.shoff = Ends(f)[Len(f.secs)]]

\* The name that a section's header gives; none when the table is damaged.
elf_strptr(f, d, i) ==
  IF Holds(d, NamesOf(f).data, NamesOf(f).off, NamesOf(f).size)
    THEN NamesOf(f).data.strings[f.secs[i].name] ELSE "?"

Init ==
  /\ orig \in Files /\ file = orig
  /\ disk = Write([o \in 0..MaxFile |-> <<Free, 0>>], orig,
                  [i \in DOMAIN orig.secs |-> i])
  /\ runs = 0 /\ last = [tool |-> "none", end |-> "ok", given |-> 0]
  /\ named = [i \in DOMAIN orig.secs |-> NamesOf(orig).data.strings[orig.secs[i].name]]
  /\ inOrder = TRUE /\ laid = FALSE

Profile(n, size) == [name |-> 0, off |-> 0, size |-> size, alloc |-> FALSE,
                     data |-> Content(n)]

-----------------------------------------------------------------------------
(* elfie.c                                                                  *)

Grown(s, strings, len) ==
  [s EXCEPT !.size = @ + len, !.data.strings = @ \o strings]

\* The name table grows where it is.
add_section_name(f) ==
  [f EXCEPT !.secs[f.shstrndx] = Grown(@, <<".profile">>, NameLen)]

\* Behind the first of the sections with the greatest offset.
compute_section_offset(f) ==
  LET Greatest == CHOOSE i \in DOMAIN f.secs : \A j \in DOMAIN f.secs :
                 \/ f.secs[j].off < f.secs[i].off
                 \/ f.secs[j].off = f.secs[i].off /\ i <= j
  IN End(f.secs[Greatest])

add_section_payload(f, n, size) == [f EXCEPT !.secs = Append(@, Profile(n, size))]

update_section_header(f, name, off) ==
  [f EXCEPT !.secs[Len(f.secs)] = [@ EXCEPT !.name = name, !.off = off]]

\* Bug: the layout is not declared the program's own.
LayoutUndeclared(f, size) == Laid(f)

\* Bug: the room of the name is forgotten.
TableMovedByProfile(f, size) == [f EXCEPT !.shoff = @ + size]

adjust_sec_table_offset(f, size) == [f EXCEPT !.shoff = @ + size + NameLen]

add_profile_section(n, size) ==
  LET f1 == add_section_name(file)
      f2 == add_section_payload(f1, n, size)
      f3 == update_section_header(f2, Len(NamesOf(f1).data.strings),
                                  compute_section_offset(f1))
  IN adjust_sec_table_offset(f3, size)

NamesLast(f) == /\ \A i \in DOMAIN f.secs \ {f.shstrndx} : End(f.secs[i]) <= NamesOf(f).off
                /\ End(NamesOf(f)) <= f.shoff

Given(tool, end) == last' = [tool |-> tool, end |-> end, given |-> runs'] /\ UNCHANGED orig

Elfie(size) ==
  LET f == add_profile_section(runs', size) IN
  /\ runs < MaxRuns /\ runs' = runs + 1 /\ Given("elfie", "ok")
  /\ f.shoff + HeaderLen(f) <= MaxFile
  /\ file' = f
  /\ disk' = Write(disk, f, <<f.shstrndx, Len(f.secs)>>)
  /\ named' = Append(named, ".profile")
  /\ inOrder' = (inOrder /\ NamesLast(file)) /\ UNCHANGED laid

\* A profile that is missing or not read in full ends elfie before it opens
\* the ELF file.
read_profile_file ==
  /\ runs < MaxRuns /\ runs' = runs + 1 /\ Given("elfie", "exit")
  /\ UNCHANGED <<file, disk, named, inOrder, laid>>

-----------------------------------------------------------------------------
(* elf_manipulator.c                                                        *)

\* Bug: the search goes on to the last.
LastProfiled(f, d) ==
  LET found == {i \in DOMAIN f.secs : elf_strptr(f, d, i) = ".profile"} IN
  IF found = {} THEN 0 ELSE CHOOSE i \in found : \A j \in found : i >= j

\* The number of the first section called .profile, or 0.
is_profiled(f, d) ==
  LET found == {i \in DOMAIN f.secs : elf_strptr(f, d, i) = ".profile"} IN
  IF found = {} THEN 0 ELSE CHOOSE i \in found : \A j \in found : i <= j

\* The new table takes the name of the old one, which gets a new name.
add_elf_sections(f, n, size) ==
  LET old   == NamesOf(f)
      count == Len(old.data.strings)
      names == Grown([old EXCEPT !.data.content = n], <<".profile", ".old_shstrtab">>,
                     NameLen + OldNameLen)
      renamed == [f.secs EXCEPT ![f.shstrndx].name = count + 2]
  IN [f EXCEPT !.secs = renamed \o <<[Profile(n, size) EXCEPT !.name = count + 1], names>>]

setshstrndx(f, ndx) == [f EXCEPT !.shstrndx = ndx]

update_profile(f, n, i, size) ==
  [f EXCEPT !.secs[i].size = size, !.secs[i].data.content = n]

AllOf(f) == [i \in DOMAIN f.secs |-> i]

\* What is damaged before is written anew as it was read: not modelled beyond
\* an undamaged file.
Whole(f, d) == /\ Holds(d, Headers, f.shoff, HeaderLen(f))
               /\ \A s \in ToSet(f.secs) : Holds(d, s.data, s.off, s.size)

\* elf_update, when libelf has the layout.
elf_update(f) ==
  /\ f.shoff + HeaderLen(f) <= MaxFile
  /\ file' = f /\ disk' = Write(disk, f, AllOf(f))

Adds(size) ==
  /\ is_profiled(file, disk) = 0
  /\ elf_update(Laid(setshstrndx(add_elf_sections(file, runs', size), Len(file.secs) + 2)))
  /\ named' = [named EXCEPT ![file.shstrndx] = ".old_shstrtab"] \o <<".profile", ".shstrtab">>
  /\ Given("manipulator", "ok")

\* Nothing tells libelf that the data has changed: when the file keeps its
\* layout, it need not write them.
Updates(size) ==
  LET i == is_profiled(file, disk) IN
  /\ i # 0 /\ UNCHANGED named
  /\ \/ elf_update(Laid(update_profile(file, runs', i, size))) /\ Given("manipulator", "ok")
     \/ /\ size = file.secs[i].size /\ Laid(file) = file
        /\ UNCHANGED <<file, disk>> /\ Given("manipulator", "unwritten")

Manipulate(size) ==
  /\ runs < MaxRuns /\ runs' = runs + 1 /\ Whole(file, disk)
  /\ Adds(size) \/ Updates(size)
  /\ laid' = TRUE /\ UNCHANGED inOrder

\* A profile that cannot be opened: read_file goes on and reads through a null
\* pointer, before anything is written.
read_file ==
  /\ runs < MaxRuns /\ runs' = runs + 1 /\ Given("manipulator", "crash")
  /\ UNCHANGED <<file, disk, named, inOrder, laid>>

Next == \/ \E size \in ProfileSizes : Elfie(size) \/ Manipulate(size)
        \/ read_profile_file \/ read_file

Spec == Init /\ [][Next]_vars

-----------------------------------------------------------------------------
(* Properties.                                                              *)

\* In whatever order the two programs are run, on whatever sizes: as long as
\* elfie has only met files whose name table is behind all other sections,
\* every section can be read back, and is called what it was called before.
\* A second elfie meets its first profile there: it is not such a file.
SectionsReadable ==
  inOrder =>
    /\ Whole(file, disk)
    /\ \A i \in DOMAIN file.secs : elf_strptr(file, disk, i) = named[i]

\* The reader of the file, who takes the first section called .profile, gets
\* the profile that elf_manipulator was given last, unless it had the size of
\* the one before; elfie adds another one behind it.
FirstProfileGiven ==
  last.tool = "manipulator" /\ last.end = "ok" /\ runs > 0 =>
    \E i \in DOMAIN named :
      /\ named[i] = ".profile" /\ \A j \in 1..(i - 1) : named[j] # ".profile"
      /\ file.secs[i].data.content = last.given

\* elf_manipulator leaves the segments of a program loadable only if its sections
\* followed each other without a gap and in the order of their numbers.
LoadedMoveOnlyFromGaps ==
  LET stays(i) == file.secs[i].off = orig.secs[i].off
      loads == {i \in DOMAIN orig.secs : orig.secs[i].alloc} IN
  (\A i \in loads : stays(i)) <=> (~laid \/ \A i \in loads : Laid(orig).secs[i].off = orig.secs[i].off)
=============================================================================
