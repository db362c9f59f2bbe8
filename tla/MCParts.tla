------------------------------ MODULE MCParts ------------------------------
(***************************************************************************)
(* Parts that share nothing and run alone: the profiler's main over its     *)
(* launches, the page that both_multiple.c makes noncacheable, the tools    *)
(* that put profiles into ELF files, the localization that is profiled, and *)
(* the matrix routines it and the other benchmarks call.  A behaviour of    *)
(* this module is one of one of them, the one that part names.              *)
(*                                                                          *)
(* Files are as linkers leave them: the name table behind all other         *)
(* sections; the name table before the headers and the symbols, as older    *)
(* ones do; a gap between two loaded sections.                              *)
(***************************************************************************)
EXTENDS MCCampaign, PageFlip, Elf, Localization, Matrix

VARIABLE part

Sec(name, off, size, alloc, strings) ==
  [name |-> name, off |-> off, size |-> size, alloc |-> alloc,
   data |-> [content |-> 0 - name, strings |-> strings]]
Strings == <<".text", ".data", ".symtab", ".shstrtab">>
File(data, symbols, names, headers) ==
  [secs |-> <<Sec(1, 1, 2, TRUE, << >>), Sec(2, data, 1, TRUE, << >>),
              Sec(3, symbols, 2, FALSE, << >>), Sec(4, names, 3, FALSE, Strings)>>,
   shstrndx |-> 4, shoff |-> headers]
MCFiles == {File(3, 4, 6, 9), File(3, 13, 4, 8), File(5, 6, 8, 11)}

\* The records of a file, each with the rows it takes; a last one may be cut short.
Whole1 == {<<Odometry>>, <<Gyro>>, <<Accelerometer>>, <<Gps, 0>>}
MCInputs == {FlattenSeq(rs) : rs \in UNION {[1..n -> Whole1] : n \in 0..4}}
            \cup {Append(FlattenSeq(rs), Gps) : rs \in UNION {[1..n -> Whole1] : n \in 0..1}}

MCVectors == UNION {[1..n -> -1..2] : n \in 1..4}
Grid(h, w, v) == Mat(h, w, LAMBDA i, j : (i * v + j * j + 1) % 4)
MCImages == {Grid(h, w, v) : h \in {1, 2, 5, 6}, w \in {1, 4, 6}, v \in {2, 3}}
MCKernels == {Grid(h, w, 1) : h \in 1..3, w \in 1..3}
MCResults == UNION {[1..n -> {-1, 1, 3}] : n \in 1..3}

\* The parts that are not run stand still where they start.
MCInit ==
  /\ part \in {"campaign", "page", "elf", "localization", "matrix"}
  /\ CampaignInit /\ FlipInit /\ Init /\ LocalizationInit /\ MInit
  /\ part # "campaign" => /\ phase = "options" /\ params.n = 0
                          /\ cmd = CHOOSE c \in CommandLines : TRUE
  /\ part # "elf" => orig = CHOOSE f \in Files : TRUE
  /\ part # "localization" => fid = << >>

MCNext ==
  /\ UNCHANGED part
  /\ \/ part = "campaign" /\ CampaignNext /\ UNCHANGED <<fvars, vars, lvars, mvars>>
     \/ part = "page" /\ FlipNext /\ UNCHANGED <<cvars, vars, lvars, mvars>>
     \/ part = "elf" /\ Next /\ UNCHANGED <<cvars, fvars, lvars, mvars>>
     \/ part = "localization" /\ LocalizationNext /\ UNCHANGED <<cvars, fvars, vars, mvars>>
     \/ part = "matrix" /\ MNext /\ UNCHANGED <<cvars, fvars, vars, lvars>>

MCSpec == MCInit /\ [][MCNext]_<<cvars, fvars, vars, lvars, mvars, part>>
=============================================================================
