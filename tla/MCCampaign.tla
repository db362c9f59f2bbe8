---------------------------- MODULE MCCampaign ----------------------------
(***************************************************************************)
(* Instances of Campaign: command lines that are accepted, and the ones     *)
(* that are refused for each reason; programs with and without a heap.      *)
(***************************************************************************)
EXTENDS Campaign

Opt(o, a) == [opt |-> o, arg |-> a]
Thumb   == [name |-> "f", value |-> 9]
Program == [readable |-> TRUE, symtabs |-> << <<[name |-> "g", value |-> 4], Thumb>> >>]
Line(options) == [options |-> options, command |-> TRUE, elf |-> Program]
AllOptions == <<Opt("n", 2), Opt("c", FALSE), Opt("s", "f")>>

MCCommandLines ==
  {Line(AllOptions), Line(<<Opt("s", "f")>>), Line(<<Opt("s", "f"), Opt("n", 0)>>),
   Line(<<Opt("n", 2)>>), Line(<<Opt("h", "x"), Opt("?", "x")>>),
   Line(<<Opt("m", "run"), Opt("?", "x")>>), Line(<<Opt("s", "f"), Opt("n", -1)>>),
   Line(<<Opt("s", "none")>>),
   [Line(AllOptions) EXCEPT !.command = FALSE],
   [Line(AllOptions) EXCEPT !.elf.readable = FALSE],
   [Line(AllOptions) EXCEPT !.elf.symtabs = << >>]}

Map(file, pages) == [file |-> file, pages |-> pages]
Text == Map("/bin/prog", 1)
Impostor == Map("/tmp/[heap]", 2)

MCMaps == {<<Text, Map("", 1)>>, <<Text, Map("[heap]", 3), Impostor>>,
           <<Text, Map("[heap]", 1)>>}
=============================================================================
