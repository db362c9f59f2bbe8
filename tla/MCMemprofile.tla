---------------------------- MODULE MCMemprofile ----------------------------
(***************************************************************************)
(* Instances of Memprofile: what functime asks (one listed page, 0 for      *)
(* none), and what the interface allows besides (several pages, one above   *)
(* the heap, a process that does not exist, an unmapped pointer, no page).  *)
(***************************************************************************)
EXTENDS Memprofile

Bystander == 10
Traced    == 11
Gone      == 99

MCTasks == <<Bystander, Traced>>

MCRequests ==
  [buff : {<<0>>, <<1>>, <<2>>, <<3>>, <<1, 2>>, <<2, 4>>},
   shouldSkip : BOOLEAN, pid : {Traced, Gone}, bad : {"none"}]
  \cup [buff : {<<1>>}, shouldSkip : BOOLEAN, pid : {Traced, Gone},
        bad : {"params", "list"}]

\* Two writers, with lists of different lengths, about different processes.
MCShortAndLong ==
  [buff : {<< >>, <<1>>, <<1, 2>>}, shouldSkip : {FALSE}, pid : {Traced},
   bad : {"none"}]
  \cup [buff : {<<1>>}, shouldSkip : {FALSE}, pid : {Gone},
        bad : {"none", "params", "list"}]
=============================================================================
