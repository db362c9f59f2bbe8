------------------------------ MODULE TimedRuns ------------------------------
(***************************************************************************)
(* What the profiler promises of a series of runs: each program is          *)
(* launched, its function is timed once, from entry to return, and what is  *)
(* added to the total is the function's own cost.                           *)
(***************************************************************************)
EXTENDS Naturals

CONSTANTS Runs, BodyCost

VARIABLES phase, ended, total

vars == <<phase, ended, total>>

Init == phase = "idle" /\ ended = 0 /\ total = 0

Move(from, to) == phase = from /\ phase' = to

Launch == Move("idle", "launched") /\ ended < Runs /\ UNCHANGED <<ended, total>>
Open   == Move("launched", "timing") /\ UNCHANGED <<ended, total>>
Close  == Move("timing", "timed") /\ total' = total + BodyCost /\ UNCHANGED ended
End    == Move("timed", "idle") /\ ended' = ended + 1 /\ UNCHANGED total

Next == Launch \/ Open \/ Close \/ End

Spec == Init /\ [][Next]_vars
=============================================================================
