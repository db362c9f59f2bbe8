---------------------------- MODULE TracerProofs ----------------------------
(***************************************************************************)
(* Proofs about the tracer that hold for every number of runs, every cost,  *)
(* every counter width and, for the first three theorems, every schedule    *)
(* and every mishap of the tracee.                                          *)
(***************************************************************************)
EXTENDS Tracer, TLAPS
LEMMA TickType ==
  ASSUME NEW t \in 0..(ClockMod - 1), NEW c \in {BodyCost, OtherCost, HandlerCost}
  PROVE  Tick(t, c) \in 0..(ClockMod - 1)
BY CostAssumption DEF Tick

LEMMA ElapsedType ==
  ASSUME NEW t \in 0..(ClockMod - 1), NEW u \in 0..(ClockMod - 1)
  PROVE  Elapsed(t, u) \in Nat
BY CostAssumption DEF Elapsed

LEMMA ElapsedTick ==
  ASSUME NEW t \in 0..(ClockMod - 1)
  PROVE  Elapsed(t, Tick(t, BodyCost)) = BodyCost
BY CostAssumption DEF Elapsed, Tick

-----------------------------------------------------------------------------
(* The types, a group of variables at a time.                               *)

LEMMA InitTypes == Init => TypeOK
<1> SUFFICES ASSUME Init PROVE TypeOK
  OBVIOUS
<1>1. ControlTypes /\ FlagTypes
  BY DEF Init, ControlTypes, FlagTypes, Stages
<1>2. MeasureTypes
  BY CountAssumption, CostAssumption, EnvironmentAssumption DEF Init, MeasureTypes
<1>3. TraceeTypes /\ PatchTypes
  BY DEF Init, TraceeTypes, PatchTypes, Words
<1> QED BY <1>1, <1>2, <1>3 DEF TypeOK

LEMMA ControlStep == TypeOK /\ [Next]_vars => ControlTypes'
<1> SUFFICES ASSUME TypeOK, [Next]_vars PROVE ControlTypes'
  OBVIOUS
<1> USE DEF TypeOK, ControlTypes
<1>1. CASE MainStep
  BY <1>1 DEF MainStep, run_debuggee, AssignPid, InstallHandler, CheckDone,
    Sigsuspend, ResetDone, sigVars
<1>2. CASE HandlerStep
  <2> USE DEF HandlerStep, mainVars
  <2>1. CASE Deliver \/ WaitNone \/ WaitStopped \/ WaitExited \/ WaitSignaled
    BY <2>1 DEF Deliver, WaitNone, WaitStopped, WaitExited, WaitSignaled, Statuses
  <2>2. CASE WaitNoChild
    BY <2>2, EnvironmentAssumption DEF WaitNoChild, Statuses
  <2>3. CASE StageInit \/ StageEntry \/ StageExit
    BY <2>3 DEF StageInit, StageEntry, StageExit, Resume
  <2>4. CASE TraceFails \/ AdvanceStage
    BY <2>4 DEF TraceFails, AdvanceStage, After, Stages
  <2> QED BY <1>2, <2>1, <2>2, <2>3, <2>4
<1>3. CASE TraceeStep \/ UNCHANGED vars
  BY <1>3 DEF TraceeStep, Exec, CallFunction, HitBreakpoint, EnterBody, RunBody,
    ContinueAfterCall, SegFault, ProgramExits, OnlyTracee, mainVars, sigVars, vars
<1>4. CASE FaultStep
  BY <1>4 DEF FaultStep, LaunchFails, ExitsEarly, IsKilled, GetsSignal, ForkFails,
    OnlyTracee, mainVars, sigVars
<1> QED BY <1>1, <1>2, <1>3, <1>4 DEF Next, Finished

LEMMA FlagStep == TypeOK /\ [Next]_vars => FlagTypes'
<1> SUFFICES ASSUME TypeOK, [Next]_vars PROVE FlagTypes'
  OBVIOUS
<1> USE DEF TypeOK, FlagTypes
<1>1. CASE MainStep
  BY <1>1 DEF MainStep, run_debuggee, AssignPid, InstallHandler, CheckDone,
    Sigsuspend, ResetDone, sigVars, kernelVars
<1>2. CASE HandlerStep
  <2> USE DEF HandlerStep, mainVars, kernelVars
  <2>1. CASE Deliver \/ WaitNone \/ WaitStopped \/ WaitExited \/ WaitSignaled
              \/ WaitNoChild \/ TraceFails \/ AdvanceStage
    BY <2>1 DEF Deliver, WaitNone, WaitStopped, WaitExited, WaitSignaled,
      WaitNoChild, TraceFails, AdvanceStage
  <2>2. CASE StageInit \/ StageEntry \/ StageExit
    BY <2>2 DEF StageInit, StageEntry, StageExit, Resume, ConfigureKernel
  <2> QED BY <1>2, <2>1, <2>2
<1>3. CASE TraceeStep \/ UNCHANGED vars
  BY <1>3 DEF TraceeStep, Exec, CallFunction, HitBreakpoint, EnterBody, RunBody,
    ContinueAfterCall, SegFault, ProgramExits, ChangeState, Notify, OnlyTracee,
    mainVars, sigVars, kernelVars, vars
<1>4. CASE FaultStep
  BY <1>4 DEF FaultStep, LaunchFails, ExitsEarly, IsKilled, GetsSignal, ForkFails,
    ChangeState, Notify, OnlyTracee, mainVars, sigVars, kernelVars
<1> QED BY <1>1, <1>2, <1>3, <1>4 DEF Next, Finished

LEMMA MeasureStep == TypeOK /\ [Next]_vars => MeasureTypes'
<1> SUFFICES ASSUME TypeOK, [Next]_vars PROVE MeasureTypes'
  OBVIOUS
<1> USE DEF TypeOK, MeasureTypes
<1>1. CASE MainStep
  <2>1. CASE run_debuggee
    BY <2>1, CountAssumption DEF run_debuggee, timeVars
  <2>2. CASE AssignPid \/ InstallHandler \/ CheckDone \/ Sigsuspend \/ ResetDone
    BY <2>2 DEF AssignPid, InstallHandler, CheckDone, Sigsuspend, ResetDone,
      timeVars, kernelVars
  <2> QED BY <1>1, <2>1, <2>2 DEF MainStep
<1>2. CASE HandlerStep
  <2> USE DEF HandlerStep, mainVars, timeVars, kernelVars
  <2>1. CASE Deliver \/ WaitNone \/ WaitStopped \/ WaitExited \/ WaitSignaled
              \/ WaitNoChild \/ TraceFails \/ AdvanceStage
    BY <2>1 DEF Deliver, WaitNone, WaitStopped, WaitExited, WaitSignaled,
      WaitNoChild, TraceFails, AdvanceStage
  <2>2. CASE StageInit
    BY <2>2 DEF StageInit, Resume
  <2>3. CASE StageEntry
    <3>1. clock' \in 0..(ClockMod - 1)
      BY <2>3, TickType DEF StageEntry
    <3> QED BY <2>3, <3>1, CountAssumption DEF StageEntry, ConfigureKernel, Resume
  <2>4. CASE StageExit
    <3>1. clock' \in 0..(ClockMod - 1)
      BY <2>4, TickType DEF StageExit
    <3>2. samples' \in Nat
      BY <2>4, ElapsedType DEF StageExit
    <3> QED BY <2>4, <3>1, <3>2 DEF StageExit, Resume
  <2> QED BY <1>2, <2>1, <2>2, <2>3, <2>4
<1>3. CASE TraceeStep
  <2> USE DEF OnlyTracee, mainVars, timeVars, kernelVars
  <2>1. CASE CallFunction
    BY <2>1, TickType DEF CallFunction
  <2>2. CASE RunBody
    BY <2>2, TickType DEF RunBody
  <2>3. CASE Exec \/ HitBreakpoint \/ SegFault \/ ProgramExits \/ EnterBody
              \/ ContinueAfterCall
    BY <2>3 DEF Exec, HitBreakpoint, SegFault, ProgramExits, EnterBody,
      ContinueAfterCall, ChangeState
  <2> QED BY <1>3, <2>1, <2>2, <2>3 DEF TraceeStep
<1>4. CASE FaultStep
  BY <1>4, EnvironmentAssumption DEF FaultStep, LaunchFails, ExitsEarly, IsKilled,
    GetsSignal, ForkFails, Fault, ChangeState, OnlyTracee, mainVars, timeVars, kernelVars
<1>5. CASE UNCHANGED vars
  BY <1>5 DEF vars, mainVars, timeVars, kernelVars
<1> QED BY <1>1, <1>2, <1>3, <1>4, <1>5 DEF Next, Finished

LEMMA TraceeTypesStep == TypeOK /\ [Next]_vars => TraceeTypes'
<1> SUFFICES ASSUME TypeOK, [Next]_vars PROVE TraceeTypes'
  OBVIOUS
<1> USE DEF TypeOK, TraceeTypes
<1>1. CASE MainStep
  BY <1>1, CountAssumption DEF MainStep, run_debuggee, AssignPid, InstallHandler,
    CheckDone, Sigsuspend, ResetDone,
    traceeVars
<1>2. CASE HandlerStep
  BY <1>2 DEF HandlerStep, Deliver, WaitNone, WaitStopped, WaitExited, WaitSignaled,
    WaitNoChild, StageInit, StageEntry, StageExit, TraceFails, AdvanceStage, Resume,
    traceeVars, PatchTypes, Addrs
<1>3. CASE TraceeStep
  BY <1>3 DEF TraceeStep, Exec, CallFunction, HitBreakpoint, EnterBody, RunBody,
    ContinueAfterCall, SegFault, ProgramExits, ChangeState, Stops, Addrs
<1>4. CASE FaultStep
  BY <1>4 DEF FaultStep, LaunchFails, ExitsEarly, IsKilled, GetsSignal, ForkFails,
    ChangeState, traceeVars, Stops
<1>5. CASE UNCHANGED vars
  BY <1>5 DEF vars, traceeVars
<1> QED BY <1>1, <1>2, <1>3, <1>4, <1>5 DEF Next, Finished

LEMMA PatchStep == TypeOK /\ [Next]_vars => PatchTypes'
<1> SUFFICES ASSUME TypeOK, [Next]_vars PROVE PatchTypes'
  OBVIOUS
<1> USE DEF TypeOK, PatchTypes
<1>1. CASE MainStep
  BY <1>1 DEF MainStep, run_debuggee, AssignPid, InstallHandler,
    CheckDone, Sigsuspend, ResetDone,
    patchVars, Words
<1>2. CASE HandlerStep
  <2> USE DEF HandlerStep, patchVars
  <2>1. CASE Deliver \/ WaitNone \/ WaitStopped \/ WaitExited \/ WaitSignaled
              \/ WaitNoChild \/ TraceFails \/ AdvanceStage
    BY <2>1 DEF Deliver, WaitNone, WaitStopped, WaitExited, WaitSignaled,
      WaitNoChild, TraceFails, AdvanceStage
  <2>2. CASE StageInit
    BY <2>2 DEF StageInit, Plant, Peek, Addrs, Words
  <2>3. CASE StageEntry
    BY <2>3 DEF StageEntry, Plant, Restore, Peek, TraceeTypes, Addrs, Words
  <2>4. CASE StageExit
    BY <2>4 DEF StageExit, Restore, Addrs, Words
  <2> QED BY <1>2, <2>1, <2>2, <2>3, <2>4
<1>3. CASE TraceeStep \/ UNCHANGED vars
  BY <1>3 DEF TraceeStep, Exec, CallFunction, HitBreakpoint, EnterBody, RunBody,
    ContinueAfterCall, SegFault, ProgramExits, OnlyTracee, patchVars, vars
<1>4. CASE FaultStep
  BY <1>4 DEF FaultStep, LaunchFails, ExitsEarly, IsKilled, GetsSignal, ForkFails,
    OnlyTracee, patchVars
<1> QED BY <1>1, <1>2, <1>3, <1>4 DEF Next, Finished

(* Every variable keeps its type (functime.c:80-87, 128-133, 139-149, 633). *)
THEOREM TypeCorrect == Spec => []TypeOK
<1>1. TypeOK /\ [Next]_vars => TypeOK'
  BY ControlStep, FlagStep, MeasureStep, TraceeTypesStep, PatchStep DEF TypeOK
<1> QED BY InitTypes, <1>1, PTL DEF Spec

-----------------------------------------------------------------------------
(* Breakpoints.  A word is overwritten only in the stage that waits for it, *)
(* and by then its original is saved; Armed, not stage, is what the tracee  *)
(* sees between PTRACE_CONT and the assignment of stage.                    *)
PatchInv ==
  /\ \A a \in Addrs : text[a] \in {"instr", "brk"}
  /\ brkpnt_data["ENTRY"] \in {"unset", "instr"}
  /\ Armed \in {"ENTRY", "EXIT"} => brkpnt_data["ENTRY"] = "instr"
  /\ Armed = "EXIT" /\ ret_addr = "return" => brkpnt_data["EXIT"] = "instr"
  /\ text["entry"] = "brk" => Armed = "ENTRY"
  /\ text["return"] = "brk" => Armed = "EXIT" /\ ret_addr = "return"

\* Steps of the tracee and of main leave the patches and the stage alone,
\* except that a launch loads a fresh copy of the program.
LEMMA PatchFrame ==
  ASSUME TypeOK, MainStep \/ TraceeStep \/ FaultStep \/ UNCHANGED vars
  PROVE  /\ UNCHANGED <<brkpnt_data, ret_addr, stage, handler>>
         /\ text' = text \/ text' = [a \in Addrs |-> "instr"]
<1>1. CASE MainStep
  BY <1>1 DEF MainStep, run_debuggee, AssignPid, InstallHandler, CheckDone,
    Sigsuspend, ResetDone, sigVars, patchVars
<1>2. CASE TraceeStep \/ UNCHANGED vars
  BY <1>2 DEF TraceeStep, Exec, CallFunction, HitBreakpoint, EnterBody, RunBody,
    ContinueAfterCall, SegFault, ProgramExits, OnlyTracee, patchVars, sigVars, vars
<1>3. CASE FaultStep
  BY <1>3 DEF FaultStep, LaunchFails, ExitsEarly, IsKilled, GetsSignal, ForkFails,
    OnlyTracee, patchVars, sigVars
<1> QED BY <1>1, <1>2, <1>3

LEMMA PatchInvStep == TypeOK /\ PatchInv /\ [Next]_vars => PatchInv'
<1> SUFFICES ASSUME TypeOK, PatchInv, [Next]_vars PROVE PatchInv'
  OBVIOUS
<1> USE DEF PatchInv, Armed, After
<1>1. CASE MainStep \/ TraceeStep \/ FaultStep \/ UNCHANGED vars
  BY <1>1, PatchFrame DEF Addrs
<1>2. CASE HandlerStep
  <2> USE DEF HandlerStep, patchVars, HandlerAt
  <2>1. CASE Deliver \/ WaitNone \/ WaitStopped \/ WaitExited \/ WaitSignaled
              \/ TraceFails
    BY <2>1 DEF Deliver, WaitNone, WaitStopped, WaitExited, WaitSignaled, TraceFails
  <2>2. CASE WaitNoChild
    BY <2>2, EnvironmentAssumption DEF WaitNoChild, Statuses
  <2>3. CASE StageInit
    BY <2>3 DEF StageInit, Resume, Plant, Peek, Addrs, TypeOK, PatchTypes
  <2>4. CASE StageEntry
    BY <2>4 DEF StageEntry, Resume, Plant, Restore, Peek, Addrs, TypeOK, PatchTypes,
      TraceeTypes
  <2>5. CASE StageExit
    BY <2>5 DEF StageExit, Resume, Restore, Addrs, TypeOK, PatchTypes
  <2>6. CASE AdvanceStage
    BY <2>6 DEF AdvanceStage, TypeOK, ControlTypes, Stages
  <2> QED BY <1>2, <2>1, <2>2, <2>3, <2>4, <2>5, <2>6
<1> QED BY <1>1, <1>2 DEF Next, Finished

(* Under every schedule and every mishap, an overwritten instruction can be *)
(* put back (functime.c:537, 570, 583-584, 610).                            *)
THEOREM Recoverable == Spec => []PlantedIsRecoverable
<1>1. Init => PatchInv
  BY DEF Init, PatchInv, Armed, Addrs
<1>2. PatchInv => PlantedIsRecoverable
  BY DEF PatchInv, PlantedIsRecoverable, Armed, After
<1> QED BY <1>1, <1>2, PatchInvStep, TypeCorrect, PTL DEF Spec

-----------------------------------------------------------------------------
(* The done flag.  It is up only when no child is left, and main is past    *)
(* the sigsuspend loop only when no SIGCHLD can still arrive.               *)
ReapInv ==
  /\ main \in {"fork", "reset", "over"} =>
       child = "none" /\ handler = "off" /\ ~pending
  /\ main = "fork" => ~done
  /\ done => child = "none"

LEMMA ReapInvStep == TypeOK /\ ReapInv /\ [Next]_vars => ReapInv'
<1> SUFFICES ASSUME TypeOK, ReapInv, [Next]_vars PROVE ReapInv'
  OBVIOUS
<1> USE DEF ReapInv
<1>1. CASE MainStep
  BY <1>1 DEF MainStep, run_debuggee, AssignPid, InstallHandler, CheckDone, Sigsuspend,
    ResetDone, MainAt, mainVars, sigVars, traceeVars
<1>2. CASE HandlerStep
  <2> USE DEF HandlerStep, HandlerAt, TracerRuns, mainVars, traceeVars
  <2>1. CASE Deliver \/ WaitNone \/ WaitStopped \/ WaitExited \/ WaitSignaled
              \/ TraceFails \/ AdvanceStage
    BY <2>1 DEF Deliver, WaitNone, WaitStopped, WaitExited, WaitSignaled,
      TraceFails, AdvanceStage
  <2>2. CASE WaitNoChild
    BY <2>2 DEF WaitNoChild
  <2>3. CASE StageInit \/ StageEntry \/ StageExit
    BY <2>3 DEF StageInit, StageEntry, StageExit, Resume, Stops
  <2> QED BY <1>2, <2>1, <2>2, <2>3
<1>3. CASE TraceeStep
  BY <1>3 DEF TraceeStep, Exec, CallFunction, HitBreakpoint, EnterBody, RunBody,
    ContinueAfterCall, SegFault, ProgramExits, ChangeState, OnlyTracee, TraceeAt,
    mainVars
<1>4. CASE FaultStep
  BY <1>4 DEF FaultStep, LaunchFails, ExitsEarly, IsKilled, GetsSignal, ForkFails,
    ChangeState, OnlyTracee, Stops, mainVars, sigVars, traceeVars
<1>5. CASE UNCHANGED vars
  BY <1>5 DEF vars, mainVars, sigVars, traceeVars
<1> QED BY <1>1, <1>2, <1>3, <1>4, <1>5 DEF Next, Finished

(* Under every schedule and every mishap, whatever an uninitialized wstat   *)
(* looks like, no program is launched over one that was not reaped          *)
(* (functime.c:642-657, 685-692, 842).                                      *)
THEOREM ReapedBeforeFork == Spec => []NoForkOverLiveTracee
<1>1. Init => ReapInv
  BY DEF Init, ReapInv
<1>2. ReapInv => NoForkOverLiveTracee
  BY DEF ReapInv, NoForkOverLiveTracee
<1> QED BY <1>1, <1>2, ReapInvStep, TypeCorrect, PTL DEF Spec

-----------------------------------------------------------------------------
(* The timed window, when the program calls its function and meets no       *)
(* mishap.  WindowInv lists the situations a run goes through, in order.    *)
Code(e, r) == text["entry"] = e /\ text["return"] = r

NoChild    == child = "none" /\ Armed = "INIT"
Launched   == /\ child \in {"forked", "execstop"} /\ Armed = "INIT"
              /\ loc = "start" /\ calls > 0 /\ Code("instr", "instr")
BeforeCall == /\ child = "running" /\ Armed = "ENTRY"
              /\ loc = "start" /\ calls > 0 /\ Code("brk", "instr")
AtEntry    == /\ child \in {"running", "trapstop"} /\ Armed = "ENTRY"
              /\ loc = "entry" /\ lr = "return" /\ Code("brk", "instr")
InWindow   == /\ child = "running" /\ Armed = "EXIT"
              /\ loc \in {"entry", "inside"} /\ lr = "return" /\ ret_addr = "return"
              /\ Code("instr", "brk") /\ clock = t_start
AtReturn   == /\ child \in {"running", "trapstop"} /\ Armed = "EXIT"
              /\ loc = "return" /\ lr = "return" /\ ret_addr = "return"
              /\ Code("instr", "brk") /\ clock = Tick(t_start, BodyCost)
AfterCall  == /\ child = "running" /\ Armed = "INIT"
              /\ loc \in {"return", "outside", "entry", "inside"} /\ lr = "return"
              /\ Code("instr", "instr")
Exited     == child = "exited" /\ Armed = "INIT" /\ loc = "outside"

WindowInv ==
  /\ \/ NoChild \/ Launched \/ BeforeCall \/ AtEntry
     \/ InWindow \/ AtReturn \/ AfterCall \/ Exited
  /\ handler = "resumed" => child \in {"running", "trapstop", "exited"}
  /\ handler = "trap" => child \in {"none"} \cup Stops

Invs == TypeOK /\ PatchInv /\ ReapInv /\ WindowInv

Undisturbed == FaultKinds = {} /\ 0 \notin CallCounts

LEMMA NoFault == Undisturbed => ~FaultStep
BY DEF Undisturbed, FaultStep, LaunchFails, ExitsEarly, IsKilled, GetsSignal, ForkFails,
  Fault

LEMMA WindowMain ==
  ASSUME Undisturbed, Invs, MainStep PROVE WindowInv'
<1> USE DEF Invs, WindowInv, Code, Armed, NoChild
<1>1. CASE run_debuggee
  <2>1. calls' > 0
    BY <1>1, CountAssumption DEF run_debuggee, Undisturbed
  <2>2. NoChild /\ handler = "off"
    BY <1>1 DEF run_debuggee, ReapInv, MainAt, Launched, BeforeCall, AtEntry, InWindow,
      AtReturn, AfterCall, Exited
  <2>3. Launched'
    BY <1>1, <2>1, <2>2 DEF run_debuggee, Launched, sigVars, Addrs
  <2> QED BY <1>1, <2>2, <2>3 DEF run_debuggee, sigVars
<1>2. CASE AssignPid \/ InstallHandler \/ CheckDone \/ Sigsuspend \/ ResetDone
  BY <1>2 DEF AssignPid, InstallHandler, CheckDone, Sigsuspend, ResetDone, Launched,
    BeforeCall, AtEntry, InWindow, AtReturn, AfterCall, Exited, sigVars, timeVars,
    traceeVars, patchVars
<1> QED BY <1>1, <1>2 DEF MainStep

LEMMA WindowHandler ==
  ASSUME Undisturbed, Invs, HandlerStep PROVE WindowInv'
<1> USE DEF Invs, WindowInv, Code, Armed, After, HandlerAt
<1>1. CASE Deliver \/ WaitNone \/ WaitStopped \/ TraceFails
  BY <1>1 DEF Deliver, WaitNone, WaitStopped, TraceFails, NoChild, Launched, BeforeCall,
    AtEntry, InWindow, AtReturn, AfterCall, Exited, timeVars, traceeVars, patchVars
<1>2. CASE WaitExited \/ WaitSignaled
  BY <1>2 DEF WaitExited, WaitSignaled, NoChild, Launched, BeforeCall, AtEntry,
    InWindow, AtReturn, AfterCall, Exited
<1>3. CASE WaitNoChild
  <2>1. handler' \in {"trap", "off", "wait"}
    BY <1>3 DEF WaitNoChild
  <2>2. NoChild
    BY <1>3 DEF WaitNoChild, NoChild, Launched, BeforeCall, AtEntry, InWindow, AtReturn,
      AfterCall, Exited
  <2> QED BY <1>3, <2>1, <2>2 DEF WaitNoChild, NoChild, traceeVars
<1>4. CASE StageInit
  <2>1. Launched
    BY <1>4 DEF StageInit, NoChild, Launched, BeforeCall, AtEntry, InWindow, AtReturn,
      AfterCall, Exited, Stops
  <2>2. BeforeCall'
    BY <1>4, <2>1 DEF StageInit, Launched, BeforeCall, Resume, Plant, Addrs
  <2> QED BY <1>4, <2>2 DEF StageInit, Resume
<1>5. CASE StageEntry
  <2>1. AtEntry
    BY <1>5 DEF StageEntry, NoChild, Launched, BeforeCall, AtEntry, InWindow, AtReturn,
      AfterCall, Exited, Stops
  <2>2. brkpnt_data["ENTRY"] = "instr"
    BY <1>5 DEF StageEntry, PatchInv
  <2>3. Code("instr", "brk")'
    BY <1>5, <2>1, <2>2 DEF StageEntry, AtEntry, Plant, Restore, Addrs, TypeOK, PatchTypes
  <2>4. InWindow'
    BY <1>5, <2>1, <2>3 DEF StageEntry, AtEntry, InWindow, Resume
  <2> QED BY <1>5, <2>4 DEF StageEntry, Resume
<1>6. CASE StageExit
  <2>1. AtReturn
    BY <1>6 DEF StageExit, NoChild, Launched, BeforeCall, AtEntry, InWindow, AtReturn,
      AfterCall, Exited, Stops
  <2>2. brkpnt_data["EXIT"] = "instr"
    BY <1>6, <2>1 DEF StageExit, PatchInv, AtReturn
  <2>3. Code("instr", "instr")'
    BY <1>6, <2>1, <2>2 DEF StageExit, AtReturn, Restore, Addrs, TypeOK, PatchTypes
  <2>4. AfterCall'
    BY <1>6, <2>1, <2>3 DEF StageExit, AtReturn, AfterCall, Resume
  <2> QED BY <1>6, <2>4 DEF StageExit, Resume
<1>7. CASE AdvanceStage
  <2>1. Armed' = Armed
    BY <1>7 DEF AdvanceStage
  <2> HIDE DEF Armed
  <2> QED BY <1>7, <2>1 DEF AdvanceStage, NoChild, Launched, BeforeCall, AtEntry,
        InWindow, AtReturn, AfterCall, Exited, timeVars, traceeVars, patchVars
<1> QED BY <1>1, <1>2, <1>3, <1>4, <1>5, <1>6, <1>7 DEF HandlerStep

LEMMA WindowTracee ==
  ASSUME Undisturbed, Invs, TraceeStep PROVE WindowInv'
<1>0. Armed' = Armed /\ handler' = handler
  BY DEF TraceeStep, Exec, CallFunction, HitBreakpoint, EnterBody, RunBody,
    ContinueAfterCall, SegFault, ProgramExits, OnlyTracee, Armed
<1> USE <1>0 DEF Invs, WindowInv, Code, TraceeAt, OnlyTracee, timeVars, patchVars
<1>1. CASE Exec
  BY <1>1 DEF Exec, ChangeState, NoChild, Launched, BeforeCall, AtEntry, InWindow,
    AtReturn, AfterCall, Exited, Stops
<1>2. CASE CallFunction
  BY <1>2 DEF CallFunction, NoChild, Launched, BeforeCall, AtEntry, InWindow,
    AtReturn, AfterCall, Exited
<1>3. CASE HitBreakpoint
  BY <1>3 DEF HitBreakpoint, ChangeState, NoChild, Launched, BeforeCall, AtEntry,
    InWindow, AtReturn, AfterCall, Exited, Addrs, Stops
<1>4. CASE EnterBody \/ ContinueAfterCall
  BY <1>4 DEF EnterBody, ContinueAfterCall, NoChild, Launched, BeforeCall, AtEntry,
    InWindow, AtReturn, AfterCall, Exited
<1>5. CASE RunBody
  BY <1>5 DEF RunBody, NoChild, Launched, BeforeCall, AtEntry, InWindow, AtReturn,
    AfterCall, Exited
<1>6. CASE SegFault
  BY <1>6 DEF SegFault, NoChild, Launched, BeforeCall, AtEntry, InWindow, AtReturn,
    AfterCall, Exited
<1>7. CASE ProgramExits
  <2>1. AfterCall /\ loc = "outside"
    BY <1>7 DEF ProgramExits, NoChild, Launched, BeforeCall, AtEntry, InWindow,
      AtReturn, AfterCall, Exited
  <2>2. Exited'
    BY <1>7, <2>1 DEF ProgramExits, ChangeState, AfterCall, Exited
  <2> QED BY <1>7, <2>1, <2>2 DEF ProgramExits, ChangeState, AfterCall, Stops
<1> QED BY <1>1, <1>2, <1>3, <1>4, <1>5, <1>6, <1>7 DEF TraceeStep

LEMMA WindowStep ==
  ASSUME Undisturbed, Invs, [Next]_vars PROVE WindowInv'
<1>1. CASE UNCHANGED vars
  BY <1>1 DEF vars, sigVars, timeVars, traceeVars, patchVars, Invs, WindowInv, Code,
    Armed, NoChild, Launched, BeforeCall, AtEntry, InWindow, AtReturn, AfterCall, Exited
<1> QED BY <1>1, NoFault, WindowMain, WindowHandler, WindowTracee DEF Next, Finished

LEMMA AllInvs == ASSUME Undisturbed PROVE Spec => []Invs
<1>1. Init => WindowInv
  BY DEF Init, WindowInv, NoChild, Armed
<1>2. Init => PatchInv /\ ReapInv
  BY DEF Init, PatchInv, ReapInv, Armed, Addrs
<1>3. TypeOK /\ [Next]_vars => TypeOK'
  BY ControlStep, FlagStep, MeasureStep, TraceeTypesStep, PatchStep DEF TypeOK
<1>4. Invs /\ [Next]_vars => Invs'
  BY <1>3, PatchInvStep, ReapInvStep, WindowStep DEF Invs
<1>5. Init => Invs
  BY <1>1, <1>2, InitTypes DEF Invs
<1> QED BY <1>4, <1>5, PTL DEF Spec

(* A running tracee differs from its program by exactly the breakpoint of   *)
(* the current stage (functime.c:533-626).                                  *)
THEOREM Discipline == ASSUME Undisturbed PROVE Spec => []BreakpointDiscipline
<1>1. Invs => BreakpointDiscipline
  BY DEF Invs, WindowInv, BreakpointDiscipline, Code, NoChild, Launched, BeforeCall,
    AtEntry, InWindow, AtReturn, AfterCall, Exited
<1> QED BY <1>1, AllInvs, PTL

(* Every stop is handled by the stage written for it (functime.c:531-598).  *)
THEOREM StageMatch == ASSUME Undisturbed PROVE Spec => []EventMatchesStage
<1>1. Invs => EventMatchesStage
  BY DEF Invs, WindowInv, EventMatchesStage, Armed, NoChild, Launched, BeforeCall,
    AtEntry, InWindow, AtReturn, AfterCall, Exited, Stops
<1> QED BY <1>1, AllInvs, PTL

-----------------------------------------------------------------------------
(* Refinement: a step of the tracer is a step of TimedRuns or changes       *)
(* nothing TimedRuns sees.                                                  *)
LEMMA PhaseOf ==
  /\ NoChild => Phase = "idle"
  /\ Launched \/ BeforeCall \/ AtEntry => Phase = "launched"
  /\ InWindow \/ AtReturn => Phase = "timing"
  /\ AfterCall \/ Exited => Phase = "timed"
BY DEF Phase, NoChild, Launched, BeforeCall, AtEntry, InWindow, AtReturn, AfterCall,
  Exited

\* What TimedRuns sees of a state.
Ended == IF child = "none" THEN run ELSE run - 1
Seen  == <<Phase, Ended, samples>>

LEMMA RefineMain == ASSUME Invs, MainStep PROVE Measure!Next \/ UNCHANGED Seen
<1>1. CASE run_debuggee
  <2>1. NoChild /\ handler = "off" /\ child = "none"
    BY <1>1 DEF run_debuggee, Invs, WindowInv, ReapInv, MainAt, NoChild, Launched,
      BeforeCall, AtEntry, InWindow, AtReturn, AfterCall, Exited
  <2>2. Phase = "idle" /\ Phase' = "launched"
    BY <1>1, <2>1 DEF run_debuggee, Phase
  <2>3. Ended = run /\ Ended' = run
    BY <1>1, <2>1 DEF run_debuggee, Ended, Invs, TypeOK, MeasureTypes
  <2> QED BY <1>1, <2>2, <2>3 DEF run_debuggee, Measure!Next, Measure!Launch,
        Measure!Move, Ended, timeVars
<1>2. CASE AssignPid \/ InstallHandler \/ CheckDone \/ Sigsuspend \/ ResetDone
  BY <1>2 DEF AssignPid, InstallHandler, CheckDone, Sigsuspend, ResetDone, Seen, Phase,
    Ended, Armed, sigVars, timeVars, traceeVars
<1> QED BY <1>1, <1>2 DEF MainStep

LEMMA RefineHandler ==
  ASSUME Undisturbed, Invs, HandlerStep PROVE Measure!Next \/ UNCHANGED Seen
<1> USE DEF Seen, Ended, HandlerAt
<1>1. CASE Deliver \/ WaitNone \/ WaitStopped \/ TraceFails \/ AdvanceStage
  <2>1. Armed' = Armed
    BY <1>1 DEF Deliver, WaitNone, WaitStopped, TraceFails, AdvanceStage, Armed, After
  <2> QED BY <1>1, <2>1 DEF Deliver, WaitNone, WaitStopped, TraceFails, AdvanceStage,
        Phase, mainVars, timeVars, traceeVars
<1>2. CASE WaitNoChild
  BY <1>2 DEF WaitNoChild, Phase, timeVars, traceeVars
<1>3. CASE WaitExited
  <2>1. Exited
    BY <1>3 DEF WaitExited, Invs, WindowInv, NoChild, Launched, BeforeCall, AtEntry,
      InWindow, AtReturn, AfterCall, Exited
  <2>2. Phase = "timed" /\ Phase' = "idle"
    BY <1>3, <2>1, PhaseOf DEF WaitExited, Phase
  <2>3. Ended = run - 1 /\ Ended' = Ended + 1
    BY <1>3 DEF WaitExited, Invs, TypeOK, MeasureTypes
  <2> QED BY <1>3, <2>2, <2>3 DEF WaitExited, Measure!Next, Measure!End, Measure!Move,
        timeVars
<1>4. CASE WaitSignaled
  BY <1>4 DEF WaitSignaled, Invs, WindowInv, NoChild, Launched, BeforeCall, AtEntry,
    InWindow, AtReturn, AfterCall, Exited
<1>5. CASE StageInit
  <2>1. Launched
    BY <1>5 DEF StageInit, Invs, WindowInv, NoChild, Launched, BeforeCall, AtEntry,
      InWindow, AtReturn, AfterCall, Exited, Armed, Stops
  <2> QED BY <1>5, <2>1 DEF StageInit, Resume, Launched, Phase, mainVars, timeVars
<1>6. CASE StageEntry
  <2>1. AtEntry
    BY <1>6 DEF StageEntry, Invs, WindowInv, NoChild, Launched, BeforeCall, AtEntry,
      InWindow, AtReturn, AfterCall, Exited, Armed, Stops
  <2>2. Phase = "launched" /\ Phase' = "timing"
    BY <1>6, <2>1, PhaseOf DEF StageEntry, Resume, Phase, Armed, After
  <2> QED BY <1>6, <2>1, <2>2 DEF StageEntry, Resume, AtEntry, Measure!Next,
        Measure!Open, Measure!Move, mainVars
<1>7. CASE StageExit
  <2>1. AtReturn
    BY <1>7 DEF StageExit, Invs, WindowInv, NoChild, Launched, BeforeCall, AtEntry,
      InWindow, AtReturn, AfterCall, Exited, Armed, Stops
  <2>2. Phase = "timing" /\ Phase' = "timed"
    BY <1>7, <2>1, PhaseOf DEF StageExit, AtReturn, Resume, Phase, Armed, After
  <2>3. samples' = samples + BodyCost
    BY <1>7, <2>1, ElapsedTick DEF StageExit, AtReturn, Invs, TypeOK, MeasureTypes
  <2> QED BY <1>7, <2>1, <2>2, <2>3 DEF StageExit, Resume, AtReturn, Measure!Next,
        Measure!Close, Measure!Move, mainVars
<1> QED BY <1>1, <1>2, <1>3, <1>4, <1>5, <1>6, <1>7 DEF HandlerStep

LEMMA RefineTracee == ASSUME Undisturbed, Invs, TraceeStep PROVE UNCHANGED Seen
<1>1. Armed' = Armed /\ UNCHANGED <<run, samples>>
  BY DEF TraceeStep, Exec, CallFunction, HitBreakpoint, EnterBody, RunBody,
    ContinueAfterCall, SegFault, ProgramExits, OnlyTracee, Armed, mainVars, timeVars
<1>2. child # "none" /\ child' # "none"
  BY DEF TraceeStep, Exec, CallFunction, HitBreakpoint, EnterBody, RunBody,
    ContinueAfterCall, SegFault, ProgramExits, ChangeState, TraceeAt
<1>3. Phase' = Phase
  <2>1. CASE Exec \/ HitBreakpoint \/ SegFault \/ ProgramExits
    BY <1>1, <1>2, <2>1 DEF Exec, HitBreakpoint, SegFault, ProgramExits, ChangeState, Phase
  <2>2. CASE CallFunction
    BY <1>1, <1>2, <2>2 DEF CallFunction, TraceeAt, Phase, Invs, WindowInv, NoChild,
      Launched, BeforeCall, AtEntry, InWindow, AtReturn, AfterCall, Exited
  <2>3. CASE EnterBody \/ RunBody \/ ContinueAfterCall
    BY <1>1, <1>2, <2>3 DEF EnterBody, RunBody, ContinueAfterCall, TraceeAt, Phase,
      Invs, TypeOK, TraceeTypes
  <2> QED BY <2>1, <2>2, <2>3 DEF TraceeStep
<1> QED BY <1>1, <1>2, <1>3 DEF Seen, Ended

(* Whatever the schedule, an undisturbed profiler times every run exactly   *)
(* once and adds exactly the body's cost to samples, across any number of   *)
(* wraps of the cycle counter (functime.c:589, 600-605).                    *)
THEOREM Refinement == ASSUME Undisturbed PROVE Spec => ImplementsTimedRuns
<1>1. Init => Measure!Init
  BY DEF Init, Measure!Init, Phase
<1>2. Invs /\ [Next]_vars => [Measure!Next]_(Measure!vars)
  <2> SUFFICES ASSUME Invs, [Next]_vars PROVE Measure!Next \/ UNCHANGED Seen
    BY DEF Measure!vars, Seen, Ended
  <2>1. CASE UNCHANGED vars
    BY <2>1 DEF vars, mainVars, sigVars, timeVars, traceeVars, Seen, Ended, Phase, Armed
  <2> QED BY <2>1, NoFault, RefineMain, RefineHandler, RefineTracee DEF Next, Finished
<1> QED BY <1>1, <1>2, AllInvs, PTL DEF Spec, ImplementsTimedRuns, Measure!Spec

-----------------------------------------------------------------------------
(***************************************************************************)
(* What the priorities of functime.c buy, for every number of runs: when    *)
(* neither process blocks in a system call, a stop of the tracee always     *)
(* reaches the tracer, and the pages of every timed body were set up.  Both *)
(* fail under other schedules.                                              *)
(***************************************************************************)

Strict == StrictFifo /\ Undisturbed

(* Under these priorities a run goes through the following situations.  The *)
(* child is held back until the tracer first sleeps; from then on the       *)
(* handler does not return before the program has ended.                    *)
HeldBack == /\ main \in {"assign", "install", "check", "enter", "suspended"}
            /\ child = "forked" /\ handler = "off" /\ ~pending
            /\ main # "assign" => tpid = run
            /\ main \notin {"assign", "install"} => installed
FirstStop == /\ main = "suspended" /\ handler = "off" /\ pending
             /\ child = "execstop" /\ installed /\ tpid = run
Handled  == /\ main = "check" /\ handler # "off"
            /\ child \notin {"none", "forked"} /\ installed /\ tpid = run
Reaped   == child = "none" /\ main \in {"check", "reset"} /\ done
Between  == child = "none" /\ main \in {"fork", "over"}
GaveUp   == main = "failed"

FifoInv == HeldBack \/ FirstStop \/ Handled \/ Reaped \/ Between \/ GaveUp

LEMMA FifoMain == ASSUME Strict, Invs, FifoInv, MainStep PROVE FifoInv'
<1> USE DEF FifoInv, HeldBack, FirstStop, Handled, Reaped, Between, GaveUp, MainAt,
      sigVars, traceeVars
<1>1. CASE run_debuggee
  BY <1>1 DEF run_debuggee
<1>2. CASE AssignPid \/ InstallHandler
  BY <1>2 DEF AssignPid, InstallHandler
<1>3. CASE CheckDone
  BY <1>3 DEF CheckDone, Invs, ReapInv
<1>4. CASE Sigsuspend \/ ResetDone
  BY <1>4 DEF Sigsuspend, ResetDone
<1> QED BY <1>1, <1>2, <1>3, <1>4 DEF MainStep

LEMMA FifoHandler == ASSUME Strict, Invs, FifoInv, HandlerStep PROVE FifoInv'
<1> USE DEF FifoInv, HeldBack, FirstStop, Handled, Reaped, Between, GaveUp, HandlerAt,
      TracerRuns, Strict, mainVars, traceeVars
<1>1. CASE Deliver
  BY <1>1 DEF Deliver, Invs, ReapInv
<1>2. CASE WaitNone \/ WaitStopped \/ WaitExited
  BY <1>2 DEF WaitNone, WaitStopped, WaitExited, Stops
<1>3. CASE WaitSignaled \/ WaitNoChild
  BY <1>3 DEF WaitSignaled, WaitNoChild, Invs, WindowInv, NoChild, Launched, BeforeCall,
    AtEntry, InWindow, AtReturn, AfterCall, Exited
<1>4. CASE StageInit \/ StageEntry \/ StageExit
  BY <1>4 DEF StageInit, StageEntry, StageExit, Resume, Stops
<1>5. CASE TraceFails \/ AdvanceStage
  BY <1>5 DEF TraceFails, AdvanceStage
<1> QED BY <1>1, <1>2, <1>3, <1>4, <1>5 DEF HandlerStep

LEMMA FifoTracee == ASSUME Strict, Invs, FifoInv, TraceeStep PROVE FifoInv'
<1> USE DEF FifoInv, HeldBack, FirstStop, Handled, Reaped, Between, GaveUp, OnlyTracee,
      mainVars
<1>1. CASE Exec
  BY <1>1 DEF Exec, set_realtime, Strict, ChangeState, Notify
<1>2. CASE HitBreakpoint \/ SegFault \/ ProgramExits
  BY <1>2 DEF HitBreakpoint, SegFault, ProgramExits, ChangeState, TraceeAt
<1>3. CASE CallFunction \/ EnterBody \/ RunBody \/ ContinueAfterCall
  BY <1>3 DEF CallFunction, EnterBody, RunBody, ContinueAfterCall, TraceeAt
<1> QED BY <1>1, <1>2, <1>3 DEF TraceeStep

LEMMA FifoStep == ASSUME Strict, Invs, FifoInv, [Next]_vars PROVE FifoInv'
<1>1. CASE UNCHANGED vars
  BY <1>1 DEF vars, mainVars, sigVars, traceeVars, FifoInv, HeldBack, FirstStop, Handled,
    Reaped, Between, GaveUp
<1> QED BY <1>1, NoFault, FifoMain, FifoHandler, FifoTracee DEF Strict, Next, Finished

LEMMA FifoAlways == ASSUME Strict PROVE Spec => [](Invs /\ FifoInv)
<1>1. Init => FifoInv
  BY DEF Init, FifoInv, Between
<1>2. Spec => []Invs
  BY AllInvs DEF Strict
<1> QED BY <1>1, <1>2, FifoStep, PTL DEF Spec

(* With the priorities of functime.c and no blocking, the tracer never      *)
(* sleeps over a stop or an end of the tracee (functime.c:680-687).         *)
THEOREM NoStopIsLost == ASSUME Strict PROVE Spec => []NoLostStop
<1>1. FifoInv => NoLostStop
  BY DEF FifoInv, HeldBack, FirstStop, Handled, Reaped, Between, GaveUp, NoLostStop
<1> QED BY <1>1, FifoAlways, PTL

-----------------------------------------------------------------------------
(* Every run takes one descriptor of /proc/memprofile, when its function is *)
(* entered, and never gives it back.                                        *)
FdInv ==
  /\ fds <= run
  /\ Launched \/ BeforeCall \/ AtEntry => fds < run
  /\ InWindow => configured

Enough == Strict /\ Runs <= FdLimit

LEMMA FdMain == ASSUME Enough, Invs, FdInv, MainStep PROVE FdInv'
<1> USE DEF FdInv, Invs, TypeOK, MeasureTypes
<1>1. CASE run_debuggee
  BY <1>1, CountAssumption DEF run_debuggee, InWindow
<1>2. CASE AssignPid \/ InstallHandler \/ CheckDone \/ Sigsuspend \/ ResetDone
  BY <1>2 DEF AssignPid, InstallHandler, CheckDone, Sigsuspend, ResetDone, Launched,
    BeforeCall, AtEntry, InWindow, Code, Armed, sigVars, timeVars, kernelVars,
    traceeVars, patchVars
<1> QED BY <1>1, <1>2 DEF MainStep

LEMMA FdHandler == ASSUME Enough, Invs, FifoInv, FdInv, HandlerStep PROVE FdInv'
<1> USE DEF FdInv, Invs, TypeOK, MeasureTypes, HandlerAt, mainVars, kernelVars
<1>1. CASE Deliver \/ WaitNone \/ WaitStopped \/ WaitNoChild \/ TraceFails \/ AdvanceStage
  <2>1. Armed' = Armed \/ child' = "none"
    BY <1>1 DEF Deliver, WaitNone, WaitStopped, WaitNoChild, TraceFails, AdvanceStage,
      Armed, After, traceeVars
  <2> QED BY <1>1, <2>1 DEF Deliver, WaitNone, WaitStopped, WaitNoChild, TraceFails,
        AdvanceStage, Launched, BeforeCall, AtEntry, InWindow, Code, timeVars,
        traceeVars, patchVars
<1>2. CASE WaitExited \/ WaitSignaled
  BY <1>2 DEF WaitExited, WaitSignaled, Launched, BeforeCall, AtEntry, InWindow
<1>3. CASE StageInit
  <2>1. Launched
    BY <1>3 DEF StageInit, WindowInv, NoChild, Launched, BeforeCall, AtEntry, InWindow,
      AtReturn, AfterCall, Exited, Armed, Stops
  <2> QED BY <1>3, <2>1 DEF StageInit, Launched, InWindow, Resume
<1>4. CASE StageEntry
  <2>1. AtEntry
    BY <1>4 DEF StageEntry, WindowInv, NoChild, Launched, BeforeCall, AtEntry, InWindow,
      AtReturn, AfterCall, Exited, Armed, Stops
  <2>2. tpid = run
    BY <1>4 DEF StageEntry, FifoInv, HeldBack, FirstStop, Handled, Reaped, Between,
      GaveUp, TracerRuns, Stops
  <2>3. fds < run /\ fds < FdLimit
    BY <2>1, CountAssumption DEF Enough
  <2>4. configured' /\ fds' = fds + 1
    BY <1>4, <2>2, <2>3 DEF StageEntry, ConfigureKernel
  <2>5. Armed' = "EXIT"
    BY <1>4 DEF StageEntry, Resume, Armed, After
  <2> QED BY <1>4, <2>3, <2>4, <2>5 DEF StageEntry, Launched, BeforeCall, AtEntry
<1>5. CASE StageExit
  <2>1. Armed' = "INIT" /\ child' = "running"
    BY <1>5 DEF StageExit, Resume, Armed, After
  <2> QED BY <1>5, <2>1 DEF StageExit, Launched, BeforeCall, AtEntry, InWindow
<1> QED BY <1>1, <1>2, <1>3, <1>4, <1>5 DEF HandlerStep

LEMMA FdTracee == ASSUME Enough, Invs, FdInv, TraceeStep PROVE FdInv'
<1>1. UNCHANGED <<Armed, fds, run, configured, text, t_start, ret_addr>>
  BY DEF TraceeStep, Exec, CallFunction, HitBreakpoint, EnterBody, RunBody,
    ContinueAfterCall, SegFault, ProgramExits, OnlyTracee, Armed, mainVars, timeVars,
    kernelVars, patchVars
<1> USE <1>1 DEF FdInv, Launched, BeforeCall, AtEntry, InWindow, Code, TraceeAt
<1>2. CASE Exec \/ HitBreakpoint \/ SegFault \/ ProgramExits
  BY <1>2 DEF Exec, HitBreakpoint, SegFault, ProgramExits, ChangeState
<1>3. CASE CallFunction
  BY <1>3 DEF CallFunction, Invs, WindowInv, NoChild, AtReturn, AfterCall, Exited
<1>4. CASE EnterBody \/ RunBody \/ ContinueAfterCall
  BY <1>4 DEF EnterBody, RunBody, ContinueAfterCall, Invs, TypeOK, TraceeTypes
<1> QED BY <1>2, <1>3, <1>4 DEF TraceeStep

LEMMA FdStep == ASSUME Enough, Invs, FifoInv, FdInv, [Next]_vars PROVE FdInv'
<1>1. CASE UNCHANGED vars
  BY <1>1 DEF vars, mainVars, sigVars, timeVars, kernelVars, traceeVars, patchVars,
    FdInv, Launched, BeforeCall, AtEntry, InWindow, Code, Armed
<1> QED BY <1>1, NoFault, FdMain, FdHandler, FdTracee DEF Enough, Strict, Next, Finished

(* With the priorities of functime.c, no blocking, and descriptors for all  *)
(* the runs, the kernel module set up the pages of every tracee whose       *)
(* function is timed (functime.c:558-565).                                  *)
THEOREM PagesConfigured == ASSUME Enough PROVE Spec => []WindowConfigured
<1>1. Init => FdInv
  BY DEF Init, FdInv, Launched, BeforeCall, AtEntry, InWindow
<1>2. Spec => [](Invs /\ FifoInv)
  BY FifoAlways DEF Enough
<1>3. Invs /\ FdInv => WindowConfigured
  BY DEF Invs, WindowInv, FdInv, WindowConfigured, NoChild, Launched, BeforeCall,
    AtEntry, InWindow, AtReturn, AfterCall, Exited
<1> QED BY <1>1, <1>2, <1>3, FdStep, PTL DEF Spec

-----------------------------------------------------------------------------
(* What is left to do.                                                      *)
LEMMA BelowAt ==
  ASSUME NEW m, NEW n, NEW i \in DOMAIN n, m[i] < n[i],
         \A j \in 1..(i - 1) : m[j] = n[j]
  PROVE  Below(m, n)
BY DEF Below

LEMMA LeftParts ==
  /\ DOMAIN Left = 1..6
  /\ Left[1] = Runs - run /\ Left[2] = calls /\ Left[3] = Position
  /\ Left[4] = (IF pending THEN 1 ELSE 0)
  /\ Left[5] = HandlerLeft /\ Left[6] = MainLeft[main]
BY DEF Left

LEMMA HandlerLeftType == HandlerLeft \in Nat
BY DEF HandlerLeft

LEMMA PositionType == ASSUME TypeOK PROVE Position \in Nat
<1>1. Place[loc] \in Nat
  BY DEF Place, TypeOK, TraceeTypes, Addrs
<1> QED BY <1>1 DEF Position, TypeOK, TraceeTypes, Stops

LEMMA LeftType == TypeOK => Left \in [1..6 -> Nat]
<1> SUFFICES ASSUME TypeOK PROVE Left \in [1..6 -> Nat]
  OBVIOUS
<1>1. Runs - run \in Nat /\ calls \in Nat
  BY CountAssumption DEF TypeOK, MeasureTypes, TraceeTypes
<1>2. MainLeft[main] \in Nat
  BY DEF TypeOK, ControlTypes, MainLeft
<1>3. (IF pending THEN 1 ELSE 0) \in Nat
  OBVIOUS
<1>4. \A i \in 1..6 : Left[i] \in Nat
  BY <1>1, <1>2, <1>3, HandlerLeftType, PositionType DEF Left
<1> QED BY <1>4, LeftParts DEF Left

(* One lemma for each of the six parts.                                     *)
LEMMA LessRuns ==
  ASSUME Runs \in Nat, run \in Nat, run' = run + 1
  PROVE  Below(Left', Left)
<1>1. 1 \in DOMAIN Left /\ Left'[1] < Left[1] /\ \A j \in 1..(1 - 1) : Left'[j] = Left[j]
  BY DEF Left
<1> QED BY <1>1, BelowAt

LEMMA LessCalls ==
  ASSUME run' = run, calls' < calls
  PROVE  Below(Left', Left)
<1>1. 2 \in DOMAIN Left /\ Left'[2] < Left[2] /\ \A j \in 1..(2 - 1) : Left'[j] = Left[j]
  BY DEF Left
<1> QED BY <1>1, BelowAt

LEMMA LessPosition ==
  ASSUME run' = run, calls' = calls, Position' < Position
  PROVE  Below(Left', Left)
<1>1. 3 \in DOMAIN Left /\ Left'[3] < Left[3] /\ \A j \in 1..(3 - 1) : Left'[j] = Left[j]
  BY DEF Left
<1> QED BY <1>1, BelowAt

LEMMA LessPending ==
  ASSUME run' = run, calls' = calls, Position' = Position, pending, pending' = FALSE
  PROVE  Below(Left', Left)
<1>1. 4 \in DOMAIN Left /\ Left'[4] < Left[4] /\ \A j \in 1..(4 - 1) : Left'[j] = Left[j]
  BY DEF Left
<1> QED BY <1>1, BelowAt

LEMMA LessHandler ==
  ASSUME run' = run, calls' = calls, Position' = Position, pending' = pending,
         HandlerLeft' < HandlerLeft
  PROVE  Below(Left', Left)
<1>1. 5 \in DOMAIN Left /\ Left'[5] < Left[5] /\ \A j \in 1..(5 - 1) : Left'[j] = Left[j]
  BY DEF Left
<1> QED BY <1>1, BelowAt

LEMMA LessMain ==
  ASSUME run' = run, calls' = calls, Position' = Position, pending' = pending,
         HandlerLeft' = HandlerLeft, MainLeft[main'] < MainLeft[main]
  PROVE  Below(Left', Left)
<1>1. 6 \in DOMAIN Left /\ Left'[6] < Left[6] /\ \A j \in 1..(6 - 1) : Left'[j] = Left[j]
  BY DEF Left
<1> QED BY <1>1, BelowAt

LEMMA RunsMain == ASSUME Invs, MainStep PROVE Below(Left', Left)
<1>1. CASE run_debuggee
  <2>1. Runs \in Nat /\ run \in Nat
    BY CountAssumption DEF Invs, TypeOK, MeasureTypes
  <2> QED BY <1>1, <2>1, LessRuns DEF run_debuggee
<1>2. CASE AssignPid \/ InstallHandler \/ CheckDone \/ Sigsuspend \/ ResetDone
  <2>1. /\ run' = run /\ calls' = calls /\ pending' = pending /\ handler' = handler
        /\ wstat' = wstat /\ child' = child /\ loc' = loc /\ text' = text
    BY <1>2 DEF AssignPid, InstallHandler, CheckDone, Sigsuspend, ResetDone,
      sigVars, traceeVars, patchVars
  <2>2. Position' = Position /\ HandlerLeft' = HandlerLeft
    BY <2>1 DEF Position, HandlerLeft
  <2>3. MainLeft[main'] < MainLeft[main]
    <3>1. CASE AssignPid \/ InstallHandler \/ Sigsuspend
      BY <3>1 DEF AssignPid, InstallHandler, Sigsuspend, MainAt, MainLeft
    <3>2. CASE CheckDone
      BY <3>2 DEF CheckDone, MainAt, MainLeft
    <3>3. CASE ResetDone
      BY <3>3 DEF ResetDone, MainAt, MainLeft
    <3> QED BY <1>2, <3>1, <3>2, <3>3
  <2> QED BY <2>1, <2>2, <2>3, LessMain
<1> QED BY <1>1, <1>2 DEF MainStep

LEMMA RunsHandler ==
  ASSUME Undisturbed, Invs, HandlerStep
  PROVE  Below(Left', Left) \/ UNCHANGED vars
<1> USE DEF Invs, WindowInv, HandlerAt
<1>1. CASE Deliver \/ WaitNone \/ WaitStopped \/ WaitNoChild \/ TraceFails \/ AdvanceStage
  <2>1. /\ run' = run /\ calls' = calls /\ child' = child /\ loc' = loc /\ text' = text
    BY <1>1 DEF Deliver, WaitNone, WaitStopped, WaitNoChild, TraceFails, AdvanceStage,
      mainVars, traceeVars, patchVars
  <2>2. Position' = Position
    BY <2>1 DEF Position
  <2>3. CASE Deliver
    BY <2>1, <2>2, <2>3, LessPending DEF Deliver
  <2>4. CASE WaitNone \/ WaitStopped \/ TraceFails \/ AdvanceStage
    <3>1. pending' = pending
      BY <2>4 DEF WaitNone, WaitStopped, TraceFails, AdvanceStage
    <3>2. HandlerLeft' < HandlerLeft
      BY <2>4 DEF WaitNone, WaitStopped, TraceFails, AdvanceStage, HandlerLeft
    <3> QED BY <2>1, <2>2, <3>1, <3>2, LessHandler
  <2>5. CASE WaitNoChild
    <3>1. pending' = pending /\ handler = "wait"
      BY <2>5 DEF WaitNoChild
    <3>2. CASE wstat = "unset" \/ handler' # "wait"
      <4>1. wstat' # "unset"
        BY <2>5, EnvironmentAssumption DEF WaitNoChild, Statuses
      <4>2. handler' \in {"trap", "off", "wait"}
        BY <2>5 DEF WaitNoChild
      <4>3. HandlerLeft' < HandlerLeft
        BY <3>1, <3>2, <4>1, <4>2 DEF HandlerLeft
      <4> QED BY <2>1, <2>2, <3>1, <4>3, LessHandler
    <3>3. CASE wstat # "unset" /\ handler' = "wait"
      <4>1. wstat' = wstat /\ wstat # "exited"
        BY <2>5, <3>3 DEF WaitNoChild
      <4>2. done' = done
        BY <2>5, <4>1 DEF WaitNoChild, TypeOK, FlagTypes
      <4> QED BY <2>5, <3>1, <3>3, <4>1, <4>2 DEF WaitNoChild, vars, mainVars, sigVars
    <3> QED BY <3>2, <3>3
  <2> QED BY <1>1, <2>3, <2>4, <2>5
<1>2. CASE WaitExited
  <2>1. Position' < Position
    BY <1>2 DEF WaitExited, Position, Place, Addrs
  <2> QED BY <1>2, <2>1, LessPosition DEF WaitExited
<1>3. CASE WaitSignaled
  BY <1>3 DEF WaitSignaled, NoChild, Launched, BeforeCall, AtEntry, InWindow, AtReturn,
    AfterCall, Exited
<1>4. CASE StageInit
  <2>1. Launched /\ child \in Stops
    BY <1>4 DEF StageInit, NoChild, Launched, BeforeCall, AtEntry, InWindow, AtReturn,
      AfterCall, Exited, Armed, Stops
  <2>2. Position = 11
    BY <2>1 DEF Launched, Stops, Position, Place, Addrs
  <2>3. child' = "running" /\ loc' = "start" /\ run' = run /\ calls' = calls
    BY <1>4, <2>1 DEF StageInit, Resume, Launched, mainVars
  <2>4. Position' = 10
    BY <2>3 DEF Position, Place, Addrs
  <2> QED BY <2>2, <2>3, <2>4, LessPosition
<1>5. CASE StageEntry
  <2>1. AtEntry /\ child = "trapstop"
    BY <1>5 DEF StageEntry, NoChild, Launched, BeforeCall, AtEntry, InWindow, AtReturn,
      AfterCall, Exited, Armed, After, Stops
  <2>2. Position = 8
    BY <2>1 DEF AtEntry, Position, Place, Addrs
  <2>3. child' = "running" /\ loc' = "entry" /\ run' = run /\ calls' = calls
    BY <1>5 DEF StageEntry, Resume, mainVars
  <2>4. text'["entry"] = "instr"
    <3>1. brkpnt_data["ENTRY"] = "instr"
      BY <1>5 DEF StageEntry, PatchInv, Armed
    <3> QED BY <1>5, <2>1, <3>1
            DEF StageEntry, AtEntry, Plant, Restore, Addrs, TypeOK, PatchTypes
  <2>5. Position' = 7
    BY <2>3, <2>4 DEF Position, Place, Addrs
  <2> QED BY <2>2, <2>3, <2>5, LessPosition
<1>6. CASE StageExit
  <2>1. AtReturn /\ child = "trapstop"
    BY <1>6 DEF StageExit, NoChild, Launched, BeforeCall, AtEntry, InWindow, AtReturn,
      AfterCall, Exited, Armed, After, Stops
  <2>2. Position = 4
    BY <2>1 DEF AtReturn, Position, Place, Addrs
  <2>3. child' = "running" /\ loc' = "return" /\ run' = run /\ calls' = calls
    BY <1>6, <2>1 DEF StageExit, Resume, AtReturn, mainVars
  <2>4. text'["return"] = "instr"
    <3>1. brkpnt_data["EXIT"] = "instr"
      BY <1>6, <2>1 DEF StageExit, PatchInv, AtReturn, Code
    <3> QED BY <1>6, <2>1, <3>1 DEF StageExit, AtReturn, Restore, Addrs, TypeOK, PatchTypes
  <2>5. Position' = 3
    BY <2>3, <2>4 DEF Position, Place, Addrs
  <2> QED BY <2>2, <2>3, <2>5, LessPosition
<1> QED BY <1>1, <1>2, <1>3, <1>4, <1>5, <1>6 DEF HandlerStep

LEMMA RunsTracee ==
  ASSUME Undisturbed, Invs, TraceeStep PROVE Below(Left', Left)
<1> USE DEF Invs, WindowInv, TraceeAt, OnlyTracee
<1>1. run' = run
  BY DEF TraceeStep, Exec, CallFunction, HitBreakpoint, EnterBody, RunBody,
    ContinueAfterCall, SegFault, ProgramExits, mainVars
<1>2. CASE CallFunction
  <2>1. calls' < calls
    BY <1>2 DEF CallFunction, TypeOK, TraceeTypes
  <2> QED BY <1>1, <2>1, LessCalls
<1>3. CASE Exec
  <2>1. Position' < Position
    BY <1>3 DEF Exec, ChangeState, Position, Place, Addrs
  <2> QED BY <1>1, <1>3, <2>1, LessPosition DEF Exec, ChangeState
<1>4. CASE HitBreakpoint
  <2>1. AtEntry \/ AtReturn
    BY <1>4 DEF HitBreakpoint, NoChild, Launched, BeforeCall, AtEntry, InWindow, AtReturn,
      AfterCall, Exited, Code, Addrs
  <2>2. child = "running" /\ child' = "trapstop" /\ loc' = loc /\ calls' = calls
    BY <1>4 DEF HitBreakpoint, ChangeState
  <2>3. CASE AtEntry
    BY <1>1, <2>2, <2>3, LessPosition DEF AtEntry, Code, Position, Place, Addrs
  <2>4. CASE AtReturn
    BY <1>1, <2>2, <2>4, LessPosition DEF AtReturn, Code, Position, Place, Addrs
  <2> QED BY <2>1, <2>3, <2>4
<1>5. CASE EnterBody
  <2>1. /\ child = "running" /\ child' = "running" /\ loc = "entry" /\ loc' = "inside"
        /\ text["entry"] # "brk" /\ calls' = calls
    BY <1>5 DEF EnterBody
  <2>2. Position = 7 /\ Position' = 6
    BY <2>1 DEF Position, Place, Addrs
  <2> QED BY <1>1, <2>1, <2>2, LessPosition
<1>6. CASE RunBody
  <2>1. /\ child = "running" /\ child' = "running" /\ loc = "inside" /\ loc' = "return"
        /\ calls' = calls
    BY <1>6 DEF RunBody, NoChild, Launched, BeforeCall, AtEntry, InWindow, AtReturn,
      AfterCall, Exited
  <2>2. Position = 6 /\ Position' \in {3, 5}
    BY <2>1 DEF Position, Place, Addrs
  <2> QED BY <1>1, <2>1, <2>2, LessPosition
<1>7. CASE ContinueAfterCall
  <2>1. /\ child = "running" /\ child' = "running" /\ loc = "return" /\ loc' = "outside"
        /\ text["return"] # "brk" /\ calls' = calls
    BY <1>7 DEF ContinueAfterCall
  <2>2. Position = 3 /\ Position' = 2
    BY <2>1 DEF Position, Place, Addrs
  <2> QED BY <1>1, <2>1, <2>2, LessPosition
<1>8. CASE SegFault
  BY <1>8 DEF SegFault, NoChild, Launched, BeforeCall, AtEntry, InWindow, AtReturn,
    AfterCall, Exited
<1>9. CASE ProgramExits
  <2>1. /\ child = "running" /\ loc = "outside" /\ child' = "exited" /\ calls' = calls
    BY <1>9 DEF ProgramExits, ChangeState, NoChild, Launched, BeforeCall, AtEntry, InWindow,
      AtReturn, AfterCall, Exited
  <2>2. Position = 2 /\ Position' = 1
    BY <2>1 DEF Position, Place, Addrs
  <2> QED BY <1>1, <2>1, <2>2, LessPosition
<1> QED BY <1>2, <1>3, <1>4, <1>5, <1>6, <1>7, <1>8, <1>9 DEF TraceeStep

(* Without mishaps, for every schedule, every number of runs and calls and  *)
(* whatever an uninitialized wstat looks like, a campaign has finitely many *)
(* steps to take (functime.c:531-628, 641-661, 680-692).                    *)
THEOREM FiniteWork == ASSUME Undisturbed PROVE Spec => StepsRunOut
<1>1. Invs /\ Invs' /\ [Next]_vars => [Left' \in [1..6 -> Nat] /\ Below(Left', Left)]_vars
  <2> SUFFICES ASSUME Invs, Invs', Next, ~UNCHANGED vars
               PROVE  Left' \in [1..6 -> Nat] /\ Below(Left', Left)
    OBVIOUS
  <2>1. (TypeOK => Left \in [1..6 -> Nat])'
    BY LeftType, PTL
  <2>2. Left' \in [1..6 -> Nat]
    BY <2>1 DEF Invs
  <2> QED BY <2>2, NoFault, RunsMain, RunsHandler, RunsTracee DEF Next, Finished
<1> QED BY <1>1, AllInvs, PTL DEF StepsRunOut, Spec
=============================================================================
