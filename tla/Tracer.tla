------------------------------- MODULE Tracer -------------------------------
(***************************************************************************)
(* functime_debugger/functime.c: the profiler (tracer) launches the         *)
(* program (tracee) once per sample, plants a breakpoint on the timed       *)
(* function, and lets a SIGCHLD handler drive a three-stage machine that    *)
(* opens the timed window at the function's entry and closes it at its      *)
(* return.  Three parties interleave: the tracer's main flow, its signal    *)
(* handler (which interrupts the main flow at any point), and the tracee.   *)
(***************************************************************************)
EXTENDS Integers

CONSTANTS Runs,        \* how many times main launches the program
          CallCounts,  \* the numbers of calls of the symbol a program may make
          BodyCost,    \* cycles one execution of the timed function takes
          OtherCost,   \* cycles of the tracee's code between calls
          HandlerCost, \* cycles the handler spends on a breakpoint
          ClockMod,    \* the cycle counter wraps here (2^32 in the code)
          HeapPages,   \* the [heap] line of /proc/<pid>/maps, in pages
          FdLimit,     \* descriptors of /proc/memprofile one process may hold
          UnsetStatus, \* what an uninitialized wstat may look like
          StrictFifo,  \* TRUE: neither process ever blocks in a system call
          FaultKinds,  \* which mishaps of the tracee may happen
          MaxFaults    \* and how many in one execution

Statuses == {"stopped", "exited", "signaled"}
AllFaults == {"noexec", "exit", "kill", "stray", "nofork"}

ASSUME CountAssumption ==
  /\ Runs \in Nat \ {0} /\ HeapPages \in Nat \ {0} /\ FdLimit \in Nat \ {0}
  /\ CallCounts \subseteq Nat /\ CallCounts # {}
ASSUME CostAssumption ==
  /\ BodyCost \in Nat /\ OtherCost \in Nat /\ HandlerCost \in Nat
  /\ ClockMod \in Nat
  /\ BodyCost < ClockMod /\ OtherCost < ClockMod /\ HandlerCost < ClockMod
ASSUME EnvironmentAssumption ==
  /\ UnsetStatus \subseteq Statuses /\ UnsetStatus # {}
  /\ StrictFifo \in BOOLEAN
  /\ FaultKinds \subseteq AllFaults /\ MaxFaults \in Nat

VARIABLES
  main,        \* where the main flow is
  handler,     \* where the SIGCHLD handler is; "off" when it is not running
  installed,   \* sigaction(SIGCHLD) was called (it is never undone)
  pending,     \* SIGCHLD is pending for the tracer (one bit)
  done,        \* the global flag that ends the sigsuspend loop
  stage,       \* the static variable of handle_trace_event
  wstat,       \* the handler's local, when no wait call has filled it: "unset"
  run,         \* launches so far; stands for the pid of the last child
  tpid,        \* tparams.pid
  brkpnt_data, \* tparams.brkpnt_data: what set_breakpoint read
  ret_addr,    \* tparams.brkpnt_addr[TRACEE_EXIT]
  t_start, samples, heap_size,
  fds,         \* descriptors of /proc/memprofile opened and never closed
  child, loc, lr, calls, text, \* the tracee: state, PC, LR, calls left, code
  configured,  \* the kernel module was asked to work on this tracee
  clock, faults

mainVars   == <<main, installed, done, run, tpid>>
sigVars    == <<handler, pending, wstat>>
timeVars   == <<t_start, samples>>
kernelVars == <<heap_size, fds, configured>>
traceeVars == <<child, loc, lr, calls>>
patchVars  == <<brkpnt_data, ret_addr, text>>
vars == <<mainVars, sigVars, stage, timeVars, kernelVars, traceeVars,
          patchVars, clock, faults>>

-----------------------------------------------------------------------------
Addrs  == {"entry", "return"}       \* the two addresses a breakpoint goes to
Stages == {"INIT", "ENTRY", "EXIT"}
Stops  == {"execstop", "trapstop", "sigstop"}
Words  == {"instr", "brk", "unset"} \* -1, the failure value, is BRKPOINT_INSTR

ControlTypes ==
  /\ main \in {"fork", "assign", "install", "check", "enter", "suspended",
               "reset", "over", "failed"}
  /\ handler \in {"off", "wait", "trap", "resumed"}
  /\ stage \in Stages
  /\ wstat \in Statuses \cup {"unset"}

FlagTypes == /\ installed \in BOOLEAN /\ pending \in BOOLEAN
             /\ done \in BOOLEAN /\ configured \in BOOLEAN

MeasureTypes ==
  /\ run \in 0..Runs /\ tpid \in 0..Runs
  /\ t_start \in 0..(ClockMod - 1) /\ clock \in 0..(ClockMod - 1)
  /\ samples \in Nat
  /\ heap_size \in {0, HeapPages} /\ fds \in 0..FdLimit
  /\ faults \in 0..MaxFaults

TraceeTypes ==
  /\ child \in {"none", "forked", "running", "exited", "killed"} \cup Stops
  /\ loc \in {"start", "outside", "inside", "none"} \cup Addrs
  /\ lr \in {"none", "return"}
  /\ calls \in Nat

PatchTypes ==
  /\ text \in [Addrs -> Words]
  /\ brkpnt_data \in [{"ENTRY", "EXIT"} -> Words]
  /\ ret_addr \in {"none", "return"}

TypeOK == ControlTypes /\ FlagTypes /\ MeasureTypes /\ TraceeTypes /\ PatchTypes

Init ==
  /\ main = "fork" /\ handler = "off"
  /\ installed = FALSE /\ pending = FALSE /\ done = FALSE
  /\ stage = "INIT" /\ wstat = "unset"
  /\ run = 0 /\ tpid = 0
  /\ brkpnt_data = [s \in {"ENTRY", "EXIT"} |-> "unset"] /\ ret_addr = "none"
  /\ t_start = 0 /\ samples = 0 /\ heap_size = 0 /\ fds = 0
  /\ child = "none" /\ loc = "start" /\ lr = "none" /\ calls = 0
  /\ text = [a \in Addrs |-> "instr"] /\ configured = FALSE
  /\ clock = 0 /\ faults = 0

(***************************************************************************)
(* Scheduling.  Both processes are SCHED_FIFO on one CPU, the tracee above  *)
(* the tracer once it has called set_realtime(2).  Under StrictFifo the     *)
(* tracer therefore runs only while the tracee cannot, and a fresh child,   *)
(* still at the tracer's priority, only when the tracer sleeps.  When       *)
(* either may block in a system call (the printf after fork, a page read    *)
(* from disk) any interleaving is possible.                                 *)
(***************************************************************************)
TracerRuns == main \notin {"over", "failed"} /\ (StrictFifo => child # "running")

\* A pending unblocked signal is delivered before the next step of main.
MainAt(pc)    == TracerRuns /\ main = pc /\ handler = "off" /\ ~pending
HandlerAt(pc) == TracerRuns /\ handler = pc

\* Bug: the child starts above the priority of its parent.
SetRealtimeBeforeFork == TRUE

set_realtime ==
  StrictFifo => main = "suspended" /\ handler = "off" /\ ~pending

\* Bug: the counter is taken to be unbounded.
TickUnbounded(t, c) == t + c

Tick(t, c) == IF t + c < ClockMod THEN t + c ELSE t + c - ClockMod

\* Bug: the formula the OVERFLOW message prints, one cycle short.
ElapsedAsPrinted(t0, t1) == IF t0 <= t1 THEN t1 - t0 ELSE ClockMod - 1 - t0 + t1

Elapsed(t0, t1) == IF t0 <= t1 THEN t1 - t0 ELSE t1 + ClockMod - t0

\* SIGCHLD: without a handler its default action is to be ignored.
Notify == pending' = installed

-----------------------------------------------------------------------------
(* main: one sample of the profiling loop, and handle_tracee_signals.       *)

run_debuggee ==
  /\ MainAt("fork") /\ run < Runs
  /\ run' = run + 1
  /\ main' = "assign"
  /\ child' = "forked" /\ loc' = "start" /\ lr' = "none"
  /\ calls' \in CallCounts
  /\ text' = [a \in Addrs |-> "instr"]
  /\ configured' = FALSE
  /\ UNCHANGED <<sigVars, stage, timeVars, heap_size, fds, installed, done,
                 tpid, brkpnt_data, ret_addr, clock, faults>>

AssignPid ==
  /\ MainAt("assign")
  /\ tpid' = run
  /\ main' = "install"
  /\ UNCHANGED <<installed, done, run, sigVars, stage, timeVars, kernelVars,
                 traceeVars, patchVars, clock, faults>>

InstallHandler ==
  /\ MainAt("install")
  /\ installed' = TRUE
  /\ main' = "check"
  /\ UNCHANGED <<done, run, tpid, sigVars, stage, timeVars, kernelVars,
                 traceeVars, patchVars, clock, faults>>

CheckDone ==
  /\ MainAt("check")
  /\ main' = IF done THEN "reset" ELSE "enter"
  /\ UNCHANGED <<installed, done, run, tpid, sigVars, stage, timeVars,
                 kernelVars, traceeVars, patchVars, clock, faults>>

Sigsuspend ==
  /\ MainAt("enter")
  /\ main' = "suspended"
  /\ UNCHANGED <<installed, done, run, tpid, sigVars, stage, timeVars,
                 kernelVars, traceeVars, patchVars, clock, faults>>

\* Bug: the flag stays set for the next program.
KeepDone ==
  /\ MainAt("reset")
  /\ main' = IF run < Runs THEN "fork" ELSE "over"
  /\ UNCHANGED <<installed, done, run, tpid, sigVars, stage, timeVars,
                 kernelVars, traceeVars, patchVars, clock, faults>>

ResetDone ==
  /\ MainAt("reset")
  /\ done' = FALSE
  /\ main' = IF run < Runs THEN "fork" ELSE "over"
  /\ UNCHANGED <<installed, run, tpid, sigVars, stage, timeVars, kernelVars,
                 traceeVars, patchVars, clock, faults>>

-----------------------------------------------------------------------------
(* child_exit_handler: SIGCHLD is masked while it runs.                     *)

Deliver ==
  /\ TracerRuns /\ handler = "off" /\ pending
  /\ pending' = FALSE /\ handler' = "wait" /\ wstat' = "unset"
  /\ main' = IF main = "suspended" THEN "check" ELSE main
  /\ UNCHANGED <<installed, done, run, tpid, stage, timeVars, kernelVars,
                 traceeVars, patchVars, clock, faults>>

WaitNone ==
  /\ HandlerAt("wait") /\ child \in {"forked", "running"}
  /\ handler' = "off"
  /\ UNCHANGED <<mainVars, pending, wstat, stage, timeVars, kernelVars,
                 traceeVars, patchVars, clock, faults>>

WaitStopped ==
  /\ HandlerAt("wait") /\ child \in Stops
  /\ handler' = "trap" /\ wstat' = "stopped"
  /\ UNCHANGED <<mainVars, pending, stage, timeVars, kernelVars,
                 traceeVars, patchVars, clock, faults>>

WaitExited ==
  /\ HandlerAt("wait") /\ child = "exited"
  /\ child' = "none"
  /\ done' = TRUE
  /\ handler' = "off" /\ wstat' = "exited"
  /\ UNCHANGED <<main, installed, run, tpid, pending, stage, timeVars,
                 kernelVars, loc, lr, calls, patchVars, clock, faults>>

\* Neither WIFSTOPPED nor WIFEXITED: the loop goes round again.
WaitSignaled ==
  /\ HandlerAt("wait") /\ child = "killed"
  /\ child' = "none"
  /\ wstat' = "signaled"
  /\ UNCHANGED <<mainVars, handler, pending, stage, timeVars, kernelVars,
                 loc, lr, calls, patchVars, clock, faults>>

\* ECHILD is let through to tests of a wstat that waitpid did not fill.
WaitNoChild ==
  /\ HandlerAt("wait") /\ child = "none"
  /\ wstat' \in IF wstat = "unset" THEN UnsetStatus ELSE {wstat}
  /\ handler' = CASE wstat' = "stopped" -> "trap"
                  [] wstat' = "exited"  -> "off"
                  [] OTHER              -> "wait"
  /\ done' = (done \/ wstat' = "exited")
  /\ UNCHANGED <<main, installed, run, tpid, pending, stage, timeVars,
                 kernelVars, traceeVars, patchVars, clock, faults>>

-----------------------------------------------------------------------------
(* handle_trace_event: the tracee is stopped from the wait to PTRACE_CONT.  *)

\* Bug: set_breakpoint reads the word after it has overwritten it.
PeekAfterPoke(a) == "brk"

\* An unmapped address cannot be read: set_breakpoint returns -1.
Peek(a) == IF a = "none" THEN "brk" ELSE text[a]

Plant(t, a) == [x \in Addrs |-> IF x = a THEN "brk" ELSE t[x]]

\* Bug: the breakpoint is left in place.
RestoreNothing(t, a, s) == t

Restore(t, a, s) == [t EXCEPT ![a] = brkpnt_data[s]]

\* PTRACE_CONT, after which the tracee runs although stage is still the old one.
Resume(pc) ==
  /\ child' = "running" /\ loc' = pc
  /\ handler' = "resumed"
  /\ UNCHANGED <<lr, calls, pending, wstat, stage, faults>>

StageInit ==
  /\ HandlerAt("trap") /\ stage = "INIT" /\ child \in Stops
  /\ brkpnt_data' = [brkpnt_data EXCEPT !["ENTRY"] = Peek("entry")]
  /\ text' = Plant(text, "entry")
  /\ Resume(loc)
  /\ UNCHANGED <<mainVars, timeVars, kernelVars, ret_addr, clock>>

\* Bug: /proc/memprofile is written only when the heap has to be scanned.
ConfigureOnce ==
  /\ heap_size' = IF heap_size = 0 THEN HeapPages ELSE heap_size
  /\ fds' = IF fds < FdLimit THEN fds + 1 ELSE fds
  /\ configured' = (configured \/ (heap_size = 0 /\ tpid = run))

ConfigureKernel ==
  /\ heap_size' = IF heap_size = 0 THEN HeapPages ELSE heap_size
  /\ fds' = IF fds < FdLimit THEN fds + 1 ELSE fds
  /\ configured' = (configured \/ (fds < FdLimit /\ tpid = run))

StageEntry ==
  /\ HandlerAt("trap") /\ stage = "ENTRY" /\ child \in Stops
  /\ ConfigureKernel
  /\ ret_addr' = lr
  /\ brkpnt_data' = [brkpnt_data EXCEPT !["EXIT"] = Peek(lr)]
  /\ text' = Plant(Restore(text, "entry", "ENTRY"), lr)
  /\ clock' = Tick(clock, HandlerCost)
  /\ t_start' = clock'
  /\ Resume("entry")
  /\ UNCHANGED <<mainVars, samples>>

StageExit ==
  /\ HandlerAt("trap") /\ stage = "EXIT" /\ child \in Stops
  /\ ret_addr # "none"
  /\ samples' = samples + Elapsed(t_start, clock)
  /\ clock' = Tick(clock, HandlerCost)
  /\ text' = Restore(text, ret_addr, "EXIT")
  /\ Resume(ret_addr)
  /\ UNCHANGED <<mainVars, t_start, kernelVars, brkpnt_data, ret_addr>>

\* A ptrace call on a process that is gone, or on an unmapped address, fails
\* and the tracer exits.
TraceFails ==
  /\ HandlerAt("trap")
  /\ child \notin Stops \/ (stage = "EXIT" /\ ret_addr = "none")
  /\ main' = "failed" /\ handler' = "off"
  /\ UNCHANGED <<installed, done, run, tpid, pending, wstat, stage, timeVars,
                 kernelVars, traceeVars, patchVars, clock, faults>>

\* Bug: the machine goes back to waiting for the function, not for execv.
AfterSkipsInit(s) == IF s = "ENTRY" THEN "EXIT" ELSE "ENTRY"

After(s) == CASE s = "INIT" -> "ENTRY" [] s = "ENTRY" -> "EXIT" [] OTHER -> "INIT"

AdvanceStage ==
  /\ HandlerAt("resumed")
  /\ stage' = After(stage)
  /\ handler' = "wait"
  /\ UNCHANGED <<mainVars, pending, wstat, timeVars, kernelVars, traceeVars,
                 patchVars, clock, faults>>

-----------------------------------------------------------------------------
(* The tracee: the child side of run_debuggee, then the program under test. *)

TraceeAlive == main \notin {"over", "failed"}
TraceeAt(l) == TraceeAlive /\ child = "running" /\ loc = l
OnlyTracee  == UNCHANGED <<mainVars, handler, wstat, stage, timeVars,
                           kernelVars, patchVars>>

ChangeState(s) == child' = s /\ Notify /\ UNCHANGED <<loc, lr, calls, clock>>

Exec ==
  /\ TraceeAlive /\ child = "forked" /\ set_realtime
  /\ ChangeState("execstop")
  /\ OnlyTracee /\ UNCHANGED faults

CallFunction ==
  /\ TraceeAt("start") \/ TraceeAt("outside")
  /\ calls > 0
  /\ calls' = calls - 1
  /\ loc' = "entry" /\ lr' = "return"
  /\ clock' = Tick(clock, OtherCost)
  /\ OnlyTracee /\ UNCHANGED <<child, pending, faults>>

HitBreakpoint ==
  /\ \E a \in Addrs : TraceeAt(a) /\ text[a] = "brk"
  /\ ChangeState("trapstop")
  /\ OnlyTracee /\ UNCHANGED faults

EnterBody ==
  /\ TraceeAt("entry") /\ text["entry"] # "brk"
  /\ loc' = "inside"
  /\ OnlyTracee /\ UNCHANGED <<child, lr, calls, pending, clock, faults>>

RunBody ==
  /\ TraceeAt("inside")
  /\ loc' = lr
  /\ clock' = Tick(clock, BodyCost)
  /\ OnlyTracee /\ UNCHANGED <<child, lr, calls, pending, faults>>

ContinueAfterCall ==
  /\ TraceeAt("return") /\ text["return"] # "brk"
  /\ loc' = "outside"
  /\ OnlyTracee /\ UNCHANGED <<child, lr, calls, pending, clock, faults>>

\* Executing at an unmapped address stops the tracee with SIGSEGV.
SegFault ==
  /\ TraceeAt("none")
  /\ ChangeState("sigstop")
  /\ OnlyTracee /\ UNCHANGED faults

ProgramExits ==
  /\ TraceeAt("start") \/ TraceeAt("outside")
  /\ calls = 0
  /\ ChangeState("exited")
  /\ OnlyTracee /\ UNCHANGED faults

-----------------------------------------------------------------------------
(* Mishaps: a failed launch, an exit anywhere, SIGKILL, another signal.     *)

Fault(kind) == TraceeAlive /\ kind \in FaultKinds /\ faults < MaxFaults
               /\ faults' = faults + 1

LaunchFails ==
  /\ Fault("noexec") /\ child = "forked" /\ set_realtime
  /\ ChangeState("exited") /\ OnlyTracee

ExitsEarly ==
  /\ Fault("exit") /\ child = "running"
  /\ ChangeState("exited") /\ OnlyTracee

IsKilled ==
  /\ Fault("kill") /\ child \in {"running"} \cup Stops
  /\ ChangeState("killed") /\ OnlyTracee

GetsSignal ==
  /\ Fault("stray") /\ child = "running"
  /\ ChangeState("sigstop") /\ OnlyTracee

ForkFails ==
  /\ Fault("nofork") /\ MainAt("fork")
  /\ main' = "failed"
  /\ UNCHANGED <<installed, done, run, tpid, sigVars, stage, timeVars,
                 kernelVars, traceeVars, patchVars, clock>>

-----------------------------------------------------------------------------
MainStep    == \/ run_debuggee \/ AssignPid \/ InstallHandler \/ CheckDone
               \/ Sigsuspend \/ ResetDone
HandlerStep == \/ Deliver \/ WaitNone \/ WaitStopped \/ WaitExited
               \/ WaitSignaled \/ WaitNoChild \/ StageInit \/ StageEntry
               \/ StageExit \/ TraceFails \/ AdvanceStage
TraceeStep  == \/ Exec \/ CallFunction \/ HitBreakpoint \/ EnterBody \/ RunBody
               \/ ContinueAfterCall \/ SegFault \/ ProgramExits
FaultStep   == LaunchFails \/ ExitsEarly \/ IsKilled \/ GetsSignal \/ ForkFails
Finished    == main \in {"over", "failed"} /\ UNCHANGED vars

Next == MainStep \/ HandlerStep \/ TraceeStep \/ FaultStep \/ Finished

Spec == Init /\ [][Next]_vars

(* A runnable process of either kind is eventually scheduled: each has a    *)
(* real-time priority, and the higher one sleeps or stops.  Nothing is fair *)
(* about faults.                                                            *)
FairSpec == Spec /\ WF_vars(MainStep) /\ WF_vars(HandlerStep) /\ WF_vars(TraceeStep)

-----------------------------------------------------------------------------
(* What a correct profiler guarantees.                                      *)

\* The stage the planted breakpoints belong to: stage itself, except between
\* PTRACE_CONT and the assignment that follows it.
Armed == IF handler = "resumed" THEN After(stage) ELSE stage

(* While the tracee runs its code differs from the program's by exactly the *)
(* breakpoint the current stage waits for (functime.c:533-626).             *)
BreakpointDiscipline ==
  child = "running" =>
    /\ text["entry"]  = IF Armed = "ENTRY" THEN "brk" ELSE "instr"
    /\ text["return"] = IF Armed = "EXIT"  THEN "brk" ELSE "instr"

(* The stop that handle_trace_event handles is the one its stage is written *)
(* for: execv done, function entered, function returned (functime.c:531-598). *)
EventMatchesStage ==
  (handler = "trap" /\ child \in Stops) =>
    CASE stage = "INIT"  -> child = "execstop"
      [] stage = "ENTRY" -> child = "trapstop" /\ loc = "entry"
      [] OTHER           -> child = "trapstop" /\ loc = "return"

(* The function body is timed only after the kernel module was told to set  *)
(* up the pages of this very tracee (functime.c:558-565).                   *)
WindowConfigured ==
  (child = "running" /\ Armed = "EXIT" /\ loc = "inside") => configured

(* A stopped or dead tracee never meets a sleeping tracer that no signal is *)
(* going to wake (functime.c:680-687).                                      *)
NoLostStop ==
  ~ ( /\ main = "suspended" /\ handler = "off" /\ ~pending
      /\ child \notin {"forked", "running"} )

(* Whatever happens to the tracee, an instruction overwritten by a          *)
(* breakpoint is saved where its restore will look for it                   *)
(* (functime.c:537, 570, 583-584, 610).                                     *)
PlantedIsRecoverable ==
  /\ text["entry"] = "brk" => brkpnt_data["ENTRY"] = "instr"
  /\ text["return"] = "brk" => brkpnt_data["EXIT"] = "instr" /\ ret_addr = "return"

(* The next program is launched only when the previous one was reaped       *)
(* (functime.c:685-692, 842).                                               *)
NoForkOverLiveTracee == main \in {"fork", "over"} => child = "none"

(* Every launched program is seen to end, and all the samples are taken     *)
(* (functime.c:685-687, 837-851).                                           *)
EveryRunEnds == <>(main = "over")

(* An invocation of the handler returns (functime.c:641-661).               *)
HandlerReturns == handler = "wait" ~> (handler = "off")

\* How far the tracee is from its end between two calls of the function: with
\* a breakpoint ahead of it and stopped there it is further than past it.
Place == [start |-> 10, entry |-> 7, inside |-> 6, return |-> 3, outside |-> 2,
          none |-> 0]
Position ==
  CASE child = "running"  -> Place[loc] +
                               (IF loc \in Addrs /\ text[loc] = "brk" THEN 2 ELSE 0)
    [] child = "trapstop" -> Place[loc] + 1
    [] OTHER -> [forked |-> 12, execstop |-> 11, sigstop |-> 2, exited |-> 1,
                 killed |-> 1, none |-> 0][child]

HandlerLeft == CASE handler = "resumed" -> 4
                 [] handler = "wait" /\ wstat = "unset" -> 3
                 [] handler = "wait" /\ wstat # "unset" -> 2
                 [] handler = "trap" -> 1
                 [] OTHER -> 0

MainLeft == [fork |-> 1, assign |-> 7, install |-> 6, check |-> 5, enter |-> 4,
             suspended |-> 3, reset |-> 2, over |-> 0, failed |-> 0]

\* What is left of a campaign, and what comes before what.
Left == <<Runs - run, calls, Position, IF pending THEN 1 ELSE 0, HandlerLeft,
          MainLeft[main]>>

Below(m, n) ==
  \E i \in DOMAIN n : m[i] < n[i] /\ \A j \in 1..(i - 1) : m[j] = n[j]

(* Tracer, handler and tracee cannot keep each other busy: without mishaps  *)
(* every step, in whatever order the three run, leaves less of the campaign *)
(* to do, so that one that does not end is one that sleeps, or whose        *)
(* handler spins on a status that nobody wrote, which changes nothing       *)
(* (functime.c:531-628, 641-661, 680-692).                                  *)
StepsRunOut == [][Left' \in [1..6 -> Nat] /\ Below(Left', Left)]_vars

-----------------------------------------------------------------------------
(* The measurement this implements: see TimedRuns.                          *)
Phase == IF child = "none" THEN "idle"
         ELSE IF loc = "start" \/ Armed = "ENTRY" THEN "launched"
         ELSE IF Armed = "EXIT" THEN "timing"
         ELSE "timed"

Measure == INSTANCE TimedRuns WITH
             phase <- Phase, total <- samples,
             ended <- IF child = "none" THEN run ELSE run - 1

(* Absent faults, each run is timed exactly once and adds exactly the cost  *)
(* of the function's body to samples (functime.c:589, 600-605).             *)
ImplementsTimedRuns == Measure!Spec
=============================================================================
