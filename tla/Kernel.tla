-------------------------------- MODULE Kernel --------------------------------
(***************************************************************************)
(* The process scheduler of scmRTOS (os_kernel.h, os_kernel.cpp) on its    *)
(* Cortex-M port (os_target.h, os_target.cpp).                             *)
(*                                                                         *)
(* Kernel code runs in critical sections (TCritSect), so an operation is   *)
(* one action, with two exceptions.  A context switch is only requested:   *)
(* sched() raises PendSV and spins with interrupts enabled until it has    *)
(* happened, and any interrupt may come first.  And a handler with an      *)
(* OS::TISRW has a critical section on entry, those of what it calls, and  *)
(* one on exit.                                                            *)
(*                                                                         *)
(* The specification at the end is the kernel under its most general use:  *)
(* processes that sleep and wake each other at will, and a device whose    *)
(* handler wakes any process.                                              *)
(***************************************************************************)
EXTENDS Integers

CONSTANTS PROCESS_COUNT,   \* with the idle process
          Timeouts         \* the arguments processes call sleep() with

MAX_PROCESS_COUNT == 32

ASSUME KernelAssumption == /\ PROCESS_COUNT \in Nat
                           /\ 2 <= PROCESS_COUNT /\ PROCESS_COUNT <= MAX_PROCESS_COUNT
                           /\ Timeouts \subseteq Nat

\* Processes are named by their priority; the port numbers them in descending
\* order, so that prIDLE is 0 and the process pr0 has the highest number.
Processes == 0 .. (PROCESS_COUNT - 1)
prIDLE == 0
pr0 == PROCESS_COUNT - 1

VARIABLES
    CurProcPriority,    \* MAX_PROCESS_COUNT before OS::run()
    SchedProcPriority,
    ReadyProcessMap,    \* a word as the set of its bits that are 1: of processes
    ISR_NestCount,
    Timeout,            \* of each process
    pendSV,             \* PendSV is pending in ICSR
    switching,          \* the processes inside the loop of sched()
    tick,               \* progress of SysTick_Handler
    device              \* progress of the handler of a device

maps == <<ReadyProcessMap, Timeout>>
sched == <<SchedProcPriority, pendSV, switching>>
isr == <<ISR_NestCount, tick, device>>
kernelVars == <<CurProcPriority, maps, sched, isr>>

\* (external) The instruction behind __builtin_clz: how many bits of a word are 0
\* above its highest 1.  Undefined for 0.
clz(word) == CHOOSE n \in 0 .. 31 : 31 - n \in word /\ \A i \in 0 .. (n - 1) : 31 - i \notin word

highest_priority(map) == 31 - clz(map)

os_running == CurProcPriority < MAX_PROCESS_COUNT

\* An interrupt handler other than PendSV is active.
InISR == tick # "off" \/ device # "off"

\* The current process executes its own code: PendSV, of the lowest priority,
\* is taken before the process as soon as no other handler is active.
ProcessRuns == os_running /\ ~InISR /\ ~pendSV /\ CurProcPriority \notin switching

-----------------------------------------------------------------------------
(* Scheduling.                                                             *)

\* Faulty variant of scheduler: looks at the ready map of before the operation.
schedulerStale(ready) ==
    IF ISR_NestCount = 0 /\ highest_priority(ReadyProcessMap) # CurProcPriority
    THEN /\ SchedProcPriority' = highest_priority(ReadyProcessMap)
         /\ pendSV' = TRUE
         /\ switching' = switching \cup {CurProcPriority}
    ELSE UNCHANGED sched

\* TKernel::scheduler() when the ready map has become "ready".
scheduler(ready) ==
    IF ISR_NestCount = 0 /\ highest_priority(ready) # CurProcPriority
    THEN /\ SchedProcPriority' = highest_priority(ready)
         /\ pendSV' = TRUE
         /\ switching' = switching \cup {CurProcPriority}
    ELSE UNCHANGED sched

\* Faulty variant of sched_isr: the handler forgets to ask for the switch.
sched_isr_silent ==
    IF highest_priority(ReadyProcessMap) # CurProcPriority
    THEN /\ SchedProcPriority' = highest_priority(ReadyProcessMap)
         /\ UNCHANGED <<pendSV, switching>>
    ELSE UNCHANGED sched

\* TKernel::sched_isr()
sched_isr ==
    IF highest_priority(ReadyProcessMap) # CurProcPriority
    THEN /\ SchedProcPriority' = highest_priority(ReadyProcessMap)
         /\ pendSV' = TRUE
         /\ UNCHANGED switching
    ELSE UNCHANGED sched

\* Faulty variant of PendSV_Handler: looks for the process anew but keeps
\* SchedProcPriority, which sched() waits for.
PendSV_HandlerOwnChoice ==
    /\ pendSV /\ ~InISR
    /\ CurProcPriority' = highest_priority(ReadyProcessMap)
    /\ pendSV' = FALSE
    /\ UNCHANGED <<maps, isr, SchedProcPriority, switching>>

\* PendSV_Handler with context_switch_hook, all with interrupts disabled.
PendSV_Handler ==
    /\ pendSV /\ ~InISR
    /\ CurProcPriority' = SchedProcPriority
    /\ pendSV' = FALSE
    /\ UNCHANGED <<maps, isr, SchedProcPriority, switching>>

\* The loop of sched() ends in a process that has been switched to again.
SwitchDone ==
    /\ os_running /\ ~InISR /\ ~pendSV
    /\ CurProcPriority \in switching
    /\ CurProcPriority = SchedProcPriority
    /\ switching' = switching \ {CurProcPriority}

-----------------------------------------------------------------------------
(* What processes and handlers call.                                       *)

sleep(timeout) ==
    /\ Timeout' = [Timeout EXCEPT ![CurProcPriority] = timeout]
    /\ ReadyProcessMap' = ReadyProcessMap \ {CurProcPriority}
    /\ scheduler(ReadyProcessMap \ {CurProcPriority})

force_wake_up(p) ==
    /\ Timeout' = [Timeout EXCEPT ![p] = 0]
    /\ ReadyProcessMap' = ReadyProcessMap \cup {p}
    /\ scheduler(ReadyProcessMap \cup {p})

\* A process that sleeps without a timeout is not woken by wake_up.
wake_up(p) == IF Timeout[p] > 0 THEN force_wake_up(p) ELSE UNCHANGED <<maps, sched>>

ISR_Enter == ISR_NestCount' = ISR_NestCount + 1

ISR_Exit ==
    /\ ISR_NestCount' = ISR_NestCount - 1
    /\ IF ISR_NestCount' = 0 THEN sched_isr ELSE UNCHANGED sched

-----------------------------------------------------------------------------
(* The system timer.  SysTick has the lowest priority but one: a device    *)
(* interrupts its handler, it interrupts no handler but PendSV.            *)

SysTickEnter ==
    /\ os_running /\ ~InISR
    /\ tick' = "entered"
    /\ ISR_Enter
    /\ UNCHANGED <<CurProcPriority, maps, sched, device>>

\* Faulty variant of system_timer: leaves out pr0.
system_timer_short ==
    /\ tick = "entered" /\ device = "off"
    /\ LET timed == {p \in 1 .. (PROCESS_COUNT - 2) : Timeout[p] > 0}
       IN  /\ Timeout' = [p \in Processes |-> IF p \in timed THEN Timeout[p] - 1 ELSE Timeout[p]]
           /\ ReadyProcessMap' = ReadyProcessMap \cup {p \in timed : Timeout[p] = 1}
    /\ tick' = "counted"
    /\ UNCHANGED <<CurProcPriority, sched, ISR_NestCount, device>>

\* Faulty variant of system_timer: counts down without looking at the value.
system_timer_unguarded ==
    /\ tick = "entered" /\ device = "off"
    /\ Timeout' = [p \in Processes |-> IF p = prIDLE THEN 0 ELSE Timeout[p] - 1]
    /\ ReadyProcessMap' = ReadyProcessMap \cup {p \in Processes : Timeout[p] = 1}
    /\ tick' = "counted"
    /\ UNCHANGED <<CurProcPriority, sched, ISR_NestCount, device>>

system_timer ==
    /\ tick = "entered" /\ device = "off"
    /\ LET timed == {p \in Processes \ {prIDLE} : Timeout[p] > 0}
       IN  /\ Timeout' = [p \in Processes |-> IF p \in timed THEN Timeout[p] - 1 ELSE Timeout[p]]
           /\ ReadyProcessMap' = ReadyProcessMap \cup {p \in timed : Timeout[p] = 1}
    /\ tick' = "counted"
    /\ UNCHANGED <<CurProcPriority, sched, ISR_NestCount, device>>

SysTickExit ==
    /\ tick = "counted" /\ device = "off"
    /\ tick' = "off"
    /\ ISR_Exit
    /\ UNCHANGED <<CurProcPriority, maps, device>>

SysTick_Handler == SysTickEnter \/ system_timer \/ SysTickExit

-----------------------------------------------------------------------------
(* The most general user.                                                  *)

Run ==
    /\ ~os_running
    /\ CurProcPriority' = pr0
    /\ UNCHANGED <<maps, sched, isr>>

\* The idle process only calls its hooks.
UserRuns == ProcessRuns /\ CurProcPriority # prIDLE

ProcessSleeps == /\ UserRuns
                 /\ \E t \in Timeouts : sleep(t)
                 /\ UNCHANGED <<CurProcPriority, isr>>

ProcessWakes == /\ UserRuns
                /\ \E p \in Processes : wake_up(p) \/ force_wake_up(p)
                /\ UNCHANGED <<CurProcPriority, isr>>

SchedReturns == SwitchDone /\ UNCHANGED <<CurProcPriority, maps, isr, SchedProcPriority, pendSV>>

\* Device interrupts are enabled by the processes that use the device.
DeviceEnter ==
    /\ os_running /\ device = "off"
    /\ device' = "entered"
    /\ ISR_Enter
    /\ UNCHANGED <<CurProcPriority, maps, sched, tick>>

DeviceWakes ==
    /\ device = "entered"
    /\ \E p \in Processes : wake_up(p) \/ force_wake_up(p)
    /\ device' = "done"
    /\ UNCHANGED <<CurProcPriority, ISR_NestCount, tick>>

DeviceExit ==
    /\ device = "done"
    /\ device' = "off"
    /\ ISR_Exit
    /\ UNCHANGED <<CurProcPriority, maps, tick>>

\* The constructor of TKernel, and those of the processes.
KernelInit ==
    /\ CurProcPriority = MAX_PROCESS_COUNT /\ SchedProcPriority = 0
    /\ ReadyProcessMap = Processes
    /\ ISR_NestCount = 0
    /\ Timeout = [p \in Processes |-> 0]
    /\ pendSV = FALSE /\ switching = {} /\ tick = "off" /\ device = "off"

KernelNext ==
    \/ Run \/ ProcessSleeps \/ ProcessWakes \/ SchedReturns \/ PendSV_Handler
    \/ SysTick_Handler \/ DeviceEnter \/ DeviceWakes \/ DeviceExit

KernelSpec == KernelInit /\ [][KernelNext]_kernelVars

\* Handlers end; the timer goes on ticking, and neither it nor PendSV, a few
\* cycles against a period of 72000, is held off for ever by other interrupts.
KernelFairSpec ==
    /\ KernelSpec
    /\ WF_kernelVars(Run) /\ WF_kernelVars(SchedReturns)
    /\ WF_kernelVars(DeviceWakes) /\ WF_kernelVars(DeviceExit)
    /\ SF_kernelVars(PendSV_Handler)
    /\ SF_kernelVars(SysTickEnter) /\ SF_kernelVars(system_timer) /\ SF_kernelVars(SysTickExit)
-----------------------------------------------------------------------------
(* Correctness.                                                            *)

KernelTypeOK ==
    /\ CurProcPriority \in Processes \cup {MAX_PROCESS_COUNT}
    /\ SchedProcPriority \in Processes
    /\ ReadyProcessMap \subseteq Processes
    /\ ISR_NestCount \in 0 .. 2
    /\ Timeout \in [Processes -> Nat]
    /\ pendSV \in BOOLEAN
    /\ switching \subseteq Processes
    /\ tick \in {"off", "entered", "counted"}
    /\ device \in {"off", "entered", "done"}

(* A process that has gone to sleep executes nothing until it is woken, even
   while its switch is still pending and interrupts come and go: sched() may
   return only when the process is ready again. *)
SleepersStop == ProcessRuns => CurProcPriority \in ReadyProcessMap

(* The loop of sched() is never left spinning with nothing to end it: when no
   switch is pending any more, the process it waits for is the current one. *)
SchedEnds ==
    (CurProcPriority \in switching /\ ~pendSV) => CurProcPriority = SchedProcPriority

(* A pending switch goes to a process that is ready. *)
TargetReady == pendSV => SchedProcPriority \in ReadyProcessMap

\* What makes the two inductive.
KernelInv ==
    /\ prIDLE \in ReadyProcessMap
    /\ TargetReady
    /\ SchedEnds
    /\ \A p \in Processes \ ReadyProcessMap :
          p \in switching /\ (p = CurProcPriority => pendSV)
    /\ ~os_running => ~pendSV /\ ~InISR /\ switching = {} /\ ReadyProcessMap = Processes
    /\ ISR_NestCount = (IF tick = "off" THEN 0 ELSE 1) + (IF device = "off" THEN 0 ELSE 1)

(* A process that sleeps with a timeout is ready again in the end, whatever the
   others do. *)
SleepEnds == \A p \in Processes : Timeout[p] > 0 ~> p \in ReadyProcessMap

(* The process of the highest priority gets the processor: a switch away from
   it that an interrupt has overtaken is made good at the next tick. *)
HighestRuns ==
    \A p \in Processes :
        highest_priority(ReadyProcessMap) = p
            ~> CurProcPriority = p \/ highest_priority(ReadyProcessMap) # p

(* scmRTOS/README.md:6 "Real-Time Preemptive Operating System": no process runs
   while one of a higher priority is ready. *)
Preemptive == ProcessRuns => CurProcPriority = highest_priority(ReadyProcessMap)
=============================================================================
