----------------------------- MODULE Kernel_proofs -----------------------------
(***************************************************************************)
(* Proofs about the scheduler of Kernel, for every number of processes.    *)
(***************************************************************************)
EXTENDS Kernel, WellFoundedInduction, TLAPS

Below == OpToRel(<, Nat)

(* highest_priority returns a member of the map that no other exceeds: what the
   code's 31 - __builtin_clz(map) is for every map but the empty one, a process
   being the number of a bit of the map's 32.  The number of leading zeros of such
   a map is one: the least n with bit 31 - n set. *)
LEMMA HighestPriority ==
    ASSUME NEW map \in SUBSET Processes, map # {}
    PROVE  /\ highest_priority(map) \in map
           /\ \A q \in map : q <= highest_priority(map)
  <1> DEFINE T == {n \in Nat : 31 - n \in map}
             Leading(n) == 31 - n \in map /\ \A i \in 0 .. (n - 1) : 31 - i \notin map
  <1>1. \A q \in map : q \in 0 .. 31 /\ 31 - q \in Nat /\ 31 - (31 - q) = q
    <2> SUFFICES ASSUME NEW q \in map PROVE q \in 0 .. 31 /\ 31 - q \in Nat /\ 31 - (31 - q) = q
      OBVIOUS
    <2>1. q \in 0 .. 31
      BY KernelAssumption DEF Processes, MAX_PROCESS_COUNT
    <2>2. QED
      BY <2>1
  <1>2. T \subseteq Nat /\ T # {}
    <2>1. PICK q \in map : TRUE
      OBVIOUS
    <2>2. 31 - q \in T
      BY <1>1, <2>1
    <2>3. QED
      BY <2>2
  <1>3. \A n \in T : n \in 0 .. 31
    <2> SUFFICES ASSUME NEW n \in T PROVE n \in 0 .. 31
      OBVIOUS
    <2>1. n \in Nat /\ 31 - n \in 0 .. 31
      BY <1>1
    <2>2. QED
      BY <2>1
  <1>4. \E n \in 0 .. 31 : Leading(n)
    <2>1. IsWellFoundedOn(Below, Nat)
      BY NatLessThanWellFounded DEF Below
    <2> HIDE DEF T
    <2>2. \E x \in T : \A y \in T : ~(<<y, x>> \in Below)
      BY <1>2, <2>1, WFMin
    <2>3. PICK x \in T : \A y \in T : ~(y < x)
      BY <1>2, <2>2 DEF Below, OpToRel
    <2>4. ASSUME NEW i \in 0 .. (x - 1) PROVE 31 - i \notin map
      <3>1. i \in Nat /\ i < x
        BY <1>2, <2>3
      <3>2. i \notin T
        BY <2>3, <3>1
      <3>3. QED
        BY <3>1, <3>2 DEF T
    <2>5. 31 - x \in map
      BY DEF T
    <2>6. QED
      BY <1>3, <2>4, <2>5
  <1>5. clz(map) \in 0 .. 31 /\ Leading(clz(map))
    <2>1. clz(map) = CHOOSE n \in 0 .. 31 : Leading(n)
      BY DEF clz
    <2> HIDE DEF Leading
    <2>2. QED
      BY <1>4, <2>1
  <1>6. ASSUME NEW q \in map PROVE q <= 31 - clz(map)
    <2> DEFINE n == clz(map)
    <2>1. n \in 0 .. 31 /\ \A i \in 0 .. (n - 1) : 31 - i \notin map
      BY <1>5
    <2>2. 31 - q \notin 0 .. (n - 1) /\ q \in 0 .. 31
      BY <1>1, <2>1
    <2> HIDE DEF n
    <2>3. q <= 31 - n
      BY <2>1, <2>2
    <2>4. QED
      BY <2>3 DEF n
  <1>7. QED
    BY <1>5, <1>6 DEF highest_priority

-----------------------------------------------------------------------------
Inv == KernelTypeOK /\ KernelInv

\* The current process before OS::run() is none of the processes.
LEMMA ConstantFacts ==
    /\ PROCESS_COUNT \in Nat /\ MAX_PROCESS_COUNT = 32
    /\ Processes \subseteq Nat /\ prIDLE \in Processes /\ pr0 \in Processes
    /\ \A p \in Processes : p < MAX_PROCESS_COUNT
    /\ MAX_PROCESS_COUNT \notin Processes
  BY KernelAssumption DEF Processes, prIDLE, pr0, MAX_PROCESS_COUNT

LEMMA Initially == KernelInit => Inv
  <1> SUFFICES ASSUME KernelInit PROVE Inv
    OBVIOUS
  <1> USE DEF KernelInit
  <1>1. KernelTypeOK
    <2>1. 0 \in Processes /\ Timeout \in [Processes -> Nat]
      BY ConstantFacts DEF prIDLE
    <2>2. pendSV \in BOOLEAN
      BY Zenon
    <2>3. ISR_NestCount \in 0 .. 2
      BY SMT
    <2>4. QED
      BY <2>1, <2>2, <2>3, Zenon DEF KernelTypeOK
  <1>2. KernelInv
    BY ConstantFacts DEF KernelInv, TargetReady, SchedEnds, os_running, InISR
  <1>3. QED
    BY <1>1, <1>2 DEF Inv

\* What both kinds of scheduling leave: if the ready map grows, or loses only
\* the current process, which must then be switched away from.
LEMMA SchedulerKeeps ==
    ASSUME Inv, os_running,
           NEW ready \in SUBSET Processes, prIDLE \in ready,
           ReadyProcessMap \ {CurProcPriority} \subseteq ready,
           ReadyProcessMap \subseteq ready \/ (~InISR /\ ~pendSV),
           ReadyProcessMap' = ready, scheduler(ready),
           UNCHANGED <<CurProcPriority, isr>>, Timeout' \in [Processes -> Nat]
    PROVE  Inv'
  <1> USE DEF Inv, KernelTypeOK, KernelInv, TargetReady, SchedEnds, os_running, InISR, isr
  <1>1. highest_priority(ready) \in ready
    BY HighestPriority
  <1>2. CurProcPriority \in Processes
    BY ConstantFacts
  <1>3. CASE ISR_NestCount = 0 /\ highest_priority(ready) # CurProcPriority
    BY <1>1, <1>2, <1>3, ConstantFacts DEF scheduler
  <1>4. CASE ~(ISR_NestCount = 0 /\ highest_priority(ready) # CurProcPriority)
    <2>1. UNCHANGED <<SchedProcPriority, pendSV, switching>>
      BY <1>4 DEF scheduler, sched
    <2>2. ReadyProcessMap \subseteq ready
      BY <1>1, <1>4
    <2>3. QED
      BY <2>1, <2>2, <1>2, ConstantFacts
  <1>5. QED
    BY <1>3, <1>4

LEMMA IsrExitKeeps ==
    ASSUME Inv, os_running, InISR, ISR_Exit, UNCHANGED <<CurProcPriority, maps>>,
           \/ tick = "counted" /\ device = "off" /\ tick' = "off" /\ UNCHANGED device
           \/ device = "done" /\ device' = "off" /\ UNCHANGED tick
    PROVE  Inv'
  <1> USE DEF Inv, KernelTypeOK, KernelInv, TargetReady, SchedEnds, os_running, InISR, maps
  <1>1. highest_priority(ReadyProcessMap) \in ReadyProcessMap
    BY HighestPriority
  <1>2. ISR_NestCount' = (IF tick' = "off" THEN 0 ELSE 1) + (IF device' = "off" THEN 0 ELSE 1)
    BY DEF ISR_Exit
  <1>3. \/ UNCHANGED <<SchedProcPriority, pendSV, switching>>
        \/ /\ SchedProcPriority' = highest_priority(ReadyProcessMap)
           /\ pendSV' = TRUE /\ UNCHANGED switching
    BY DEF ISR_Exit, sched_isr, sched
  <1>4. ISR_NestCount' \in 0 .. 2
    BY <1>2
  <1>5. KernelTypeOK'
    BY <1>1, <1>3, <1>4
  <1>6. TargetReady' /\ SchedEnds'
    BY <1>1, <1>3
  <1>7. os_running' /\ prIDLE \in ReadyProcessMap'
    OBVIOUS
  <1>8. ASSUME NEW p \in Processes \ ReadyProcessMap'
        PROVE  p \in switching' /\ (p = CurProcPriority' => pendSV')
    BY <1>3
  <1>9. QED
    BY <1>2, <1>5, <1>6, <1>7, <1>8

\* One step of the kernel or its users keeps the invariant.
LEMMA Inductive == Inv /\ [KernelNext]_kernelVars => Inv'
  <1> SUFFICES ASSUME Inv, [KernelNext]_kernelVars PROVE Inv'
    OBVIOUS
  <1> USE DEF Inv, KernelTypeOK, KernelInv, TargetReady, SchedEnds, os_running, InISR
  <1>1. CASE Run
    BY <1>1, ConstantFacts DEF Run, maps, sched, isr
  <1>2. CASE ProcessSleeps
    <2>1. PICK t \in Timeouts : sleep(t)
      BY <1>2 DEF ProcessSleeps
    <2>2. ProcessRuns /\ CurProcPriority # prIDLE /\ UNCHANGED <<CurProcPriority, isr>>
      BY <1>2 DEF ProcessSleeps, UserRuns
    <2>3. t \in Nat /\ Timeout' \in [Processes -> Nat]
      BY <2>1, KernelAssumption DEF sleep
    <2> DEFINE ready == ReadyProcessMap \ {CurProcPriority}
    <2>4. ready \in SUBSET Processes /\ prIDLE \in ready
      BY <2>2
    <2>5. ReadyProcessMap' = ready /\ scheduler(ready)
      BY <2>1 DEF sleep
    <2> HIDE DEF ready
    <2>6. ReadyProcessMap \ {CurProcPriority} \subseteq ready
      BY DEF ready
    <2>7. os_running /\ ~InISR /\ ~pendSV
      BY <2>2 DEF ProcessRuns
    <2>8. QED
      BY <2>2, <2>3, <2>4, <2>5, <2>6, <2>7, SchedulerKeeps
  <1>3. CASE ProcessWakes
    <2>1. PICK p \in Processes : wake_up(p) \/ force_wake_up(p)
      BY <1>3 DEF ProcessWakes
    <2>2. os_running /\ UNCHANGED <<CurProcPriority, isr>>
      BY <1>3 DEF ProcessWakes, UserRuns, ProcessRuns
    <2>3. CASE force_wake_up(p)
      <3>1. Timeout' \in [Processes -> Nat]
        BY <2>3 DEF force_wake_up
      <3>2. ReadyProcessMap \cup {p} \in SUBSET Processes
        OBVIOUS
      <3>3. QED
        BY <2>2, <2>3, <3>1, <3>2, SchedulerKeeps DEF force_wake_up
    <2>4. CASE UNCHANGED <<maps, sched>>
      BY <2>2, <2>4 DEF maps, sched, isr
    <2>5. QED
      BY <2>1, <2>3, <2>4 DEF wake_up
  <1>4. CASE SchedReturns
    BY <1>4 DEF SchedReturns, SwitchDone, maps, isr
  <1>5. CASE PendSV_Handler
    BY <1>5, ConstantFacts DEF PendSV_Handler, maps, isr
  <1>6. CASE SysTickEnter
    BY <1>6 DEF SysTickEnter, ISR_Enter, maps, sched
  <1>7. CASE system_timer
    <2>1. /\ ReadyProcessMap \subseteq ReadyProcessMap' /\ ReadyProcessMap' \subseteq Processes
          /\ Timeout' \in [Processes -> Nat]
      <3>1. /\ Timeout' = [p \in Processes |-> IF p \in Processes \ {prIDLE} /\ Timeout[p] > 0
                                                THEN Timeout[p] - 1 ELSE Timeout[p]]
            /\ \E woken \in SUBSET Processes : ReadyProcessMap' = ReadyProcessMap \cup woken
        BY <1>7 DEF system_timer
      <3>2. ASSUME NEW p \in Processes
            PROVE  Timeout[p] \in Nat /\ (Timeout[p] > 0 => Timeout[p] - 1 \in Nat)
        OBVIOUS
      <3>3. QED
        BY <3>1, <3>2
    <2>2. tick = "entered" /\ tick' = "counted" /\ UNCHANGED <<CurProcPriority, sched, ISR_NestCount, device>>
      BY <1>7 DEF system_timer
    <2>3. QED
      BY <2>1, <2>2 DEF sched
  <1>8. CASE SysTickExit
    BY <1>8, IsrExitKeeps DEF SysTickExit
  <1>9. CASE DeviceEnter
    BY <1>9 DEF DeviceEnter, ISR_Enter, maps, sched
  <1>10. CASE DeviceWakes
    <2>1. PICK p \in Processes : wake_up(p) \/ force_wake_up(p)
      BY <1>10 DEF DeviceWakes
    <2>2. /\ device = "entered" /\ device' = "done"
          /\ UNCHANGED <<CurProcPriority, ISR_NestCount, tick>> /\ ISR_NestCount # 0
      BY <1>10 DEF DeviceWakes
    <2>3. /\ UNCHANGED sched
          /\ ReadyProcessMap \subseteq ReadyProcessMap' /\ ReadyProcessMap' \subseteq Processes
          /\ Timeout' \in [Processes -> Nat]
      BY <2>1, <2>2 DEF wake_up, force_wake_up, scheduler, maps, sched
    <2>4. QED
      BY <2>2, <2>3 DEF sched
  <1>11. CASE DeviceExit
    BY <1>11, IsrExitKeeps DEF DeviceExit
  <1>12. CASE UNCHANGED kernelVars
    BY <1>12 DEF kernelVars, maps, sched, isr
  <1>13. QED
    BY <1>1, <1>2, <1>3, <1>4, <1>5, <1>6, <1>7, <1>8, <1>9, <1>10, <1>11, <1>12
       DEF KernelNext, SysTick_Handler

LEMMA Invariance == KernelSpec => []Inv
  BY Initially, Inductive, PTL DEF KernelSpec

-----------------------------------------------------------------------------

(* Every reachable state of the kernel is well typed; in particular
   ISR_NestCount counts the active handlers and never falls below zero. *)
THEOREM KernelTypeCorrect == KernelSpec => []KernelTypeOK
  <1>1. Inv => KernelTypeOK
    BY DEF Inv
  <1>2. QED
    BY <1>1, Invariance, PTL

(* With any number of processes, and however interrupts fall into the window
   of sched(), a process that has gone to sleep executes nothing until it has
   been woken. *)
THEOREM SleepersNeverRun == KernelSpec => []SleepersStop
  <1>1. Inv => SleepersStop
    BY ConstantFacts
       DEF Inv, KernelTypeOK, KernelInv, SleepersStop, ProcessRuns, os_running
  <1>2. QED
    BY <1>1, Invariance, PTL

(* The invariant that the run checks and the other proofs rest on: the idle
   process is always ready, and a process that is not ready is inside sched(). *)
THEOREM KernelInvHolds == KernelSpec => []KernelInv
  <1>1. Inv => KernelInv
    BY DEF Inv
  <1>2. QED
    BY <1>1, Invariance, PTL

(* The loop of sched() never spins for a switch that nobody will make, and a
   switch never goes to a process that is not ready. *)
THEOREM SchedSound == KernelSpec => [](SchedEnds /\ TargetReady)
  <1>1. Inv => SchedEnds /\ TargetReady
    BY DEF Inv, KernelInv
  <1>2. QED
    BY <1>1, Invariance, PTL
=============================================================================
