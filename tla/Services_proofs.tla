---------------------------- MODULE Services_proofs ----------------------------
(***************************************************************************)
(* What the operations of a service do to the kernel: each of them keeps   *)
(* the invariant of the scheduler, for every number of processes.          *)
(***************************************************************************)
EXTENDS Services, Kernel_proofs

\* A process executes kernel code, be it that it has called it or that it has
\* been resumed inside it.
InCall == os_running /\ ~InISR /\ ~pendSV

LEMMA CallFacts ==
    /\ UserRuns => InCall /\ CurProcPriority # prIDLE /\ CurProcPriority \notin switching
    /\ Resumed => InCall /\ CurProcPriority \in switching
  BY DEF UserRuns, ProcessRuns, Resumed, InCall

\* A process that executes anything is ready.
LEMMA CallerReady ==
    ASSUME Inv, InCall
    PROVE  /\ CurProcPriority \in Processes /\ CurProcPriority \in ReadyProcessMap
           /\ ISR_NestCount = 0
  BY ConstantFacts DEF Inv, KernelTypeOK, KernelInv, InCall, os_running, InISR

LEMMA SuspendKeeps ==
    ASSUME Inv, InCall, CurProcPriority # prIDLE, NEW s, suspend(s),
           UNCHANGED <<CurProcPriority, isr>>, Timeout' \in [Processes -> Nat]
    PROVE  /\ Inv'
           /\ ReadyProcessMap' = ReadyProcessMap \ {CurProcPriority}
           /\ switching' = switching \cup {CurProcPriority}
           /\ ProcessMap' = [ProcessMap EXCEPT ![s] = @ \cup {CurProcPriority}]
  <1> DEFINE ready == ReadyProcessMap \ {CurProcPriority}
  <1>1. /\ ready \in SUBSET Processes /\ prIDLE \in ready
        /\ ReadyProcessMap \ {CurProcPriority} \subseteq ready
        /\ ReadyProcessMap' = ready /\ scheduler(ready)
        /\ ProcessMap' = [ProcessMap EXCEPT ![s] = @ \cup {CurProcPriority}]
    BY DEF Inv, KernelTypeOK, KernelInv, suspend
  <1>2. CurProcPriority \notin ready
    OBVIOUS
  <1> HIDE DEF ready
  <1>3. highest_priority(ready) # CurProcPriority
    BY <1>1, <1>2, HighestPriority
  <1>4. switching' = switching \cup {CurProcPriority}
    BY <1>1, <1>3, CallerReady DEF scheduler
  <1>5. Inv'
    BY <1>1, SchedulerKeeps DEF InCall
  <1>6. QED
    BY <1>1, <1>4, <1>5 DEF ready

LEMMA ContinueKeeps ==
    ASSUME Inv, InCall, ReadyProcessMap \subseteq ReadyProcessMap', ReadyProcessMap' \subseteq Processes,
           Continue, UNCHANGED <<CurProcPriority, isr>>, Timeout' \in [Processes -> Nat]
    PROVE  Inv'
  BY CallerReady DEF Continue, Inv, KernelTypeOK, KernelInv, TargetReady, SchedEnds, InCall, os_running, InISR, isr

LEMMA RescheduleKeeps ==
    ASSUME Inv, InCall, NEW ready \in SUBSET Processes, ReadyProcessMap \subseteq ready,
           ReadyProcessMap' = ready, reschedule(ready),
           UNCHANGED <<CurProcPriority, isr>>, Timeout' \in [Processes -> Nat]
    PROVE  /\ Inv'
           /\ switching \ {CurProcPriority} \subseteq switching'
  <1>1. CASE highest_priority(ready) # CurProcPriority
    <2>1. scheduler(ready)
      BY <1>1 DEF reschedule
    <2>2. prIDLE \in ready
      BY DEF Inv, KernelInv
    <2>3. Inv'
      BY <2>1, <2>2, SchedulerKeeps DEF InCall
    <2>4. switching' = switching \cup {CurProcPriority} \/ switching' = switching
      BY <2>1 DEF scheduler, sched
    <2>5. QED
      BY <2>3, <2>4
  <1>2. CASE highest_priority(ready) = CurProcPriority
    <2>1. Continue
      BY <1>2 DEF reschedule
    <2>2. QED
      BY <2>1, ContinueKeeps DEF Continue
  <1>3. QED
    BY <1>1, <1>2

LEMMA ResumeAllKeeps ==
    ASSUME Inv, InCall, NEW s, ProcessMap[s] \subseteq Processes, resume_all(s),
           UNCHANGED <<CurProcPriority, isr>>, Timeout' \in [Processes -> Nat]
    PROVE  /\ Inv'
           /\ switching \ {CurProcPriority} \subseteq switching'
           /\ ReadyProcessMap' = ReadyProcessMap \cup ProcessMap[s]
           /\ ProcessMap' = [ProcessMap EXCEPT ![s] = @ \cap ReadyProcessMap]
  <1>1. /\ ReadyProcessMap' = ReadyProcessMap \cup ToWake(s)
        /\ ProcessMap' = [ProcessMap EXCEPT ![s] = @ \cap ReadyProcessMap]
        /\ reschedule(ReadyProcessMap \cup ToWake(s)) \/ Continue
    BY DEF resume_all
  <1>2. ReadyProcessMap \cup ToWake(s) = ReadyProcessMap \cup ProcessMap[s]
    BY DEF ToWake
  <1>3. ReadyProcessMap \cup ProcessMap[s] \in SUBSET Processes
    BY DEF Inv, KernelTypeOK
  <1>4. CASE reschedule(ReadyProcessMap \cup ProcessMap[s])
    BY <1>1, <1>2, <1>3, <1>4, RescheduleKeeps
  <1>5. CASE Continue
    <2>1. Inv'
      BY <1>1, <1>2, <1>3, <1>5, ContinueKeeps
    <2>2. QED
      BY <1>1, <1>2, <1>5, <2>1 DEF Continue
  <1>6. QED
    BY <1>1, <1>2, <1>4, <1>5

\* The process that resume_next_ready wakes, if any waits asleep.
LEMMA HeirFacts ==
    ASSUME NEW s, ProcessMap[s] \subseteq Processes
    PROVE  /\ Heir(s) \subseteq ProcessMap[s] \ ReadyProcessMap
           /\ ProcessMap[s] \ ReadyProcessMap # {} => \E q : Heir(s) = {q}
  <1>1. ToWake(s) \in SUBSET Processes
    BY DEF ToWake
  <1>2. ToWake(s) # {} => highest_priority(ToWake(s)) \in ToWake(s)
    BY <1>1, HighestPriority
  <1>3. QED
    BY <1>2 DEF Heir, ToWake

LEMMA ResumeNextKeeps ==
    ASSUME Inv, InCall, NEW s, ProcessMap[s] \subseteq Processes, resume_next_ready(s),
           UNCHANGED <<CurProcPriority, isr>>, Timeout' \in [Processes -> Nat]
    PROVE  /\ Inv'
           /\ switching \ {CurProcPriority} \subseteq switching'
           /\ ReadyProcessMap' = ReadyProcessMap \cup Heir(s)
           /\ ProcessMap' = [ProcessMap EXCEPT ![s] = @ \ Heir(s)]
  <1>1. /\ ReadyProcessMap' = ReadyProcessMap \cup Heir(s)
        /\ ProcessMap' = [ProcessMap EXCEPT ![s] = @ \ Heir(s)]
        /\ reschedule(ReadyProcessMap \cup Heir(s)) \/ Continue
    BY DEF resume_next_ready, WakeHeir
  <1>2. ReadyProcessMap \cup Heir(s) \in SUBSET Processes
    BY HeirFacts DEF Inv, KernelTypeOK
  <1>3. CASE reschedule(ReadyProcessMap \cup Heir(s))
    BY <1>1, <1>2, <1>3, RescheduleKeeps
  <1>4. CASE Continue
    <2>1. Inv'
      BY <1>1, <1>2, <1>4, ContinueKeeps
    <2>2. QED
      BY <1>1, <1>4, <2>1 DEF Continue
  <1>5. QED
    BY <1>1, <1>3, <1>4

\* A handler with an OS::TISRW makes processes ready.
LEMMA HandlerKeeps ==
    ASSUME Inv, device = "entered", device' = "done",
           ReadyProcessMap \subseteq ReadyProcessMap', ReadyProcessMap' \subseteq Processes,
           UNCHANGED <<CurProcPriority, sched, ISR_NestCount, tick>>, Timeout' \in [Processes -> Nat]
    PROVE  Inv'
  BY DEF Inv, KernelTypeOK, KernelInv, TargetReady, SchedEnds, os_running, InISR, sched

\* sleep() by a process.
LEMMA SleepKeeps ==
    ASSUME Inv, InCall, CurProcPriority # prIDLE, NEW t \in Nat, sleep(t), UNCHANGED <<CurProcPriority, isr>>
    PROVE  Inv'
  <1> DEFINE ready == ReadyProcessMap \ {CurProcPriority}
  <1>1. /\ ready \in SUBSET Processes /\ prIDLE \in ready
        /\ ReadyProcessMap \ {CurProcPriority} \subseteq ready
        /\ ReadyProcessMap' = ready /\ scheduler(ready)
    BY DEF Inv, KernelTypeOK, KernelInv, sleep
  <1>2. Timeout' \in [Processes -> Nat]
    BY DEF Inv, KernelTypeOK, sleep
  <1> HIDE DEF ready
  <1>3. QED
    BY <1>1, <1>2, SchedulerKeeps DEF InCall
=============================================================================
