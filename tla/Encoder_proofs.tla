---------------------------- MODULE Encoder_proofs ----------------------------
(***************************************************************************)
(* Proofs about the application, for every number of ticks: from the       *)
(* invariant of the kernel and what the message and USBCtrlProc add to it. *)
(***************************************************************************)
EXTENDS Encoder, Kernel_proofs

\* USBCtrlProc has been told of a tick and has not dealt with it yet.
Told == exec \in {"test E021", "test E032"} \/ (exec = "waiting" /\ pr0 \in ReadyProcessMap)

\* The ticks they stand for.
Posted == IF NonEmpty["g_event"] THEN 1 ELSE 0
Pending == IF Told THEN 1 ELSE 0

EncoderTypeOK ==
    /\ ProcessMap \in [Services -> SUBSET Processes]
    /\ NonEmpty \in [Services -> BOOLEAN]
    /\ exec \in {"wait", "waiting", "test E021", "test E032"}
    /\ ticks \in Nat /\ toggles \in Nat

\* The map of waiters and the ready map say the same of USBCtrlProc, which
\* waits without a timeout; and each toggle, each message that waits and each
\* wake-up that has not been dealt with has a tick of its own.
EncoderInv ==
    /\ Inv
    /\ EncoderTypeOK
    /\ Timeout[pr0] = 0
    /\ ProcessMap["g_event"] = {pr0} \ ReadyProcessMap
    /\ pr0 \notin ReadyProcessMap => exec = "waiting" /\ ~NonEmpty["g_event"]
    /\ toggles + Posted + Pending <= ticks

LEMMA AppFacts ==
    /\ Services = {"g_event"} /\ pr0 = 1 /\ prIDLE = 0 /\ Processes = {0, 1}
  BY EncoderAssumption DEF pr0, prIDLE, Processes

LEMMA CountsAreNat == Posted \in {0, 1} /\ Pending \in {0, 1} /\ Posted' \in {0, 1} /\ Pending' \in {0, 1}
  BY DEF Posted, Pending

LEMMA EncoderInitially == Init => EncoderInv
  <1> SUFFICES ASSUME Init PROVE EncoderInv
    OBVIOUS
  <1>1. Inv
    BY Initially DEF Init
  <1>2. EncoderTypeOK
    BY AppFacts DEF Init, EncoderTypeOK
  <1>3. Timeout[pr0] = 0 /\ pr0 \in ReadyProcessMap
    BY AppFacts DEF Init, KernelInit
  <1>4. ProcessMap["g_event"] = {} /\ ~NonEmpty["g_event"]
    BY AppFacts DEF Init
  <1>5. toggles + Posted + Pending <= ticks
    <2>1. ~Told
      BY DEF Told, Init
    <2>2. QED
      BY <1>4, <2>1 DEF Posted, Pending, Init
  <1>6. QED
    BY <1>1, <1>2, <1>3, <1>4, <1>5 DEF EncoderInv

LEMMA Sums == EncoderInv => ticks \in Nat /\ toggles \in Nat /\ toggles + Posted + Pending <= ticks
  BY Zenon DEF EncoderInv, EncoderTypeOK

-----------------------------------------------------------------------------
(* One lemma for each action.                                              *)

\* The timer finds no timeout to count.
LEMMA KernelStepKeeps == EncoderInv /\ KernelStep => EncoderInv'
  <1> SUFFICES ASSUME EncoderInv, KernelStep PROVE EncoderInv'
    OBVIOUS
  <1>1. Inv'
    BY Inductive DEF EncoderInv, KernelStep, KernelNext
  <1>2. UNCHANGED ReadyProcessMap /\ Timeout'[pr0] = 0
    <2>1. CASE Run
      BY <2>1 DEF Run, maps, EncoderInv
    <2>2. CASE PendSV_Handler
      BY <2>2 DEF PendSV_Handler, maps, EncoderInv
    <2>3. CASE SysTickEnter
      BY <2>3 DEF SysTickEnter, maps, EncoderInv
    <2>4. CASE SysTickExit
      BY <2>4 DEF SysTickExit, maps, EncoderInv
    <2>5. CASE system_timer
      <3>1. {p \in Processes \ {prIDLE} : Timeout[p] > 0} = {}
        BY AppFacts DEF EncoderInv
      <3>2. QED
        BY <2>5, <3>1, AppFacts DEF system_timer, EncoderInv
    <2>6. QED
      BY <2>1, <2>2, <2>3, <2>4, <2>5 DEF KernelStep, SysTick_Handler
  <1>3. UNCHANGED <<ProcessMap, NonEmpty, exec, ticks, toggles>>
    BY DEF KernelStep, serviceVars, appVars, history
  <1>4. QED
    BY <1>1, <1>2, <1>3 DEF EncoderInv, EncoderTypeOK, Told, Posted, Pending

\* The handler wakes processes and leaves the rest of the kernel alone.
LEMMA WakingKeeps ==
    ASSUME Inv, ReadyProcessMap \subseteq ReadyProcessMap', ReadyProcessMap' \subseteq Processes,
           UNCHANGED <<CurProcPriority, Timeout, sched, isr>>
    PROVE  Inv'
  BY DEF Inv, KernelTypeOK, KernelInv, TargetReady, SchedEnds, os_running, InISR, sched, isr

LEMMA TickKeeps == EncoderInv /\ TIM8_UP_IRQHandler => EncoderInv'
  <1> SUFFICES ASSUME EncoderInv, TIM8_UP_IRQHandler PROVE EncoderInv'
    OBVIOUS
  <1>1. /\ ReadyProcessMap' = ReadyProcessMap \cup ToWake("g_event")
        /\ ProcessMap' = [ProcessMap EXCEPT !["g_event"] = @ \cap ReadyProcessMap]
        /\ UNCHANGED sched
        /\ NonEmpty' = [NonEmpty EXCEPT !["g_event"] = @ \/ ToWake("g_event") = {}]
        /\ ticks' = ticks + 1
        /\ UNCHANGED <<CurProcPriority, Timeout, isr, exec, toggles>>
    BY DEF TIM8_UP_IRQHandler, send_isr, resume_all_isr
  <1>2. ToWake("g_event") = {pr0} \ ReadyProcessMap
    BY DEF ToWake, EncoderInv
  <1>3. pr0 \in ReadyProcessMap' /\ ProcessMap'["g_event"] = {}
    BY <1>1, <1>2, AppFacts DEF EncoderInv, EncoderTypeOK
  <1>4. Inv'
    BY <1>1, <1>2, WakingKeeps, ConstantFacts DEF EncoderInv, Inv, KernelTypeOK
  <1>5. EncoderTypeOK'
    <2>1. ProcessMap["g_event"] \cap ReadyProcessMap \in SUBSET Processes
      BY AppFacts DEF EncoderInv, EncoderTypeOK
    <2>2. ProcessMap' \in [Services -> SUBSET Processes]
      BY <1>1, <2>1 DEF EncoderInv, EncoderTypeOK
    <2>3. (NonEmpty["g_event"] \/ ToWake("g_event") = {}) \in BOOLEAN
      OBVIOUS
    <2>4. NonEmpty' \in [Services -> BOOLEAN]
      BY <1>1, <2>3, Zenon DEF EncoderInv, EncoderTypeOK
    <2>5. ticks' \in Nat /\ toggles' \in Nat
      <3>1. ticks' = ticks + 1 /\ toggles' = toggles
        BY <1>1
      <3>2. QED
        BY <3>1, Sums
    <2>6. QED
      BY <1>1, <2>2, <2>4, <2>5, Zenon DEF EncoderInv, EncoderTypeOK
  <1>6. toggles' + Posted' + Pending' <= ticks'
    <2>1. CASE pr0 \in ReadyProcessMap
      <3>1. Told' <=> Told
        BY <1>1, <1>3, <2>1 DEF Told
      <3>2. Posted' <= Posted + 1
        BY DEF Posted, Pending
      <3>3. QED
        BY <1>1, <3>1, <3>2, Sums, CountsAreNat DEF Pending
    <2>2. CASE pr0 \notin ReadyProcessMap
      <3>1. ~NonEmpty'["g_event"]
        BY <1>1, <1>2, <2>2, AppFacts DEF EncoderInv, EncoderTypeOK
      <3>2. Pending' <= Pending + 1 /\ Posted' = 0 /\ Posted = 0
        BY <3>1, <2>2 DEF Posted, Pending, EncoderInv
      <3>3. QED
        BY <1>1, <3>2, Sums, CountsAreNat
    <2>3. QED
      BY <2>1, <2>2
  <1>7. QED
    BY <1>1, <1>3, <1>4, <1>5, <1>6 DEF EncoderInv

LEMMA WaitsKeeps == EncoderInv /\ ExecWaits => EncoderInv'
  <1> SUFFICES ASSUME EncoderInv, ExecWaits PROVE EncoderInv'
    OBVIOUS
  <1>1. /\ ProcessRuns /\ CurProcPriority = pr0 /\ exec = "wait"
        /\ UNCHANGED <<CurProcPriority, isr, toggles, ticks>>
    BY DEF ExecWaits, history
  <1>2. pr0 \in ReadyProcessMap
    BY <1>1 DEF EncoderInv
  <1>3. CASE WaitNonEmpty("g_event") /\ exec' = "test E021"
    <2>1. /\ UNCHANGED <<maps, sched, ProcessMap>> /\ NonEmpty["g_event"]
          /\ NonEmpty' = [NonEmpty EXCEPT !["g_event"] = FALSE]
      BY <1>3 DEF WaitNonEmpty
    <2>2. Inv'
      BY <1>1, <2>1, Inductive DEF EncoderInv, kernelVars
    <2>3. EncoderTypeOK' /\ ~NonEmpty'["g_event"]
      BY <1>1, <1>3, <2>1, AppFacts DEF EncoderInv, EncoderTypeOK
    <2>4. Posted' = 0 /\ Posted = 1 /\ Pending' = 1 /\ Pending = 0
      <3>1. Posted' = 0 /\ Posted = 1
        BY <2>1, <2>3 DEF Posted
      <3>2. Pending' = 1 /\ Pending = 0
        BY <1>1, <1>3 DEF Pending, Told
      <3>3. QED
        BY <3>1, <3>2
    <2>5. toggles' + Posted' + Pending' <= ticks'
      <3>1. ticks' = ticks /\ toggles' = toggles
        BY <1>1
      <3>2. QED
        BY <2>4, <3>1, Sums, CountsAreNat
    <2>6. UNCHANGED <<ReadyProcessMap, Timeout, ProcessMap>>
      BY <2>1 DEF maps
    <2>7. QED
      BY <1>2, <2>2, <2>3, <2>5, <2>6 DEF EncoderInv
  <1>4. CASE WaitSuspends("g_event", 0) /\ exec' = "waiting"
    <2>1. /\ ~NonEmpty["g_event"] /\ UNCHANGED NonEmpty
          /\ Timeout' = [Timeout EXCEPT ![pr0] = 0]
          /\ ProcessMap' = [ProcessMap EXCEPT !["g_event"] = @ \cup {pr0}]
          /\ ReadyProcessMap' = ReadyProcessMap \ {pr0}
          /\ scheduler(ReadyProcessMap \ {pr0})
      BY <1>1, <1>4 DEF WaitSuspends, suspend
    <2>2. Inv'
      <3>1. Timeout' \in [Processes -> Nat]
        BY <2>1 DEF EncoderInv, Inv, KernelTypeOK
      <3>2. ReadyProcessMap \ {pr0} \in SUBSET Processes /\ prIDLE \in ReadyProcessMap \ {pr0}
        BY AppFacts DEF EncoderInv, Inv, KernelTypeOK, KernelInv
      <3>3. os_running /\ ~InISR /\ ~pendSV
        BY <1>1 DEF ProcessRuns
      <3>4. QED
        BY <1>1, <2>1, <3>1, <3>2, <3>3, SchedulerKeeps DEF EncoderInv
    <2>3. EncoderTypeOK'
      BY <1>1, <1>4, <2>1, AppFacts DEF EncoderInv, EncoderTypeOK
    <2>4. Timeout'[pr0] = 0 /\ ProcessMap'["g_event"] = {pr0} /\ pr0 \notin ReadyProcessMap'
      BY <1>2, <2>1, AppFacts DEF EncoderInv, EncoderTypeOK, Inv, KernelTypeOK
    <2>5. Posted' = Posted /\ Pending' = 0
      BY <1>4, <2>1, <2>4 DEF Posted, Pending, Told
    <2>6. QED
      BY <1>1, <1>4, <2>1, <2>2, <2>3, <2>4, <2>5, CountsAreNat DEF EncoderInv, EncoderTypeOK
  <1>5. QED
    BY <1>3, <1>4 DEF ExecWaits

LEMMA WokenKeeps == EncoderInv /\ ExecWoken => EncoderInv'
  <1> SUFFICES ASSUME EncoderInv, ExecWoken PROVE EncoderInv'
    OBVIOUS
  <1>1. /\ CurProcPriority = pr0 /\ exec = "waiting" /\ exec' = "test E021"
        /\ UNCHANGED <<isr, ticks, toggles>>
    BY DEF ExecWoken, history
  <1>2. PICK returned \in BOOLEAN : WaitReturns("g_event", returned)
    BY DEF ExecWoken
  <1>3. /\ os_running /\ ~InISR /\ ~pendSV
        /\ CurProcPriority \in switching /\ CurProcPriority = SchedProcPriority
        /\ switching' = switching \ {CurProcPriority}
        /\ UNCHANGED <<CurProcPriority, SchedProcPriority, pendSV, ReadyProcessMap, NonEmpty>>
    BY <1>2 DEF WaitReturns, SwitchDone
  <1>4. pr0 \in ReadyProcessMap
    BY <1>1, <1>3, ConstantFacts DEF EncoderInv, Inv, KernelInv
  <1>5. UNCHANGED ProcessMap /\ Timeout' = [Timeout EXCEPT ![pr0] = 0]
    BY <1>1, <1>2, <1>4 DEF WaitReturns, is_timeouted, EncoderInv
  <1>6. Timeout' \in [Processes -> Nat] /\ Timeout'[pr0] = 0
    BY <1>5, ConstantFacts DEF EncoderInv, Inv, KernelTypeOK
  <1>7. Inv'
    <2>1. KernelTypeOK'
      BY <1>1, <1>3, <1>6 DEF EncoderInv, Inv, KernelTypeOK, isr
    <2>2. KernelInv'
      BY <1>1, <1>3, <1>4
         DEF EncoderInv, Inv, KernelInv, TargetReady, SchedEnds, os_running, InISR, isr
    <2>3. QED
      BY <2>1, <2>2 DEF Inv
  <1>8. Told /\ Told'
    BY <1>1, <1>4 DEF Told
  <1>9. QED
    BY <1>1, <1>3, <1>4, <1>5, <1>6, <1>7, <1>8 DEF EncoderInv, EncoderTypeOK, Posted, Pending

LEMMA TestKeeps == EncoderInv /\ (ExecTestDown \/ ExecTestUp) => EncoderInv'
  <1> SUFFICES ASSUME EncoderInv, ExecTestDown \/ ExecTestUp PROVE EncoderInv'
    OBVIOUS
  <1>1. /\ exec \in {"test E021", "test E032"}
        /\ UNCHANGED <<kernelVars, serviceVars, ticks>>
        /\ \/ exec' = "wait" /\ toggles' \in {toggles, toggles + 1}
           \/ exec' = "test E032" /\ toggles' = toggles
    BY DEF ExecTestDown, ExecTestUp, Test
  <1>2. Inv'
    BY <1>1, Inductive DEF EncoderInv
  <1>3. UNCHANGED <<ReadyProcessMap, Timeout, ProcessMap, NonEmpty>>
    BY <1>1 DEF kernelVars, maps, serviceVars
  <1>4. pr0 \in ReadyProcessMap
    BY <1>1 DEF EncoderInv
  <1>5. Pending = 1 /\ Pending' = (IF exec' = "wait" THEN 0 ELSE 1)
    BY <1>1 DEF Told, Posted, Pending
  <1>6. EncoderTypeOK'
    <2>1. ticks' \in Nat /\ toggles' \in Nat
      <3>1. ticks' = ticks /\ (toggles' = toggles \/ toggles' = toggles + 1)
        BY <1>1
      <3>2. QED
        BY <3>1, Sums
    <2>2. exec' \in {"wait", "waiting", "test E021", "test E032"}
      BY <1>1
    <2>3. QED
      BY <1>3, <2>1, <2>2, Zenon DEF EncoderInv, EncoderTypeOK
  <1>7. toggles' + Posted' + Pending' <= ticks'
    <2>1. Posted' = Posted
      BY <1>3 DEF Posted
    <2>2. QED
      <3>1. \/ exec' = "wait" /\ (toggles' = toggles \/ toggles' = toggles + 1)
            \/ exec' # "wait" /\ toggles' = toggles
        BY <1>1
      <3>2. ticks' = ticks
        BY <1>1
      <3>3. QED
        BY <1>5, <2>1, <3>1, <3>2, Sums, CountsAreNat
  <1>8. QED
    BY <1>1, <1>2, <1>3, <1>4, <1>6, <1>7 DEF EncoderInv

LEMMA EncoderInvariance == Spec => []EncoderInv
  <1>1. EncoderInv /\ [Next]_vars => EncoderInv'
    <2>1. EncoderInv /\ UNCHANGED vars => EncoderInv'
      <3> SUFFICES ASSUME EncoderInv, UNCHANGED vars PROVE EncoderInv'
        OBVIOUS
      <3>1. UNCHANGED kernelVars /\ UNCHANGED <<ReadyProcessMap, Timeout, ProcessMap, NonEmpty, exec, ticks, toggles>>
        BY DEF vars, kernelVars, maps, serviceVars, appVars, history
      <3>2. Inv'
        BY <3>1, Inductive DEF EncoderInv
      <3>3. QED
        BY <3>1, <3>2 DEF EncoderInv, EncoderTypeOK, Told, Posted, Pending
    <2>2. QED
      BY <2>1, KernelStepKeeps, TickKeeps, WaitsKeeps, WokenKeeps, TestKeeps DEF Next
  <1>2. QED
    BY <1>1, EncoderInitially, PTL DEF Spec

-----------------------------------------------------------------------------

(* USBCtrlProc never sleeps on a message that has been sent, however many
   ticks the encoder makes and wherever they fall. *)
THEOREM TicksAreNoticed == Spec => []NoLostWakeup
  <1>1. EncoderInv => NoLostWakeup
    BY DEF EncoderInv, NoLostWakeup
  <1>2. QED
    BY <1>1, EncoderInvariance, PTL

(* An output is toggled at most once for each tick, for any number of ticks. *)
THEOREM TogglesAreTicks == Spec => []NoSpuriousToggle
  <1>1. EncoderInv => NoSpuriousToggle
    <2> SUFFICES ASSUME EncoderInv PROVE toggles <= ticks
      BY DEF NoSpuriousToggle
    <2>1. QED
      BY Sums, CountsAreNat
  <1>2. QED
    BY <1>1, EncoderInvariance, PTL
=============================================================================
