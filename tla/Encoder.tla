-------------------------------- MODULE Encoder --------------------------------
(***************************************************************************)
(* The application (USBEncoder.cpp): the interrupt of timer 8, raised at   *)
(* each tick of the encoder, posts the direction in the message g_event;   *)
(* the process USBCtrlProc waits for it and toggles an output.  The kernel *)
(* has this process and the idle process.                                  *)
(***************************************************************************)
EXTENDS Services

CONSTANT MaxTicks   \* bound: ticks of the encoder

ASSUME EncoderAssumption == /\ PROCESS_COUNT = 2 /\ Services = {"g_event"}
                            /\ MaxTicks \in Nat

\* The scan codes 0x0000E021 and 0x0000E032.
Directions == {"VolumeDown", "VolumeUp"}
\* What the message holds before the first tick.
Zero == "0"

VARIABLES Msg,       \* the member of g_event
          exec,      \* where USBCtrlProc::exec is
          ODR,       \* the outputs ODR8 and ODR9
          ticks,     \* history: ticks of the encoder,
          toggles,   \*   how often an output has been toggled,
          shown      \*   whether the direction of the last tick has been since then

appVars == <<Msg, exec, ODR>>
history == <<ticks, toggles, shown>>
vars == <<kernelVars, serviceVars, appVars, history>>

-----------------------------------------------------------------------------
(* TIM8_UP_IRQHandler, of the highest priority and without an OS::TISRW.   *)
(* The counter may turn round before the handler reads its direction.      *)

TIM8_UP_IRQHandler ==
    /\ ticks < MaxTicks
    /\ Msg' \in Directions
    /\ send_isr("g_event")
    /\ ticks' = ticks + 1
    /\ shown' = FALSE
    /\ UNCHANGED <<CurProcPriority, Timeout, isr, exec, ODR, toggles>>

-----------------------------------------------------------------------------
(* USBCtrlProc::exec.                                                      *)

Output == [VolumeDown |-> "ODR8", VolumeUp |-> "ODR9"]

ExecWaits ==
    /\ ProcessRuns /\ CurProcPriority = pr0 /\ exec = "wait"
    /\ \/ WaitNonEmpty("g_event") /\ exec' = "test E021"
       \/ WaitSuspends("g_event", 0) /\ exec' = "waiting"
    /\ UNCHANGED <<CurProcPriority, isr, Msg, ODR, history>>

\* exec does not look at what wait returned.
ExecWoken ==
    /\ CurProcPriority = pr0 /\ exec = "waiting"
    /\ \E returned \in BOOLEAN : WaitReturns("g_event", returned)
    /\ exec' = "test E021"
    /\ UNCHANGED <<isr, Msg, ODR, history>>

\* Reads g_event, compares it with the scan code of d, and toggles an output;
\* nobody else touches the outputs.
Test(d, otherwise) ==
    /\ ProcessRuns /\ CurProcPriority = pr0
    /\ IF Msg = d
       THEN /\ ODR' = [ODR EXCEPT ![Output[d]] = ~@]
            /\ exec' = "wait"
            /\ toggles' = toggles + 1
            /\ shown' = TRUE
       ELSE /\ exec' = otherwise
            /\ UNCHANGED <<ODR, toggles, shown>>
    /\ UNCHANGED <<kernelVars, serviceVars, Msg, ticks>>

ExecTestDown == exec = "test E021" /\ Test("VolumeDown", "test E032")
ExecTestUp == exec = "test E032" /\ Test("VolumeUp", "wait")

-----------------------------------------------------------------------------
KernelStep == (Run \/ SysTick_Handler \/ PendSV_Handler) /\ UNCHANGED <<serviceVars, appVars, history>>

\* After TimInit, so that ticks may come before OS::run().
Init ==
    /\ KernelInit
    /\ ProcessMap = [s \in Services |-> {}] /\ NonEmpty = [s \in Services |-> FALSE]
    /\ Msg = Zero /\ exec = "wait" /\ ODR = [o \in {"ODR8", "ODR9"} |-> FALSE]
    /\ ticks = 0 /\ toggles = 0 /\ shown = TRUE

Next ==
    \/ KernelStep \/ TIM8_UP_IRQHandler
    \/ ExecWaits \/ ExecWoken \/ ExecTestDown \/ ExecTestUp

Spec == Init /\ [][Next]_vars

\* As for the kernel alone; a process that has the processor goes on.
FairSpec ==
    /\ Spec
    /\ WF_vars(Run /\ UNCHANGED <<serviceVars, appVars, history>>)
    /\ SF_vars(PendSV_Handler /\ UNCHANGED <<serviceVars, appVars, history>>)
    /\ SF_vars(SysTick_Handler /\ UNCHANGED <<serviceVars, appVars, history>>)
    /\ SF_vars(ExecWaits) /\ SF_vars(ExecWoken) /\ SF_vars(ExecTestDown) /\ SF_vars(ExecTestUp)

-----------------------------------------------------------------------------
(* Correctness.                                                            *)

(* The process never sleeps on a message that has been sent: between the test
   of NonEmpty and the entry in the map of waiters no tick is lost. *)
NoLostWakeup ==
    NonEmpty["g_event"] => pr0 \in ReadyProcessMap

(* An output is toggled at most once for each tick of the encoder, however the
   ticks fall between the waits and the two readings of g_event. *)
NoSpuriousToggle == toggles <= ticks

(* When the encoder stops, the direction of its last tick is shown, although
   ticks in quick succession share a message and the interrupt asks for no
   context switch: the process must run, and read the last value. *)
LastTickShown == ~shown ~> shown
=============================================================================
