------------------------------- MODULE Services -------------------------------
(***************************************************************************)
(* What the services of scmRTOS are built from: class TService, and those  *)
(* that hold one flag, the message TBaseMessage and TEventFlag             *)
(* (os_services.h, os_services.cpp).                                       *)
(*                                                                         *)
(* A service keeps a map of the processes that wait for it.  A waiting     *)
(* process that is in the ready map has been woken by its timeout or by    *)
(* wake_up(): its bit in the map of waiters, which it removes itself when  *)
(* it runs again, tells it so.                                             *)
(***************************************************************************)
EXTENDS Kernel

CONSTANT Services

VARIABLES ProcessMap,   \* of each service, the processes that wait
          NonEmpty      \* of each message: sent, and nobody waited for it;
                        \*   of each event flag: its Value is efOn

serviceVars == <<ProcessMap, NonEmpty>>

-----------------------------------------------------------------------------
(* TService.                                                               *)

suspend(s) ==
    /\ ProcessMap' = [ProcessMap EXCEPT ![s] = @ \cup {CurProcPriority}]
    /\ ReadyProcessMap' = ReadyProcessMap \ {CurProcPriority}
    /\ scheduler(ReadyProcessMap \ {CurProcPriority})

is_timeouted(s) == CurProcPriority \in ProcessMap[s]

\* The waiters that resume_all_isr wakes; it returns "false" if there is none.
ToWake(s) == ProcessMap[s] \ ReadyProcessMap

resume_all_isr(s) ==
    /\ ReadyProcessMap' = ReadyProcessMap \cup ToWake(s)
    /\ ProcessMap' = [ProcessMap EXCEPT ![s] = @ \cap ReadyProcessMap]
    /\ UNCHANGED sched

\* The current process has been switched to again and leaves the loop of
\* sched(), in the critical section of the service that suspended it.
Resumed == /\ os_running /\ ~InISR /\ ~pendSV
           /\ CurProcPriority \in switching /\ CurProcPriority = SchedProcPriority

\* The process goes on without another switch, be it that it was running or
\* that it has been resumed.
Continue == switching' = switching \ {CurProcPriority} /\ UNCHANGED <<SchedProcPriority, pendSV>>

\* reschedule() by a process, when the ready map has become "ready".
reschedule(ready) ==
    IF highest_priority(ready) # CurProcPriority THEN scheduler(ready) ELSE Continue

resume_all(s) ==
    /\ ReadyProcessMap' = ReadyProcessMap \cup ToWake(s)
    /\ ProcessMap' = [ProcessMap EXCEPT ![s] = @ \cap ReadyProcessMap]
    /\ IF ToWake(s) # {} THEN reschedule(ReadyProcessMap \cup ToWake(s)) ELSE Continue

\* What the two forms of resume_next_ready do to the maps, and the process they wake.
Heir(s) == IF ToWake(s) = {} THEN {} ELSE {highest_priority(ToWake(s))}
WakeHeir(s) ==
    /\ ReadyProcessMap' = ReadyProcessMap \cup Heir(s)
    /\ ProcessMap' = [ProcessMap EXCEPT ![s] = @ \ Heir(s)]

resume_next_ready(s) ==
    /\ WakeHeir(s)
    /\ IF Heir(s) # {} THEN reschedule(ReadyProcessMap \cup Heir(s)) ELSE Continue

resume_next_ready_isr(s) == WakeHeir(s) /\ UNCHANGED sched

-----------------------------------------------------------------------------
(* TBaseMessage.  wait() is two critical sections if it has to wait: up to *)
(* the loop of sched(), and from there on; returned is what it returns.    *)

\* Faulty variant of WaitNonEmpty: takes the message but leaves it there.
WaitNonEmptyKeeps(m) == NonEmpty[m] /\ UNCHANGED <<maps, sched, serviceVars>>

WaitNonEmpty(m) ==
    /\ NonEmpty[m]
    /\ NonEmpty' = [NonEmpty EXCEPT ![m] = FALSE]
    /\ UNCHANGED <<maps, sched, ProcessMap>>

\* Faulty variant of WaitSuspends: does not look whether there is a message.
WaitSuspendsBlindly(m, timeout) ==
    /\ Timeout' = [Timeout EXCEPT ![CurProcPriority] = timeout]
    /\ suspend(m)
    /\ UNCHANGED NonEmpty

WaitSuspends(m, timeout) ==
    /\ ~NonEmpty[m]
    /\ Timeout' = [Timeout EXCEPT ![CurProcPriority] = timeout]
    /\ suspend(m)
    /\ UNCHANGED NonEmpty

WaitReturns(m, returned) ==
    /\ SwitchDone
    /\ returned = ~is_timeouted(m)
    /\ IF is_timeouted(m)
       THEN /\ ProcessMap' = [ProcessMap EXCEPT ![m] = @ \ {CurProcPriority}]
            /\ UNCHANGED Timeout
       ELSE /\ Timeout' = [Timeout EXCEPT ![CurProcPriority] = 0]
            /\ UNCHANGED ProcessMap
    /\ UNCHANGED <<CurProcPriority, SchedProcPriority, pendSV, ReadyProcessMap, NonEmpty>>

\* Faulty variant of send_isr: the message is gone if nobody waits.
send_isr_lossy(m) == resume_all_isr(m) /\ UNCHANGED NonEmpty

send_isr(m) ==
    /\ resume_all_isr(m)
    /\ NonEmpty' = [NonEmpty EXCEPT ![m] = @ \/ ToWake(m) = {}]

send(m) ==
    /\ resume_all(m)
    /\ NonEmpty' = [NonEmpty EXCEPT ![m] = @ \/ ToWake(m) = {}]

reset(m) ==
    /\ NonEmpty' = [NonEmpty EXCEPT ![m] = FALSE]
    /\ UNCHANGED <<maps, sched, ProcessMap>>

-----------------------------------------------------------------------------
(* TEventFlag: its Value and the flag of a message are used in the same    *)
(* way, by code of its own.                                                *)

EventOn(f) == WaitNonEmpty(f)
EventSuspends(f, timeout) == WaitSuspends(f, timeout)
EventReturns(f, returned) == WaitReturns(f, returned)

signal(f) == send(f)
signal_isr(f) == send_isr(f)
clear(f) == reset(f)
=============================================================================
