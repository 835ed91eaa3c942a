--------------------------------- MODULE Locks ---------------------------------
(***************************************************************************)
(* Processes that synchronise: TMutex (os_services.h, os_services.cpp),    *)
(* TRecursiveMutex (ext/recursive-mutex) and TEventFlag, under every use   *)
(* by the processes of the kernel and the handler of a device.             *)
(*                                                                         *)
(* A call is one critical section, cut where it waits in the loop of       *)
(* sched(): one action up to there, and one for each time it is resumed,   *)
(* tests again and perhaps waits again.                                    *)
(***************************************************************************)
EXTENDS Services

CONSTANTS Mutexes, RecursiveMutexes, Flags,
          Programs,       \* the sets of services that programs have
          LockTimeouts,   \* the arguments of try_lock() and wait()
          MaxNest         \* bound: how deep a process locks a recursive mutex

LockObjects == Mutexes \cup RecursiveMutexes

ASSUME LocksAssumption ==
    /\ Services = LockObjects \cup Flags
    /\ Mutexes \cap RecursiveMutexes = {} /\ LockObjects \cap Flags = {}
    /\ Programs \subseteq SUBSET Services
    /\ LockTimeouts \subseteq Nat \ {0}
    /\ MaxNest \in Nat \ {0}

VARIABLES ValueTag,    \* of each mutex, the process that has locked it: {p} or {}
          NestCount,   \* of each recursive mutex
          used,        \* the services of this program
          at,          \* the call each process is waiting in
          holds,       \* history: how often a process has locked and not unlocked
          handed       \* the mutexes whose owner leaves the unlocking to the device

lockVars == <<ValueTag, NestCount>>
clientVars == <<used, at, holds, handed>>
vars == <<kernelVars, serviceVars, lockVars, clientVars>>

-----------------------------------------------------------------------------
(* The mutexes.                                                            *)

Own(l) ==
    /\ ValueTag' = [ValueTag EXCEPT ![l] = {CurProcPriority}]
    /\ IF l \in RecursiveMutexes THEN NestCount' = [NestCount EXCEPT ![l] = 1] ELSE UNCHANGED NestCount

\* The recursive mutex is locked once more by its owner.
Nests(l) == l \in RecursiveMutexes /\ ValueTag[l] = {CurProcPriority}
Nest(l) == NestCount' = [NestCount EXCEPT ![l] = @ + 1] /\ UNCHANGED ValueTag

Locked(l) == ValueTag[l] # {}

\* What unlock() and unlock_isr() do to the mutex; the former only for its owner.
Release(l) ==
    /\ ValueTag' = [ValueTag EXCEPT ![l] = {}]
    /\ IF l \in RecursiveMutexes THEN NestCount' = [NestCount EXCEPT ![l] = 0] ELSE UNCHANGED NestCount

\* Faulty variants of unlock: one for everybody, one that wakes nobody.
unlockAnyones(l) ==
    \/ /\ l \in RecursiveMutexes /\ NestCount[l] # 1
       /\ NestCount' = [NestCount EXCEPT ![l] = @ - 1]
       /\ UNCHANGED <<maps, sched, ProcessMap, ValueTag>>
    \/ /\ l \in RecursiveMutexes => NestCount[l] = 1
       /\ Release(l) /\ resume_next_ready(l) /\ UNCHANGED Timeout
unlockSilent(l) ==
    /\ IF ValueTag[l] = {CurProcPriority} THEN Release(l) ELSE UNCHANGED lockVars
    /\ UNCHANGED <<maps, sched, ProcessMap>>

unlock(l) ==
    \/ /\ ValueTag[l] # {CurProcPriority} \/ (l \in RecursiveMutexes /\ NestCount[l] = 0)
       /\ UNCHANGED <<maps, sched, ProcessMap, lockVars>>
    \/ /\ Nests(l) /\ NestCount[l] > 1
       /\ NestCount' = [NestCount EXCEPT ![l] = @ - 1]
       /\ UNCHANGED <<maps, sched, ProcessMap, ValueTag>>
    \/ /\ ValueTag[l] = {CurProcPriority}
       /\ l \in RecursiveMutexes => NestCount[l] = 1
       /\ Release(l)
       /\ resume_next_ready(l)
       /\ UNCHANGED Timeout

unlock_isr(m) == Release(m) /\ resume_next_ready_isr(m) /\ UNCHANGED Timeout

-----------------------------------------------------------------------------
(* The calls of the processes.  CurProcPriority is the caller.             *)

Call(name, s, timeout) == [call |-> name, on |-> s, timeout |-> timeout]
NoCall == [call |-> "none"]

Calls == {NoCall} \cup [call : {"lock"}, on : LockObjects, timeout : {0}]
                  \cup [call : {"try_lock"}, on : LockObjects, timeout : LockTimeouts]
                  \cup [call : {"wait"}, on : Flags, timeout : LockTimeouts \cup {0}]

\* The processes inside one of the calls "names" for service s.
In(names, s) == {p \in Processes : at[p].call \in names /\ at[p].on = s}

Returns == at' = [at EXCEPT ![CurProcPriority] = NoCall]
WaitsIn(name, s, timeout) ==
    /\ suspend(s)
    /\ at' = [at EXCEPT ![CurProcPriority] = Call(name, s, timeout)]
Locks(l) == holds' = [holds EXCEPT ![l][CurProcPriority] = @ + 1]

\* The test at the head of the loop of lock(), and what follows it.
LockTest(l) ==
    \/ /\ Locked(l)
       /\ WaitsIn("lock", l, 0)
       /\ UNCHANGED <<Timeout, lockVars, holds>>
    \/ /\ ~Locked(l)
       /\ Own(l) /\ Locks(l)
       /\ Continue /\ Returns
       /\ UNCHANGED <<maps, ProcessMap>>

\* Likewise for try_lock(timeout); "left" is the timeout as the test leaves it.
TryTest(l, timeout, left) ==
    \/ /\ Locked(l)
       /\ Timeout' = [Timeout EXCEPT ![CurProcPriority] = timeout]
       /\ WaitsIn("try_lock", l, timeout)
       /\ UNCHANGED <<lockVars, holds>>
    \/ /\ ~Locked(l)
       /\ Timeout' = [Timeout EXCEPT ![CurProcPriority] = left]
       /\ Own(l) /\ Locks(l)
       /\ Continue /\ Returns
       /\ UNCHANGED <<ReadyProcessMap, ProcessMap>>

\* A process holds one mutex at a time, since the programs of the runs have one
\* each; it locks a TMutex again only when it has left the unlocking to the device.
MayLock(l) ==
    /\ \A k \in LockObjects \ {l} : holds[k][CurProcPriority] = 0
    /\ holds[l][CurProcPriority] < (IF l \in RecursiveMutexes THEN MaxNest ELSE 1)

CallsLock == \E l \in LockObjects \cap used :
    /\ UserRuns /\ MayLock(l)
    /\ \/ Nests(l) /\ Nest(l) /\ Locks(l) /\ UNCHANGED <<maps, sched, ProcessMap, at>>
       \/ ~Nests(l) /\ LockTest(l)
    /\ UNCHANGED <<CurProcPriority, isr, NonEmpty, used, handed>>

\* try_lock() without a timeout is lock() if the mutex is free, and nothing
\* otherwise; both forms are lock() for the owner of a recursive mutex.
CallsTryLock == \E l \in LockObjects \cap used, t \in LockTimeouts :
    /\ UserRuns /\ MayLock(l) /\ ~Nests(l)
    /\ TryTest(l, t, Timeout[CurProcPriority])
    /\ UNCHANGED <<CurProcPriority, isr, NonEmpty, used, handed>>

LockResumed ==
    /\ Resumed /\ at[CurProcPriority].call = "lock"
    /\ LockTest(at[CurProcPriority].on)
    /\ UNCHANGED <<CurProcPriority, isr, NonEmpty, used, handed>>

\* Faulty variant of TryLockResumed: takes a timeout of 0 for its expiry.
TryLockResumedByClock ==
    /\ Resumed /\ at[CurProcPriority].call = "try_lock"
    /\ LET l == at[CurProcPriority].on
       IN  \/ /\ Timeout[CurProcPriority] = 0
              /\ ProcessMap' = [ProcessMap EXCEPT ![l] = @ \ {CurProcPriority}]
              /\ Continue /\ Returns
              /\ UNCHANGED <<maps, lockVars, holds>>
           \/ /\ Timeout[CurProcPriority] # 0
              /\ TryTest(l, at[CurProcPriority].timeout, 0)
    /\ UNCHANGED <<CurProcPriority, isr, NonEmpty, used, handed>>

TryLockResumed ==
    /\ Resumed /\ at[CurProcPriority].call = "try_lock"
    /\ LET l == at[CurProcPriority].on
       IN  \/ /\ is_timeouted(l)
              /\ ProcessMap' = [ProcessMap EXCEPT ![l] = @ \ {CurProcPriority}]
              /\ Continue /\ Returns
              /\ UNCHANGED <<maps, lockVars, holds>>
           \/ /\ ~is_timeouted(l)
              /\ TryTest(l, at[CurProcPriority].timeout, 0)
    /\ UNCHANGED <<CurProcPriority, isr, NonEmpty, used, handed>>

\* Also by a client that has not looked at the answer of try_lock().
CallsUnlock == \E l \in (LockObjects \cap used) \ handed :
    /\ UserRuns
    /\ unlock(l)
    /\ holds' = [holds EXCEPT ![l][CurProcPriority] = IF @ > 0 THEN @ - 1 ELSE 0]
    /\ UNCHANGED <<CurProcPriority, isr, NonEmpty, used, at, handed>>

\* The owner starts the device, whose handler is to unlock the mutex.
HandsOver == \E m \in Mutexes \ handed :
    /\ UserRuns /\ holds[m][CurProcPriority] > 0
    /\ handed' = handed \cup {m}
    /\ holds' = [holds EXCEPT ![m][CurProcPriority] = 0]
    /\ UNCHANGED <<kernelVars, serviceVars, lockVars, used, at>>

CallsWait == \E f \in Flags \cap used, t \in LockTimeouts \cup {0} :
    /\ UserRuns
    /\ \/ EventOn(f) /\ UNCHANGED at
       \/ EventSuspends(f, t) /\ at' = [at EXCEPT ![CurProcPriority] = Call("wait", f, t)]
    /\ UNCHANGED <<CurProcPriority, isr, lockVars, used, holds, handed>>

WaitResumed == \E returned \in BOOLEAN :
    /\ Resumed /\ at[CurProcPriority].call = "wait"
    /\ EventReturns(at[CurProcPriority].on, returned)
    /\ Returns
    /\ UNCHANGED <<isr, lockVars, used, holds, handed>>

CallsSignal == \E f \in Flags \cap used :
    /\ UserRuns
    /\ signal(f) \/ clear(f)
    /\ UNCHANGED <<CurProcPriority, Timeout, isr, lockVars, clientVars>>

Sleeps(p) == \E t \in LockTimeouts :
    /\ UserRuns /\ CurProcPriority = p
    /\ sleep(t)
    /\ UNCHANGED <<CurProcPriority, isr, serviceVars, lockVars, clientVars>>

WakesUp == \E p \in Processes :
    /\ UserRuns
    /\ wake_up(p)
    /\ UNCHANGED <<CurProcPriority, isr, serviceVars, lockVars, clientVars>>

\* sched() returns to a call that has nothing more to do.
CallReturns ==
    /\ Resumed /\ at[CurProcPriority].call = "none"
    /\ SchedReturns
    /\ UNCHANGED <<serviceVars, lockVars, clientVars>>

-----------------------------------------------------------------------------
(* The handler of the device, with an OS::TISRW.                           *)

HandlerEnters == DeviceEnter /\ UNCHANGED <<serviceVars, lockVars, clientVars>>

HandlerUnlocks == \E m \in handed :
    /\ device = "entered" /\ device' = "done"
    /\ unlock_isr(m)
    /\ handed' = handed \ {m}
    /\ UNCHANGED <<CurProcPriority, ISR_NestCount, tick, NonEmpty, used, at, holds>>

HandlerSignals == \E f \in Flags \cap used :
    /\ device = "entered" /\ device' = "done"
    /\ signal_isr(f)
    /\ UNCHANGED <<CurProcPriority, Timeout, ISR_NestCount, tick, lockVars, clientVars>>

\* An interrupt of the device that is of no concern to the processes.
HandlerIgnores ==
    /\ device = "entered" /\ device' = "done"
    /\ UNCHANGED <<CurProcPriority, maps, sched, ISR_NestCount, tick>>
    /\ UNCHANGED <<serviceVars, lockVars, clientVars>>

HandlerExits == DeviceExit /\ UNCHANGED <<serviceVars, lockVars, clientVars>>

KernelStep == (Run \/ SysTick_Handler \/ PendSV_Handler) /\ UNCHANGED <<serviceVars, lockVars, clientVars>>

Init ==
    /\ KernelInit
    /\ ProcessMap = [s \in Services |-> {}]
    /\ NonEmpty = [f \in Flags |-> FALSE]
    /\ ValueTag = [l \in LockObjects |-> {}] /\ NestCount = [l \in RecursiveMutexes |-> 0]
    /\ used \in Programs
    /\ at = [p \in Processes |-> NoCall]
    /\ holds = [l \in LockObjects |-> [p \in Processes |-> 0]]
    /\ handed = {}

GoesOn == LockResumed \/ TryLockResumed \/ WaitResumed \/ CallReturns

Next ==
    \/ KernelStep
    \/ CallsLock \/ CallsTryLock \/ LockResumed \/ TryLockResumed \/ CallsUnlock \/ HandsOver
    \/ CallsWait \/ WaitResumed \/ CallsSignal
    \/ (\E p \in Processes : Sleeps(p)) \/ WakesUp \/ CallReturns
    \/ HandlerEnters \/ HandlerUnlocks \/ HandlerSignals \/ HandlerIgnores \/ HandlerExits

Spec == Init /\ [][Next]_vars

\* The kernel as in KernelFairSpec; a call goes on when it is resumed again and
\* again, and no process keeps the processor for ever: each one that runs again
\* and again unlocks what it has locked, and sleeps.
FairSpec ==
    /\ Spec
    /\ WF_vars(Run /\ UNCHANGED <<serviceVars, lockVars, clientVars>>)
    /\ SF_vars(PendSV_Handler /\ UNCHANGED <<serviceVars, lockVars, clientVars>>)
    /\ SF_vars(SysTick_Handler /\ UNCHANGED <<serviceVars, lockVars, clientVars>>)
    /\ WF_vars(HandlerUnlocks \/ HandlerSignals \/ HandlerIgnores) /\ WF_vars(HandlerExits)
    /\ \A p \in Processes \ {prIDLE} :
          SF_vars(Sleeps(p)) /\ SF_vars(CurProcPriority = p /\ GoesOn)

-----------------------------------------------------------------------------
(* Correctness.                                                            *)

LocksTypeOK ==
    /\ ProcessMap \in [Services -> SUBSET Processes] /\ NonEmpty \in [Flags -> BOOLEAN]
    /\ ValueTag \in [LockObjects -> SUBSET Processes]
    /\ NestCount \in [RecursiveMutexes -> 0 .. MaxNest]
    /\ used \in Programs
    /\ at \in [Processes -> Calls]
    /\ holds \in [LockObjects -> [Processes -> 0 .. MaxNest]]
    /\ handed \subseteq Mutexes

(* A process inside a mutex is its owner, and alone: nobody else's unlock(),
   timeout or lost race lets a second one in, and a recursive mutex counts
   what its owner has locked. *)
MutualExclusion ==
    \A l \in LockObjects, p \in Processes :
        holds[l][p] > 0 => /\ ValueTag[l] = {p}
                           /\ l \in RecursiveMutexes => NestCount[l] = holds[l][p]

Asleep(p) == p \notin ReadyProcessMap

(* An unlock is never lost: when a mutex is free and a process sleeps on it,
   another that has been woken for it is on its way to test it again -- however
   timeouts, wake-ups and processes that overtake the woken one fall between. *)
NoLostUnlock ==
    \A l \in LockObjects :
        (ValueTag[l] = {} /\ \E p \in In({"lock", "try_lock"}, l) : Asleep(p))
            => \E q \in In({"lock", "try_lock"}, l) : ~Asleep(q) /\ q \notin ProcessMap[l]

(* No process sleeps on an event flag that is on. *)
NoSleepOnEvent ==
    \A f \in Flags : NonEmpty[f] => \A p \in In({"wait"}, f) : ~Asleep(p)

(* A mutex that is free while a process sleeps on it is locked again in the
   end: the one process that unlock() has woken gets there, however often it is
   overtaken, or another one is first. *)
HandOver ==
    \A l \in LockObjects :
        (ValueTag[l] = {} /\ \E p \in In({"lock", "try_lock"}, l) : Asleep(p)) ~> ValueTag[l] # {}
=============================================================================
