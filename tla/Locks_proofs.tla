----------------------------- MODULE Locks_proofs -----------------------------
(***************************************************************************)
(* Mutual exclusion, and no unlock that is lost, for every number of       *)
(* processes, of mutexes and of event flags.                               *)
(***************************************************************************)
EXTENDS Locks, Services_proofs

LockCalls == {"lock", "try_lock"}

\* Who is inside a mutex, and what the device may unlock.
OwnInv ==
    /\ MutualExclusion
    /\ \A l \in RecursiveMutexes, p \in Processes : ValueTag[l] = {p} => NestCount[l] = holds[l][p]
    /\ \A m \in Mutexes, p \in Processes : holds[m][p] <= 1
    /\ \A m \in handed : Locked(m) /\ \A p \in Processes : holds[m][p] = 0

\* How a process waits: in sched(), with its bit in one map, that of the service
\* it waits for, until that is cleared for it; never with a timeout in lock().
Waits(p) ==
    /\ at[p] # NoCall => p \in switching
    /\ \A s \in Services : p \in ProcessMap[s] => at[p] # NoCall /\ at[p].on = s
    /\ at[p] # NoCall /\ Asleep(p) => p \in ProcessMap[at[p].on]
    /\ at[p].call = "lock" => Timeout[p] = 0 /\ (p \in ProcessMap[at[p].on] => Asleep(p))
    /\ Timeout[p] > 0 /\ ~Asleep(p) => at[p].call \in {"try_lock", "wait"} /\ p \notin ProcessMap[at[p].on]

WaitInv == at[prIDLE] = NoCall /\ \A p \in Processes : Waits(p)

LocksInv == Inv /\ LocksTypeOK /\ OwnInv /\ WaitInv /\ NoLostUnlock /\ NoSleepOnEvent

-----------------------------------------------------------------------------
LEMMA Names ==
    /\ LockObjects \subseteq Services /\ Flags \subseteq Services
    /\ Mutexes \subseteq LockObjects /\ RecursiveMutexes \subseteq LockObjects
    /\ \A s \in Services : s \in LockObjects \/ s \in Flags
    /\ \A l \in LockObjects : l \notin Flags /\ (l \in Mutexes \/ l \in RecursiveMutexes)
    /\ \A m \in Mutexes : m \notin RecursiveMutexes
    /\ MaxNest \in Nat /\ MaxNest >= 1
  BY LocksAssumption DEF LockObjects

LEMMA CallKinds ==
    ASSUME NEW c \in Calls
    PROVE  \/ c = NoCall /\ c.call = "none"
           \/ c # NoCall /\ c.call = "lock" /\ c.on \in LockObjects /\ c.timeout = 0
           \/ c # NoCall /\ c.call = "try_lock" /\ c.on \in LockObjects /\ c.timeout \in LockTimeouts
           \/ c # NoCall /\ c.call = "wait" /\ c.on \in Flags /\ c.timeout \in LockTimeouts \cup {0}
  BY DEF Calls, NoCall

-----------------------------------------------------------------------------
(* Ownership.                                                              *)

LEMMA OwnKeeps ==
    ASSUME LocksTypeOK, OwnInv, CurProcPriority \in Processes, NEW l \in LockObjects,
           ~Locked(l), Own(l), Locks(l), UNCHANGED handed
    PROVE  /\ OwnInv'
           /\ ValueTag' \in [LockObjects -> SUBSET Processes] /\ NestCount' \in [RecursiveMutexes -> 0 .. MaxNest]
           /\ holds' \in [LockObjects -> [Processes -> 0 .. MaxNest]]
           /\ ValueTag'[l] # {} /\ \A k \in LockObjects \ {l} : ValueTag'[k] = ValueTag[k]
  <1>1. \A p \in Processes : holds[l][p] = 0
    <2> SUFFICES ASSUME NEW p \in Processes PROVE holds[l][p] = 0
      OBVIOUS
    <2>1. holds[l] \in [Processes -> 0 .. MaxNest] /\ MaxNest \in Nat
      BY Names DEF LocksTypeOK
    <2>2. holds[l][p] \in 0 .. MaxNest
      BY <2>1
    <2>3. ~(holds[l][p] > 0)
      BY DEF OwnInv, MutualExclusion, Locked
    <2>4. QED
      BY <2>1, <2>2, <2>3
  <1>2. /\ ValueTag' = [ValueTag EXCEPT ![l] = {CurProcPriority}]
        /\ holds' = [holds EXCEPT ![l] = [holds[l] EXCEPT ![CurProcPriority] = holds[l][CurProcPriority] + 1]]
    BY DEF Own, Locks
  <1>3. /\ \A p \in Processes : holds'[l][p] = IF p = CurProcPriority THEN 1 ELSE 0
        /\ \A k \in LockObjects \ {l}, p \in Processes : holds'[k][p] = holds[k][p]
        /\ holds' \in [LockObjects -> [Processes -> 0 .. MaxNest]]
    BY <1>1, <1>2, Names DEF LocksTypeOK
  <1>4. /\ ValueTag'[l] = {CurProcPriority} /\ \A k \in LockObjects \ {l} : ValueTag'[k] = ValueTag[k]
        /\ ValueTag' \in [LockObjects -> SUBSET Processes]
    BY <1>2 DEF LocksTypeOK
  <1>5. /\ l \in RecursiveMutexes => NestCount'[l] = 1
        /\ \A k \in RecursiveMutexes \ {l} : NestCount'[k] = NestCount[k]
        /\ NestCount' \in [RecursiveMutexes -> 0 .. MaxNest]
    BY Names DEF Own, LocksTypeOK
  <1>6. l \notin handed
    BY DEF OwnInv
  <1>7. MutualExclusion'
    <2> SUFFICES ASSUME NEW k \in LockObjects, NEW p \in Processes, holds'[k][p] > 0
                 PROVE  ValueTag'[k] = {p} /\ (k \in RecursiveMutexes => NestCount'[k] = holds'[k][p])
      BY DEF MutualExclusion
    <2>1. CASE k = l
      BY <1>3, <1>4, <1>5, <2>1
    <2>2. CASE k # l
      BY <1>3, <1>4, <1>5, <2>2 DEF OwnInv, MutualExclusion
    <2>3. QED
      BY <2>1, <2>2
  <1>8. OwnInv'
    <2>1. \A k \in RecursiveMutexes, p \in Processes : ValueTag'[k] = {p} => NestCount'[k] = holds'[k][p]
      <3> SUFFICES ASSUME NEW k \in RecursiveMutexes, NEW p \in Processes, ValueTag'[k] = {p}
                   PROVE  NestCount'[k] = holds'[k][p]
        OBVIOUS
      <3>1. CASE k = l
        BY <1>3, <1>4, <1>5, <3>1
      <3>2. CASE k # l
        BY <1>3, <1>4, <1>5, <3>2, Names DEF OwnInv
      <3>3. QED
        BY <3>1, <3>2
    <2>2. \A m \in Mutexes, p \in Processes : holds'[m][p] <= 1
      BY <1>3, Names DEF OwnInv
    <2>3. \A m \in handed' : Locked(m)' /\ \A p \in Processes : holds'[m][p] = 0
      <3> SUFFICES ASSUME NEW m \in handed PROVE ValueTag'[m] # {} /\ \A p \in Processes : holds'[m][p] = 0
        BY DEF Locked
      <3>1. m \in LockObjects \ {l}
        BY <1>6, Names DEF LocksTypeOK
      <3>2. ValueTag[m] # {} /\ \A p \in Processes : holds[m][p] = 0
        BY DEF OwnInv, Locked
      <3>3. QED
        BY <1>3, <1>4, <3>1, <3>2
    <2>4. QED
      BY <1>7, <2>1, <2>2, <2>3 DEF OwnInv
  <1>9. QED
    BY <1>3, <1>4, <1>5, <1>8

LEMMA NestKeeps ==
    ASSUME LocksTypeOK, OwnInv, CurProcPriority \in Processes, NEW l \in LockObjects,
           Nests(l), Nest(l), Locks(l), MayLock(l), UNCHANGED handed
    PROVE  /\ OwnInv'
           /\ NestCount' \in [RecursiveMutexes -> 0 .. MaxNest]
           /\ holds' \in [LockObjects -> [Processes -> 0 .. MaxNest]]
           /\ UNCHANGED ValueTag
  <1> DEFINE c == CurProcPriority
  <1>1. /\ l \in RecursiveMutexes /\ ValueTag[l] = {c} /\ UNCHANGED ValueTag
        /\ NestCount' = [NestCount EXCEPT ![l] = NestCount[l] + 1]
        /\ holds' = [holds EXCEPT ![l] = [holds[l] EXCEPT ![c] = holds[l][c] + 1]]
    BY DEF Nests, Nest, Locks
  <1>2. NestCount[l] = holds[l][c] /\ holds[l][c] + 1 \in 0 .. MaxNest
    BY <1>1, Names DEF OwnInv, LocksTypeOK, MayLock
  <1>3. /\ \A k \in LockObjects, p \in Processes :
              holds'[k][p] = IF k = l /\ p = c THEN holds[l][c] + 1 ELSE holds[k][p]
        /\ holds' \in [LockObjects -> [Processes -> 0 .. MaxNest]]
    BY <1>1, <1>2, Names DEF LocksTypeOK
  <1>4. /\ \A k \in RecursiveMutexes : NestCount'[k] = IF k = l THEN NestCount[l] + 1 ELSE NestCount[k]
        /\ NestCount' \in [RecursiveMutexes -> 0 .. MaxNest]
    BY <1>1, <1>2, Names DEF LocksTypeOK
  <1>5. \A p \in Processes : holds[l][p] > 0 => p = c
    BY <1>1 DEF OwnInv, MutualExclusion
  <1>6. MutualExclusion'
    <2> SUFFICES ASSUME NEW k \in LockObjects, NEW p \in Processes, holds'[k][p] > 0
                 PROVE  ValueTag'[k] = {p} /\ (k \in RecursiveMutexes => NestCount'[k] = holds'[k][p])
      BY DEF MutualExclusion
    <2>1. CASE k = l
      BY <1>1, <1>2, <1>3, <1>4, <1>5, <2>1
    <2>2. CASE k # l
      BY <1>1, <1>3, <1>4, <2>2 DEF OwnInv, MutualExclusion
    <2>3. QED
      BY <2>1, <2>2
  <1>7. OwnInv'
    <2>1. \A k \in RecursiveMutexes, p \in Processes : ValueTag'[k] = {p} => NestCount'[k] = holds'[k][p]
      <3> SUFFICES ASSUME NEW k \in RecursiveMutexes, NEW p \in Processes, ValueTag'[k] = {p}
                   PROVE  NestCount'[k] = holds'[k][p]
        OBVIOUS
      <3>1. CASE k = l
        BY <1>1, <1>2, <1>3, <1>4, <3>1
      <3>2. CASE k # l
        BY <1>1, <1>3, <1>4, <3>2, Names DEF OwnInv
      <3>3. QED
        BY <3>1, <3>2
    <2>2. \A m \in LockObjects, p \in Processes : m \in Mutexes => holds'[m][p] = holds[m][p]
      BY <1>1, <1>3, Names
    <2>3. QED
      BY <1>1, <1>6, <2>1, <2>2, Names DEF OwnInv, Locked, LocksTypeOK
  <1>8. QED
    BY <1>1, <1>3, <1>4, <1>7

\* A process or the device, when nobody is inside, releases a mutex.
LEMMA ReleaseKeeps ==
    ASSUME LocksTypeOK, OwnInv, NEW l \in LockObjects, Release(l), NEW gone \in SUBSET Mutexes,
           \A p \in Processes : holds'[l][p] = 0,
           \A k \in LockObjects \ {l}, p \in Processes : holds'[k][p] = holds[k][p],
           handed' = handed \ gone, l \notin handed'
    PROVE  /\ OwnInv'
           /\ ValueTag' \in [LockObjects -> SUBSET Processes] /\ NestCount' \in [RecursiveMutexes -> 0 .. MaxNest]
           /\ ValueTag'[l] = {} /\ \A k \in LockObjects \ {l} : ValueTag'[k] = ValueTag[k]
  <1>1. /\ ValueTag'[l] = {} /\ \A k \in LockObjects \ {l} : ValueTag'[k] = ValueTag[k]
        /\ ValueTag' \in [LockObjects -> SUBSET Processes]
    BY DEF Release, LocksTypeOK
  <1>2. /\ \A k \in RecursiveMutexes \ {l} : NestCount'[k] = NestCount[k]
        /\ NestCount' \in [RecursiveMutexes -> 0 .. MaxNest]
    BY Names DEF Release, LocksTypeOK
  <1>3. MutualExclusion'
    <2> SUFFICES ASSUME NEW k \in LockObjects, NEW p \in Processes, holds'[k][p] > 0
                 PROVE  ValueTag'[k] = {p} /\ (k \in RecursiveMutexes => NestCount'[k] = holds'[k][p])
      BY DEF MutualExclusion
    <2>1. k # l
      OBVIOUS
    <2>2. QED
      BY <1>1, <1>2, <2>1 DEF OwnInv, MutualExclusion
  <1>4. \A k \in RecursiveMutexes, p \in Processes : ValueTag'[k] = {p} => NestCount'[k] = holds'[k][p]
    <2> SUFFICES ASSUME NEW k \in RecursiveMutexes, NEW p \in Processes, ValueTag'[k] = {p}
                 PROVE  NestCount'[k] = holds'[k][p]
      OBVIOUS
    <2>1. k # l
      BY <1>1
    <2>2. QED
      BY <1>1, <1>2, <2>1, Names DEF OwnInv
  <1>5. \A m \in Mutexes, p \in Processes : holds'[m][p] <= 1
    <2> SUFFICES ASSUME NEW m \in Mutexes, NEW p \in Processes PROVE holds'[m][p] <= 1
      OBVIOUS
    <2>1. CASE m = l
      BY <2>1
    <2>2. CASE m # l
      BY <2>2, Names DEF OwnInv
    <2>3. QED
      BY <2>1, <2>2
  <1>6. \A m \in handed' : Locked(m)' /\ \A p \in Processes : holds'[m][p] = 0
    <2> SUFFICES ASSUME NEW m \in handed' PROVE ValueTag'[m] # {} /\ \A p \in Processes : holds'[m][p] = 0
      BY DEF Locked
    <2>1. m \in handed /\ m \in LockObjects \ {l}
      BY Names DEF LocksTypeOK
    <2>2. ValueTag[m] # {} /\ \A p \in Processes : holds[m][p] = 0
      BY <2>1 DEF OwnInv, Locked
    <2>3. QED
      BY <1>1, <2>1, <2>2
  <1>7. QED
    BY <1>1, <1>2, <1>3, <1>4, <1>5, <1>6 DEF OwnInv

LEMMA CallsUnlockKeepsOwn ==
    ASSUME LocksTypeOK, OwnInv, CurProcPriority \in Processes, NEW l \in LockObjects, l \notin handed,
           unlock(l), UNCHANGED handed,
           holds' = [holds EXCEPT ![l][CurProcPriority] = IF @ > 0 THEN @ - 1 ELSE 0]
    PROVE  /\ OwnInv'
           /\ ValueTag' \in [LockObjects -> SUBSET Processes] /\ NestCount' \in [RecursiveMutexes -> 0 .. MaxNest]
           /\ holds' \in [LockObjects -> [Processes -> 0 .. MaxNest]]
           /\ \/ UNCHANGED <<ValueTag, maps, sched, ProcessMap>>
              \/ /\ ValueTag'[l] = {} /\ \A k \in LockObjects \ {l} : ValueTag'[k] = ValueTag[k]
                 /\ resume_next_ready(l) /\ UNCHANGED Timeout
  <1> DEFINE c == CurProcPriority
             left == IF holds[l][c] > 0 THEN holds[l][c] - 1 ELSE 0
  <1>1. holds[l] \in [Processes -> 0 .. MaxNest] /\ holds[l][c] \in 0 .. MaxNest /\ MaxNest \in Nat
    BY Names DEF LocksTypeOK
  <1>2. left \in 0 .. MaxNest
    BY <1>1
  <1>3. holds' = [holds EXCEPT ![l] = [holds[l] EXCEPT ![c] = left]]
    OBVIOUS
  <1> HIDE DEF left
  <1>4. /\ \A k \in LockObjects, p \in Processes : holds'[k][p] = IF k = l /\ p = c THEN left ELSE holds[k][p]
        /\ holds' \in [LockObjects -> [Processes -> 0 .. MaxNest]]
    BY <1>1, <1>2, <1>3 DEF LocksTypeOK
  <1>5. CASE /\ ValueTag[l] # {c} \/ (l \in RecursiveMutexes /\ NestCount[l] = 0)
             /\ UNCHANGED <<maps, sched, ProcessMap, lockVars>>
    <2>1. holds[l][c] = 0
      <3>1. CASE ValueTag[l] # {c}
        BY <1>1, <3>1 DEF OwnInv, MutualExclusion
      <3>2. CASE ValueTag[l] = {c} /\ l \in RecursiveMutexes /\ NestCount[l] = 0
        BY <3>2 DEF OwnInv
      <3>3. QED
        BY <1>5, <3>1, <3>2
    <2>2. left = 0
      BY <2>1 DEF left
    <2>3. \A k \in LockObjects, p \in Processes : holds'[k][p] = holds[k][p]
      BY <1>4, <2>1, <2>2
    <2>4. UNCHANGED <<ValueTag, NestCount, maps, sched, ProcessMap>>
      BY <1>5 DEF lockVars
    <2>5. OwnInv'
      BY <2>3, <2>4, Names DEF OwnInv, MutualExclusion, Locked, LocksTypeOK
    <2>6. QED
      BY <1>4, <2>4, <2>5 DEF LocksTypeOK
  <1>6. CASE /\ Nests(l) /\ NestCount[l] > 1
             /\ NestCount' = [NestCount EXCEPT ![l] = @ - 1]
             /\ UNCHANGED <<maps, sched, ProcessMap, ValueTag>>
    <2>1. l \in RecursiveMutexes /\ ValueTag[l] = {c} /\ NestCount[l] = holds[l][c]
      BY <1>6 DEF Nests, OwnInv
    <2>2. left = NestCount[l] - 1
      BY <1>1, <1>6, <2>1 DEF left
    <2>3. /\ \A k \in RecursiveMutexes : NestCount'[k] = IF k = l THEN left ELSE NestCount[k]
          /\ NestCount' \in [RecursiveMutexes -> 0 .. MaxNest]
      BY <1>2, <1>6, <2>1, <2>2 DEF LocksTypeOK
    <2>4. \A p \in Processes : holds[l][p] > 0 => p = c
      BY <2>1 DEF OwnInv, MutualExclusion
    <2>5. MutualExclusion'
      <3> SUFFICES ASSUME NEW k \in LockObjects, NEW p \in Processes, holds'[k][p] > 0
                   PROVE  ValueTag[k] = {p} /\ (k \in RecursiveMutexes => NestCount'[k] = holds'[k][p])
        BY <1>6 DEF MutualExclusion
      <3>1. CASE k = l
        BY <1>4, <2>1, <2>3, <2>4, <3>1
      <3>2. CASE k # l
        BY <1>4, <2>3, <3>2 DEF OwnInv, MutualExclusion
      <3>3. QED
        BY <3>1, <3>2
    <2>6. \A k \in RecursiveMutexes, p \in Processes : ValueTag[k] = {p} => NestCount'[k] = holds'[k][p]
      <3> SUFFICES ASSUME NEW k \in RecursiveMutexes, NEW p \in Processes, ValueTag[k] = {p}
                   PROVE  NestCount'[k] = holds'[k][p]
        OBVIOUS
      <3>1. CASE k = l
        BY <1>4, <2>1, <2>3, <3>1
      <3>2. CASE k # l
        BY <1>4, <2>3, <3>2, Names DEF OwnInv
      <3>3. QED
        BY <3>1, <3>2
    <2>7. \A m \in Mutexes, p \in Processes : holds'[m][p] = holds[m][p]
      BY <1>4, <2>1, Names
    <2>8. OwnInv'
      BY <1>6, <2>5, <2>6, <2>7, Names DEF OwnInv, Locked, LocksTypeOK
    <2>9. QED
      BY <1>4, <1>6, <2>3, <2>8 DEF LocksTypeOK
  <1>7. CASE /\ ValueTag[l] = {c} /\ (l \in RecursiveMutexes => NestCount[l] = 1)
             /\ Release(l) /\ resume_next_ready(l) /\ UNCHANGED Timeout
    <2>1. holds[l][c] <= 1
      BY <1>7, Names DEF OwnInv
    <2>2. left = 0
      BY <1>1, <2>1 DEF left
    <2>3. \A p \in Processes : p # c => holds[l][p] = 0
      <3> SUFFICES ASSUME NEW p \in Processes, p # c PROVE holds[l][p] = 0
        OBVIOUS
      <3>1. ~(holds[l][p] > 0)
        BY <1>7 DEF OwnInv, MutualExclusion
      <3>2. holds[l][p] \in 0 .. MaxNest
        BY <1>1
      <3>3. QED
        BY <1>1, <3>1, <3>2
    <2>4. \A p \in Processes : holds'[l][p] = 0
      BY <1>4, <2>2, <2>3
    <2>5. \A k \in LockObjects \ {l}, p \in Processes : holds'[k][p] = holds[k][p]
      BY <1>4
    <2>6. handed' = handed \ {} /\ l \notin handed' /\ Release(l) /\ {} \in SUBSET Mutexes
      BY <1>7
    <2>7. /\ OwnInv'
          /\ ValueTag' \in [LockObjects -> SUBSET Processes] /\ NestCount' \in [RecursiveMutexes -> 0 .. MaxNest]
          /\ ValueTag'[l] = {} /\ \A k \in LockObjects \ {l} : ValueTag'[k] = ValueTag[k]
      BY <2>4, <2>5, <2>6, ReleaseKeeps
    <2>8. QED
      BY <1>4, <1>7, <2>7
  <1>8. QED
    BY <1>5, <1>6, <1>7 DEF unlock

-----------------------------------------------------------------------------
(* Waiting: what a step can do to a process, and that each of these keeps  *)
(* what Waits says of it.                                                  *)

Bits(p) == \A s \in Services : p \in ProcessMap'[s] <=> p \in ProcessMap[s]
Stays(p) == at'[p] = at[p] /\ (p \in switching => p \in switching')

\* Nothing, or one tick of its timeout.
Unmoved(p) ==
    /\ Stays(p) /\ Bits(p)
    /\ p \in ReadyProcessMap' <=> p \in ReadyProcessMap
    /\ Timeout'[p] = Timeout[p] \/ (Timeout[p] > 0 /\ Timeout'[p] > 0)

\* The service it waits for makes it ready.
IsResumed(p) ==
    /\ Stays(p) /\ at[p] # NoCall
    /\ p \notin ReadyProcessMap /\ p \in ReadyProcessMap'
    /\ UNCHANGED Timeout[p]
    /\ \A s \in Services : p \notin ProcessMap'[s]

\* Its timeout expires, or wake_up() ends it.
IsTimedOut(p) ==
    /\ Stays(p) /\ Bits(p)
    /\ Timeout[p] > 0 /\ Timeout'[p] = 0 /\ p \in ReadyProcessMap'

Follows(p) == Unmoved(p) \/ IsResumed(p) \/ IsTimedOut(p)

\* It is in no call any more, or asleep in one.
IsFree(p) ==
    /\ at'[p] = NoCall /\ (Timeout'[p] = 0 \/ p \notin ReadyProcessMap')
    /\ \A s \in Services : p \notin ProcessMap'[s]

FallsAsleep(p, s) ==
    /\ at'[p] # NoCall /\ at'[p].on = s
    /\ p \notin ReadyProcessMap' /\ p \in switching'
    /\ \A r \in Services : p \in ProcessMap'[r] <=> r = s
    /\ at'[p].call = "lock" => Timeout'[p] = 0

LEMMA WaitsKeeps ==
    ASSUME NEW p \in Processes, Waits(p), at[p] \in Calls, at'[p] \in Calls,
           Follows(p) \/ IsFree(p) \/ \E s \in Services : FallsAsleep(p, s)
    PROVE  Waits(p)'
  <1>0. /\ at[p] # NoCall => at[p].on \in Services /\ at[p].call \in {"lock", "try_lock", "wait"}
        /\ at[p] = NoCall => at[p].call = "none"
        /\ at'[p] # NoCall => at'[p].on \in Services /\ at'[p].call \in {"lock", "try_lock", "wait"}
        /\ at'[p] = NoCall => at'[p].call = "none"
    BY CallKinds, Names DEF NoCall
  <1>1. CASE Unmoved(p)
    BY <1>0, <1>1 DEF Unmoved, Stays, Bits, Waits, Asleep
  <1>2. CASE IsResumed(p)
    BY <1>0, <1>2 DEF IsResumed, Stays, Waits, Asleep
  <1>3. CASE IsTimedOut(p)
    BY <1>0, <1>3 DEF IsTimedOut, Stays, Bits, Waits, Asleep
  <1>4. CASE IsFree(p)
    BY <1>0, <1>4 DEF IsFree, Waits, Asleep
  <1>5. CASE \E s \in Services : FallsAsleep(p, s)
    BY <1>0, <1>5 DEF FallsAsleep, Waits, Asleep
  <1>6. QED
    BY <1>1, <1>2, <1>3, <1>4, <1>5 DEF Follows

Joins(p, s) == FallsAsleep(p, s) /\ ~Follows(p)

\* What holds of a process that executes.
LEMMA Caller ==
    ASSUME LocksInv
    PROVE  /\ InCall => CurProcPriority \in Processes /\ ~Asleep(CurProcPriority)
           /\ UserRuns => /\ InCall /\ CurProcPriority # prIDLE
                          /\ at[CurProcPriority] = NoCall /\ Timeout[CurProcPriority] = 0
                          /\ \A s \in Services : CurProcPriority \notin ProcessMap[s]
           /\ Resumed => InCall
  <1> DEFINE c == CurProcPriority
  <1>1. InCall => c \in Processes /\ ~Asleep(c)
    BY CallerReady DEF LocksInv, Asleep
  <1>2. ASSUME UserRuns
        PROVE  /\ InCall /\ c # prIDLE /\ at[c] = NoCall /\ Timeout[c] = 0
               /\ \A s \in Services : c \notin ProcessMap[s]
    <2>1. InCall /\ c # prIDLE /\ c \notin switching /\ c \in Processes /\ ~Asleep(c)
      BY <1>1, <1>2, CallFacts
    <2>2. Waits(c)
      BY <2>1 DEF LocksInv, WaitInv
    <2>3. at[c] = NoCall
      BY <2>1, <2>2 DEF Waits
    <2>4. Timeout[c] \in Nat /\ ~(Timeout[c] > 0)
      BY <2>1, <2>2, <2>3 DEF Waits, NoCall, LocksInv, Inv, KernelTypeOK
    <2>5. \A s \in Services : c \notin ProcessMap[s]
      BY <2>2, <2>3 DEF Waits
    <2>6. QED
      BY <2>1, <2>3, <2>4, <2>5
  <1>3. QED
    BY <1>1, <1>2, CallFacts

\* A step of the process c that the others follow.  Of each mutex: it is locked
\* after the step; or c is not the one on its way to it, nor going to sleep on
\* it; or one of those who sleep on it is resumed, if there is any.
LEMMA Step ==
    ASSUME LocksInv, Inv', LocksTypeOK', OwnInv', NEW c \in Processes,
           \A p \in Processes \ {c} : Follows(p),
           Follows(c) \/ IsFree(c) \/ \E s \in Services : FallsAsleep(c, s),
           \A l \in LockObjects :
               \/ ValueTag'[l] # {}
               \/ /\ ValueTag[l] = {}
                  /\ Follows(c) \/ at[c] = NoCall \/ at[c].on # l \/ Asleep(c) \/ c \in ProcessMap[l]
                  /\ ~Joins(c, l)
               \/ /\ ProcessMap[l] \subseteq ReadyProcessMap \/ \E q \in ProcessMap[l] : IsResumed(q)
                  /\ ~Joins(c, l),
           \A f \in Flags :
               \/ NonEmpty'[f] = FALSE
               \/ NonEmpty[f] /\ ~Joins(c, f)
               \/ ProcessMap[f] \subseteq ReadyProcessMap /\ ~Joins(c, f)
    PROVE  LocksInv'
  <1>0. \A p \in Processes : at[p] \in Calls /\ at'[p] \in Calls /\ Waits(p)
    BY DEF LocksInv, WaitInv, LocksTypeOK
  <1>1. WaitInv'
    <2>1. ASSUME NEW p \in Processes PROVE Waits(p)'
      <3>1. Follows(p) \/ IsFree(p) \/ \E s \in Services : FallsAsleep(p, s)
        BY Zenon
      <3>2. QED
        BY <1>0, <3>1, WaitsKeeps
    <2>2. prIDLE \in Processes /\ prIDLE \in ReadyProcessMap'
      BY ConstantFacts DEF Inv, KernelInv
    <2>3. at'[prIDLE] = NoCall
      BY <2>2 DEF Follows, Unmoved, IsResumed, IsTimedOut, Stays, IsFree, FallsAsleep, LocksInv, WaitInv
    <2>4. QED
      BY <2>1, <2>3 DEF WaitInv
  <1>2. ASSUME NEW s \in Services, NEW p \in Processes, at'[p] # NoCall, at'[p].on = s, Asleep(p)', ~Joins(c, s)
        PROVE  at'[p] = at[p] /\ Asleep(p) /\ p \in ProcessMap[s]
    <2>1. Follows(p)
      BY <1>2 DEF IsFree, FallsAsleep, Joins
    <2>2. at'[p] = at[p] /\ Asleep(p)
      BY <1>2, <2>1 DEF Follows, Unmoved, IsResumed, IsTimedOut, Stays, Asleep
    <2>3. QED
      BY <1>0, <1>2, <2>2 DEF Waits
  <1>3. NoLostUnlock'
    <2> SUFFICES ASSUME NEW l \in LockObjects, ValueTag'[l] = {},
                        NEW p \in Processes, at'[p].call \in LockCalls, at'[p].on = l, Asleep(p)'
                 PROVE  \E q \in Processes : /\ at'[q].call \in LockCalls /\ at'[q].on = l
                                              /\ ~Asleep(q)' /\ q \notin ProcessMap'[l]
      BY DEF NoLostUnlock, In, LockCalls
    <2>0. l \in Services /\ at'[p] # NoCall
      BY Names DEF NoCall, LockCalls
    <2>1. CASE /\ ValueTag[l] = {} /\ ~Joins(c, l)
               /\ Follows(c) \/ at[c] = NoCall \/ at[c].on # l \/ Asleep(c) \/ c \in ProcessMap[l]
      <3>1. at'[p] = at[p] /\ Asleep(p)
        BY <1>2, <2>0, <2>1
      <3>2. PICK q \in Processes : /\ at[q].call \in LockCalls /\ at[q].on = l
                                    /\ ~Asleep(q) /\ q \notin ProcessMap[l]
        BY <2>1, <3>1 DEF LocksInv, NoLostUnlock, In, LockCalls
      <3>3. at[q] # NoCall
        BY <3>2 DEF NoCall, LockCalls
      <3>4. Follows(q)
        BY <2>1, <3>2, <3>3
      <3>5. at'[q] = at[q] /\ ~Asleep(q)' /\ q \notin ProcessMap'[l]
        BY <2>0, <3>2, <3>4 DEF Follows, Unmoved, IsResumed, IsTimedOut, Stays, Bits, Asleep
      <3>6. QED
        BY <3>2, <3>5
    <2>2. CASE /\ ProcessMap[l] \subseteq ReadyProcessMap \/ \E q \in ProcessMap[l] : IsResumed(q)
               /\ ~Joins(c, l)
      <3>1. Asleep(p) /\ p \in ProcessMap[l] /\ at[p].call \in LockCalls
        BY <1>2, <2>0, <2>2
      <3>2. PICK q \in ProcessMap[l] : IsResumed(q)
        BY <2>2, <3>1 DEF Asleep
      <3>3. q \in Processes
        BY <2>0 DEF LocksInv, LocksTypeOK
      <3>4. at[q] # NoCall /\ at[q].on = l
        BY <1>0, <2>0, <3>3 DEF Waits
      <3>5. at[q].call \in LockCalls
        BY <1>0, <3>3, <3>4, CallKinds, Names DEF LockCalls
      <3>6. at'[q] = at[q] /\ ~Asleep(q)' /\ q \notin ProcessMap'[l]
        BY <2>0, <3>2 DEF IsResumed, Stays, Asleep
      <3>7. QED
        BY <3>3, <3>4, <3>5, <3>6
    <2>3. QED
      BY <2>1, <2>2
  <1>4. NoSleepOnEvent'
    <2> SUFFICES ASSUME NEW f \in Flags, NonEmpty'[f],
                        NEW p \in Processes, at'[p].call = "wait", at'[p].on = f, Asleep(p)'
                 PROVE  FALSE
      BY DEF NoSleepOnEvent, In
    <2>0. f \in Services /\ at'[p] # NoCall
      BY Names DEF NoCall
    <2>1. ~Joins(c, f)
      OBVIOUS
    <2>2. at'[p] = at[p] /\ Asleep(p) /\ p \in ProcessMap[f]
      BY <1>2, <2>0, <2>1
    <2>3. ~NonEmpty[f]
      BY <2>2 DEF LocksInv, NoSleepOnEvent, In
    <2>4. QED
      BY <2>2, <2>3 DEF Asleep
  <1>5. QED
    BY <1>1, <1>3, <1>4 DEF LocksInv

-----------------------------------------------------------------------------
(* The actions.                                                            *)

\* Steps of the kernel only.
LEMMA Quiet ==
    ASSUME LocksInv, Inv', UNCHANGED <<serviceVars, lockVars, clientVars>>, NEW c \in Processes,
           \A p \in Processes \ {c} : Follows(p), Follows(c) \/ (IsFree(c) /\ at[c] = NoCall)
    PROVE  LocksInv'
  <1>1. UNCHANGED <<ProcessMap, NonEmpty, ValueTag, NestCount, used, at, holds, handed>>
    BY DEF serviceVars, lockVars, clientVars
  <1>2. LocksTypeOK' /\ OwnInv'
    BY <1>1 DEF LocksInv, LocksTypeOK, OwnInv, MutualExclusion, Locked
  <1>3. \A s \in Services : ~Joins(c, s)
    BY DEF IsFree, FallsAsleep, Joins
  <1>4. \A l \in LockObjects :
            \/ ValueTag'[l] # {}
            \/ ValueTag[l] = {} /\ (Follows(c) \/ at[c] = NoCall) /\ ~Joins(c, l)
    BY <1>1, <1>3, Names
  <1>5. \A f \in Flags : NonEmpty'[f] = FALSE \/ (NonEmpty[f] /\ ~Joins(c, f))
    <2> SUFFICES ASSUME NEW f \in Flags PROVE NonEmpty'[f] = FALSE \/ (NonEmpty[f] /\ ~Joins(c, f))
      OBVIOUS
    <2>1. NonEmpty'[f] = NonEmpty[f] /\ ~Joins(c, f)
      BY <1>1, <1>3, Names
    <2>2. NonEmpty[f] \in BOOLEAN
      BY DEF LocksInv, LocksTypeOK
    <2>3. QED
      BY <2>1, <2>2
  <1>6. QED
    BY <1>2, <1>4, <1>5, Step

LEMMA Types ==
    LocksInv => /\ Inv /\ Timeout \in [Processes -> Nat] /\ prIDLE \in Processes
                /\ at \in [Processes -> Calls] /\ ProcessMap \in [Services -> SUBSET Processes]
                /\ \A p \in Processes : Waits(p)
  BY ConstantFacts DEF LocksInv, LocksTypeOK, WaitInv, Inv, KernelTypeOK

LEMMA KernelStepKeeps == LocksInv /\ KernelStep => LocksInv'
  <1> SUFFICES ASSUME LocksInv, KernelStep PROVE LocksInv'
    OBVIOUS
  <1>1. Inv' /\ UNCHANGED <<serviceVars, lockVars, clientVars>>
    BY Inductive, Types DEF KernelStep, KernelNext
  <1>2. UNCHANGED <<at, ProcessMap>>
    BY <1>1 DEF serviceVars, clientVars
  <1>3. \A p \in Processes : Follows(p)
    <2> SUFFICES ASSUME NEW p \in Processes PROVE Follows(p)
      OBVIOUS
    <2>1. CASE Run
      BY <1>2, <2>1 DEF Run, maps, sched, Follows, Unmoved, Stays, Bits
    <2>2. CASE PendSV_Handler
      BY <1>2, <2>2 DEF PendSV_Handler, maps, Follows, Unmoved, Stays, Bits
    <2>3. CASE SysTickEnter
      BY <1>2, <2>3 DEF SysTickEnter, maps, sched, Follows, Unmoved, Stays, Bits
    <2>4. CASE SysTickExit
      BY <1>2, <2>4 DEF SysTickExit, ISR_Exit, sched_isr, sched, maps, Follows, Unmoved, Stays, Bits
    <2>5. CASE system_timer
      <3>1. UNCHANGED switching
        BY <2>5 DEF system_timer, sched
      <3>2. /\ Timeout'[p] = IF p # prIDLE /\ Timeout[p] > 0 THEN Timeout[p] - 1 ELSE Timeout[p]
            /\ p \in ReadyProcessMap' <=> p \in ReadyProcessMap \/ (p # prIDLE /\ Timeout[p] > 0 /\ Timeout[p] = 1)
        BY <2>5 DEF system_timer
      <3>3. Timeout[p] \in Nat
        BY Types
      <3>4. CASE p # prIDLE /\ Timeout[p] = 1
        BY <1>2, <3>1, <3>2, <3>4 DEF Follows, IsTimedOut, Stays, Bits
      <3>5. CASE ~(p # prIDLE /\ Timeout[p] = 1)
        BY <1>2, <3>1, <3>2, <3>3, <3>5 DEF Follows, Unmoved, Stays, Bits
      <3>6. QED
        BY <3>4, <3>5
    <2>6. QED
      BY <2>1, <2>2, <2>3, <2>4, <2>5 DEF KernelStep, SysTick_Handler
  <1>4. QED
    BY <1>1, <1>3, Types, Quiet

LEMMA HandlerEdgesKeep == LocksInv /\ (HandlerEnters \/ HandlerExits \/ HandlerIgnores) => LocksInv'
  <1> SUFFICES ASSUME LocksInv, HandlerEnters \/ HandlerExits \/ HandlerIgnores PROVE LocksInv'
    OBVIOUS
  <1>1. UNCHANGED <<serviceVars, lockVars, clientVars>>
    BY DEF HandlerEnters, HandlerExits, HandlerIgnores
  <1>2. /\ Inv'
        /\ UNCHANGED <<ReadyProcessMap, Timeout, switching>>
    <2>1. CASE HandlerEnters
      BY <2>1, Inductive, Types DEF HandlerEnters, KernelNext, DeviceEnter, maps, sched
    <2>2. CASE HandlerExits
      BY <2>2, Inductive, Types DEF HandlerExits, KernelNext, DeviceExit, ISR_Exit, sched_isr, maps, sched
    <2>3. CASE HandlerIgnores
      BY <2>3, HandlerKeeps, Types DEF HandlerIgnores, maps, sched, Inv, KernelTypeOK
    <2>4. QED
      BY <2>1, <2>2, <2>3
  <1>3. \A p \in Processes : Follows(p)
    BY <1>1, <1>2 DEF serviceVars, clientVars, Follows, Unmoved, Stays, Bits
  <1>4. QED
    BY <1>1, <1>2, <1>3, Types, Quiet

LEMMA WakesUpKeeps == LocksInv /\ WakesUp => LocksInv'
  <1> SUFFICES ASSUME LocksInv, WakesUp PROVE LocksInv'
    OBVIOUS
  <1>1. PICK p \in Processes : wake_up(p)
    BY DEF WakesUp
  <1>2. UserRuns /\ UNCHANGED <<CurProcPriority, isr, serviceVars, lockVars, clientVars>>
    BY DEF WakesUp
  <1>3. Inv'
    <2>1. KernelNext
      BY <1>1, <1>2 DEF KernelNext, ProcessWakes
    <2>2. QED
      BY <2>1, Inductive, Types
  <1>4. \A q \in Processes : Follows(q)
    <2> SUFFICES ASSUME NEW q \in Processes PROVE Follows(q)
      OBVIOUS
    <2>1. UNCHANGED <<at, ProcessMap>>
      BY <1>2 DEF serviceVars, clientVars
    <2>2. CASE Timeout[p] > 0 /\ force_wake_up(p)
      <3>1. /\ Timeout'[q] = IF q = p THEN 0 ELSE Timeout[q]
            /\ ReadyProcessMap' = ReadyProcessMap \cup {p}
        BY <2>2, Types DEF force_wake_up
      <3>2. switching \subseteq switching'
        BY <2>2 DEF force_wake_up, scheduler, sched
      <3>3. CASE q = p
        BY <2>1, <2>2, <3>1, <3>2, <3>3 DEF Follows, IsTimedOut, Stays, Bits
      <3>4. CASE q # p
        BY <2>1, <3>1, <3>2, <3>4 DEF Follows, Unmoved, Stays, Bits
      <3>5. QED
        BY <3>3, <3>4
    <2>3. CASE UNCHANGED <<maps, sched>>
      BY <2>1, <2>3 DEF maps, sched, Follows, Unmoved, Stays, Bits
    <2>4. QED
      BY <1>1, <2>2, <2>3 DEF wake_up
  <1>5. QED
    BY <1>2, <1>3, <1>4, Types, Quiet

LEMMA SleepsKeeps == ASSUME NEW q \in Processes, LocksInv, Sleeps(q) PROVE LocksInv'
  <1> DEFINE c == CurProcPriority
  <1>1. PICK t \in LockTimeouts : sleep(t)
    BY DEF Sleeps
  <1>2. UserRuns /\ UNCHANGED <<CurProcPriority, isr, serviceVars, lockVars, clientVars>>
    BY DEF Sleeps
  <1>3. /\ InCall /\ c \in Processes /\ c # prIDLE /\ at[c] = NoCall
        /\ \A s \in Services : c \notin ProcessMap[s]
    BY <1>2, Caller
  <1>4. t \in Nat
    BY LocksAssumption
  <1>5. Inv'
    BY <1>1, <1>2, <1>3, <1>4, SleepKeeps, Types
  <1>6. UNCHANGED <<at, ProcessMap>>
    BY <1>2 DEF serviceVars, clientVars
  <1>7. /\ ReadyProcessMap' = ReadyProcessMap \ {c}
        /\ \A p \in Processes \ {c} : Timeout'[p] = Timeout[p]
    BY <1>1, Types DEF sleep
  <1>8. switching \subseteq switching'
    BY <1>1 DEF sleep, scheduler, sched
  <1>9. \A p \in Processes \ {c} : Follows(p)
    BY <1>6, <1>7, <1>8 DEF Follows, Unmoved, Stays, Bits
  <1>10. IsFree(c)
    BY <1>3, <1>6, <1>7 DEF IsFree
  <1>11. QED
    BY <1>2, <1>3, <1>5, <1>9, <1>10, Quiet

LEMMA CallReturnsKeeps == LocksInv /\ CallReturns => LocksInv'
  <1> SUFFICES ASSUME LocksInv, CallReturns PROVE LocksInv'
    OBVIOUS
  <1> DEFINE c == CurProcPriority
  <1>1. /\ Resumed /\ at[c].call = "none" /\ SchedReturns
        /\ UNCHANGED <<serviceVars, lockVars, clientVars>>
    BY DEF CallReturns
  <1>2. InCall /\ c \in Processes /\ ~Asleep(c)
    BY <1>1, Caller
  <1>3. at[c] = NoCall
    BY <1>1, <1>2, CallKinds, Types
  <1>4. Inv'
    BY <1>1, Inductive, Types DEF KernelNext
  <1>5. UNCHANGED <<at, ProcessMap>>
    BY <1>1 DEF serviceVars, clientVars
  <1>6. UNCHANGED <<ReadyProcessMap, Timeout>> /\ switching' = switching \ {c}
    BY <1>1 DEF SchedReturns, SwitchDone, maps
  <1>7. \A p \in Processes \ {c} : Follows(p)
    BY <1>5, <1>6 DEF Follows, Unmoved, Stays, Bits
  <1>8. IsFree(c)
    <2>1. Timeout[c] \in Nat /\ ~(Timeout[c] > 0) /\ \A s \in Services : c \notin ProcessMap[s]
      BY <1>1, <1>2, <1>3, Types DEF Waits
    <2>2. QED
      BY <1>3, <1>5, <1>6, <2>1 DEF IsFree
  <1>9. QED
    BY <1>1, <1>2, <1>3, <1>4, <1>7, <1>8, Quiet

\* The two ways in which lock() and try_lock() go on from their test.
LEMMA WaitsForLock ==
    ASSUME LocksInv, InCall, CurProcPriority # prIDLE, NEW l \in LockObjects, Locked(l),
           NEW name \in LockCalls, NEW t, Call(name, l, t) \in Calls, WaitsIn(name, l, t),
           \A s \in Services : CurProcPriority \notin ProcessMap[s],
           at[CurProcPriority] = NoCall \/ at[CurProcPriority].on = l,
           Timeout' \in [Processes -> Nat], name = "lock" => Timeout'[CurProcPriority] = 0,
           \A p \in Processes \ {CurProcPriority} : Timeout'[p] = Timeout[p],
           UNCHANGED <<CurProcPriority, isr, NonEmpty, lockVars, used, holds, handed>>
    PROVE  LocksInv'
  <1> DEFINE c == CurProcPriority
             call == Call(name, l, t)
  <1>1. c \in Processes /\ ~Asleep(c)
    BY Caller
  <1>2. suspend(l) /\ at' = [at EXCEPT ![c] = call]
    BY DEF WaitsIn
  <1>3. call # NoCall /\ call.on = l /\ call.call = name
    BY DEF Call, NoCall
  <1> HIDE DEF call
  <1>4. /\ Inv'
        /\ ReadyProcessMap' = ReadyProcessMap \ {c} /\ switching' = switching \cup {c}
        /\ ProcessMap' = [ProcessMap EXCEPT ![l] = @ \cup {c}]
    BY <1>2, SuspendKeeps, Types
  <1>5. /\ at' \in [Processes -> Calls] /\ at'[c] = call
        /\ \A p \in Processes \ {c} : at'[p] = at[p]
    BY <1>1, <1>2, Types DEF call
  <1>6. /\ ProcessMap' \in [Services -> SUBSET Processes]
        /\ \A s \in Services : ProcessMap'[s] = IF s = l THEN ProcessMap[s] \cup {c} ELSE ProcessMap[s]
    BY <1>1, <1>4, Types, Names
  <1>7. UNCHANGED <<NonEmpty, ValueTag, NestCount, used, holds, handed>>
    BY DEF lockVars
  <1>8. LocksTypeOK' /\ OwnInv'
    BY <1>5, <1>6, <1>7 DEF LocksInv, LocksTypeOK, OwnInv, MutualExclusion, Locked
  <1>9. \A p \in Processes \ {c} : Follows(p)
    BY <1>4, <1>5, <1>6 DEF Follows, Unmoved, Stays, Bits
  <1>10. FallsAsleep(c, l)
    BY <1>3, <1>4, <1>5, <1>6 DEF FallsAsleep
  <1>11. \A s \in Services \ {l} : ~Joins(c, s)
    BY <1>3, <1>5 DEF Joins, FallsAsleep
  <1>12. \A k \in LockObjects :
            \/ ValueTag'[k] # {}
            \/ ValueTag[k] = {} /\ (at[c] = NoCall \/ at[c].on # k) /\ ~Joins(c, k)
    BY <1>7, <1>11, Names DEF Locked
  <1>13. \A f \in Flags : NonEmpty'[f] = FALSE \/ (NonEmpty[f] /\ ~Joins(c, f))
    <2> SUFFICES ASSUME NEW f \in Flags PROVE NonEmpty'[f] = FALSE \/ (NonEmpty[f] /\ ~Joins(c, f))
      OBVIOUS
    <2>1. NonEmpty'[f] = NonEmpty[f] /\ ~Joins(c, f)
      BY <1>7, <1>11, Names
    <2>2. NonEmpty[f] \in BOOLEAN
      BY DEF LocksInv, LocksTypeOK
    <2>3. QED
      BY <2>1, <2>2
  <1>14. QED
    BY <1>1, <1>4, <1>8, <1>9, <1>10, <1>12, <1>13, Step, Names

LEMMA TakesLock ==
    ASSUME LocksInv, InCall, NEW l \in LockObjects, ~Locked(l), Own(l), Locks(l), Continue, Returns,
           \A s \in Services : CurProcPriority \notin ProcessMap[s],
           at[CurProcPriority] = NoCall \/ at[CurProcPriority].on = l,
           Timeout' \in [Processes -> Nat], Timeout'[CurProcPriority] = 0,
           \A p \in Processes \ {CurProcPriority} : Timeout'[p] = Timeout[p],
           UNCHANGED <<CurProcPriority, isr, ReadyProcessMap, ProcessMap, NonEmpty, used, handed>>
    PROVE  LocksInv'
  <1> DEFINE c == CurProcPriority
  <1>1. c \in Processes /\ ~Asleep(c)
    BY Caller
  <1>2. switching' = switching \ {c} /\ at' = [at EXCEPT ![c] = NoCall]
    BY DEF Continue, Returns
  <1>3. Inv'
    BY ContinueKeeps, Types DEF Inv, KernelTypeOK
  <1>4. /\ OwnInv'
        /\ ValueTag' \in [LockObjects -> SUBSET Processes] /\ NestCount' \in [RecursiveMutexes -> 0 .. MaxNest]
        /\ holds' \in [LockObjects -> [Processes -> 0 .. MaxNest]]
        /\ ValueTag'[l] # {} /\ \A k \in LockObjects \ {l} : ValueTag'[k] = ValueTag[k]
    BY <1>1, OwnKeeps DEF LocksInv
  <1>5. /\ at' \in [Processes -> Calls] /\ at'[c] = NoCall
        /\ \A p \in Processes \ {c} : at'[p] = at[p]
    <2>1. NoCall \in Calls
      BY DEF Calls
    <2>2. QED
      BY <1>1, <1>2, <2>1, Types
  <1>6. LocksTypeOK'
    BY <1>2, <1>4, <1>5 DEF LocksInv, LocksTypeOK
  <1>7. \A p \in Processes \ {c} : Follows(p)
    BY <1>2, <1>5 DEF Follows, Unmoved, Stays, Bits
  <1>8. IsFree(c)
    BY <1>5 DEF IsFree
  <1>9. \A s \in Services : ~Joins(c, s)
    BY <1>8 DEF IsFree, FallsAsleep, Joins
  <1>10. \A k \in LockObjects :
            \/ ValueTag'[k] # {}
            \/ ValueTag[k] = {} /\ (at[c] = NoCall \/ at[c].on # k) /\ ~Joins(c, k)
    BY <1>4, <1>9, Names
  <1>11. \A f \in Flags : NonEmpty'[f] = FALSE \/ (NonEmpty[f] /\ ~Joins(c, f))
    <2> SUFFICES ASSUME NEW f \in Flags PROVE NonEmpty'[f] = FALSE \/ (NonEmpty[f] /\ ~Joins(c, f))
      OBVIOUS
    <2>1. NonEmpty'[f] = NonEmpty[f] /\ ~Joins(c, f)
      BY <1>9, Names
    <2>2. NonEmpty[f] \in BOOLEAN
      BY DEF LocksInv, LocksTypeOK
    <2>3. QED
      BY <2>1, <2>2
  <1>12. QED
    BY <1>1, <1>3, <1>4, <1>6, <1>7, <1>8, <1>10, <1>11, Step

\* A process that goes on in a call it has waited in.
LEMMA Waiter ==
    ASSUME LocksInv, Resumed, NEW name \in {"lock", "try_lock", "wait"}, at[CurProcPriority].call = name
    PROVE  /\ InCall /\ CurProcPriority \in Processes /\ CurProcPriority # prIDLE
           /\ ~Asleep(CurProcPriority) /\ at[CurProcPriority] # NoCall
           /\ at[CurProcPriority] \in Calls /\ at[CurProcPriority].on \in Services
           /\ name \in LockCalls => at[CurProcPriority].on \in LockObjects
           /\ name = "wait" => at[CurProcPriority].on \in Flags
           /\ \A s \in Services : CurProcPriority \in ProcessMap[s] => s = at[CurProcPriority].on
           /\ CurProcPriority \in ProcessMap[at[CurProcPriority].on] => Timeout[CurProcPriority] = 0
           /\ name = "lock" => /\ Timeout[CurProcPriority] = 0
                               /\ CurProcPriority \notin ProcessMap[at[CurProcPriority].on]
  <1> DEFINE c == CurProcPriority
  <1>1. InCall /\ c \in Processes /\ ~Asleep(c)
    BY Caller
  <1>2. at[c] \in Calls /\ Waits(c) /\ Timeout[c] \in Nat
    BY <1>1, Types
  <1>3. at[c] # NoCall
    BY DEF NoCall
  <1>4. c # prIDLE
    BY <1>3 DEF LocksInv, WaitInv
  <1>5. /\ name \in LockCalls => at[c].on \in LockObjects
        /\ name = "wait" => at[c].on \in Flags
        /\ at[c].on \in Services
    BY <1>2, <1>3, CallKinds, Names DEF LockCalls
  <1>6. QED
    BY <1>1, <1>2, <1>3, <1>4, <1>5 DEF Waits

LEMMA CallsLockKeeps == LocksInv /\ CallsLock => LocksInv'
  <1> SUFFICES ASSUME LocksInv, CallsLock PROVE LocksInv'
    OBVIOUS
  <1> DEFINE c == CurProcPriority
  <1>1. PICK l \in LockObjects \cap used :
            /\ UserRuns /\ MayLock(l)
            /\ \/ Nests(l) /\ Nest(l) /\ Locks(l) /\ UNCHANGED <<maps, sched, ProcessMap, at>>
               \/ ~Nests(l) /\ LockTest(l)
            /\ UNCHANGED <<CurProcPriority, isr, NonEmpty, used, handed>>
    BY DEF CallsLock
  <1>2. /\ InCall /\ c \in Processes /\ c # prIDLE /\ at[c] = NoCall /\ Timeout[c] = 0
        /\ \A s \in Services : c \notin ProcessMap[s]
    BY <1>1, Caller
  <1>3. CASE Nests(l) /\ Nest(l) /\ Locks(l) /\ UNCHANGED <<maps, sched, ProcessMap, at>>
    <2>1. /\ OwnInv'
          /\ NestCount' \in [RecursiveMutexes -> 0 .. MaxNest]
          /\ holds' \in [LockObjects -> [Processes -> 0 .. MaxNest]]
          /\ UNCHANGED ValueTag
      BY <1>1, <1>2, <1>3, NestKeeps DEF LocksInv
    <2>2. Inv'
      <3>1. UNCHANGED kernelVars
        BY <1>1, <1>3 DEF kernelVars
      <3>2. QED
        BY <3>1, Inductive, Types
    <2>3. UNCHANGED <<ReadyProcessMap, Timeout, switching, ProcessMap, at, NonEmpty, used, handed>>
      BY <1>1, <1>3 DEF maps, sched
    <2>4. LocksTypeOK'
      BY <2>1, <2>3 DEF LocksInv, LocksTypeOK
    <2>5. WaitInv' /\ NoLostUnlock' /\ NoSleepOnEvent'
      BY <2>1, <2>3 DEF LocksInv, WaitInv, Waits, NoLostUnlock, NoSleepOnEvent, In, Asleep
    <2>6. QED
      BY <2>1, <2>2, <2>4, <2>5 DEF LocksInv
  <1>4. CASE LockTest(l) /\ Locked(l)
    <2>1. WaitsIn("lock", l, 0) /\ UNCHANGED <<Timeout, lockVars, holds>>
      BY <1>4 DEF LockTest
    <2>2. Call("lock", l, 0) \in Calls
      BY DEF Call, Calls
    <2>3. QED
      BY <1>1, <1>2, <1>4, <2>1, <2>2, WaitsForLock, Types DEF LockCalls
  <1>5. CASE LockTest(l) /\ ~Locked(l)
    <2>1. Own(l) /\ Locks(l) /\ Continue /\ Returns /\ UNCHANGED <<maps, ProcessMap>>
      BY <1>5 DEF LockTest
    <2>2. UNCHANGED <<ReadyProcessMap, Timeout>>
      BY <2>1 DEF maps
    <2>3. QED
      BY <1>1, <1>2, <1>5, <2>1, <2>2, TakesLock, Types
  <1>6. QED
    BY <1>1, <1>3, <1>4, <1>5

LEMMA LockResumedKeeps == LocksInv /\ LockResumed => LocksInv'
  <1> SUFFICES ASSUME LocksInv, LockResumed PROVE LocksInv'
    OBVIOUS
  <1> DEFINE c == CurProcPriority
             l == at[c].on
  <1>1. /\ Resumed /\ at[c].call = "lock" /\ LockTest(l)
        /\ UNCHANGED <<CurProcPriority, isr, NonEmpty, used, handed>>
    BY DEF LockResumed
  <1>2. /\ InCall /\ c \in Processes /\ c # prIDLE /\ l \in LockObjects /\ Timeout[c] = 0
        /\ \A s \in Services : c \notin ProcessMap[s]
    BY <1>1, Waiter DEF LockCalls
  <1> HIDE DEF l
  <1>3. CASE Locked(l)
    <2>1. WaitsIn("lock", l, 0) /\ UNCHANGED <<Timeout, lockVars, holds>>
      BY <1>1, <1>3 DEF LockTest
    <2>2. Call("lock", l, 0) \in Calls
      BY <1>2 DEF Call, Calls
    <2>3. at[c].on = l
      BY DEF l
    <2>4. QED
      BY <1>1, <1>2, <1>3, <2>1, <2>2, <2>3, WaitsForLock, Types DEF LockCalls
  <1>4. CASE ~Locked(l)
    <2>1. Own(l) /\ Locks(l) /\ Continue /\ Returns /\ UNCHANGED <<maps, ProcessMap>>
      BY <1>1, <1>4 DEF LockTest
    <2>2. UNCHANGED <<ReadyProcessMap, Timeout>>
      BY <2>1 DEF maps
    <2>3. at[c].on = l
      BY DEF l
    <2>4. QED
      BY <1>1, <1>2, <1>4, <2>1, <2>2, <2>3, TakesLock, Types
  <1>5. QED
    BY <1>3, <1>4

LEMMA CallsTryLockKeeps == LocksInv /\ CallsTryLock => LocksInv'
  <1> SUFFICES ASSUME LocksInv, CallsTryLock PROVE LocksInv'
    OBVIOUS
  <1> DEFINE c == CurProcPriority
  <1>1. PICK l \in LockObjects \cap used, t \in LockTimeouts :
            /\ UserRuns /\ TryTest(l, t, Timeout[c])
            /\ UNCHANGED <<CurProcPriority, isr, NonEmpty, used, handed>>
    BY DEF CallsTryLock
  <1>2. /\ InCall /\ c \in Processes /\ c # prIDLE /\ at[c] = NoCall /\ Timeout[c] = 0
        /\ \A s \in Services : c \notin ProcessMap[s]
    BY <1>1, Caller
  <1>3. t \in Nat
    BY LocksAssumption
  <1>4. CASE Locked(l)
    <2>1. /\ Timeout' = [Timeout EXCEPT ![c] = t]
          /\ WaitsIn("try_lock", l, t) /\ UNCHANGED <<lockVars, holds>>
      BY <1>1, <1>4 DEF TryTest
    <2>2. Call("try_lock", l, t) \in Calls
      BY DEF Call, Calls
    <2>3. Timeout' \in [Processes -> Nat] /\ \A p \in Processes \ {c} : Timeout'[p] = Timeout[p]
      BY <1>3, <2>1, Types
    <2>4. QED
      BY <1>1, <1>2, <1>4, <2>1, <2>2, <2>3, WaitsForLock DEF LockCalls
  <1>5. CASE ~Locked(l)
    <2>1. /\ Timeout' = [Timeout EXCEPT ![c] = Timeout[c]]
          /\ Own(l) /\ Locks(l) /\ Continue /\ Returns /\ UNCHANGED <<ReadyProcessMap, ProcessMap>>
      BY <1>1, <1>5 DEF TryTest
    <2>2. /\ Timeout' \in [Processes -> Nat] /\ Timeout'[c] = 0
          /\ \A p \in Processes \ {c} : Timeout'[p] = Timeout[p]
      BY <1>2, <2>1, Types
    <2>3. QED
      BY <1>1, <1>2, <1>5, <2>1, <2>2, TakesLock
  <1>6. QED
    BY <1>4, <1>5

\* A call ends without anything else; its process goes on.
LEMMA LeavesCall ==
    ASSUME LocksInv, Resumed, Continue, Returns, at[CurProcPriority].on \in Services,
           ProcessMap' \in [Services -> SUBSET Processes],
           \A s \in Services : ProcessMap'[s] = ProcessMap[s] \ {CurProcPriority},
           at[CurProcPriority].on \in LockObjects => CurProcPriority \in ProcessMap[at[CurProcPriority].on],
           Timeout' \in [Processes -> Nat], Timeout'[CurProcPriority] = 0,
           \A p \in Processes \ {CurProcPriority} : Timeout'[p] = Timeout[p],
           UNCHANGED <<CurProcPriority, isr, ReadyProcessMap, NonEmpty, lockVars, used, holds, handed>>
    PROVE  LocksInv'
  <1> DEFINE c == CurProcPriority
  <1>1. InCall /\ c \in Processes /\ ~Asleep(c)
    BY Caller
  <1>2. switching' = switching \ {c} /\ at' = [at EXCEPT ![c] = NoCall]
    BY DEF Continue, Returns
  <1>3. Inv'
    BY <1>1, ContinueKeeps, Types DEF Inv, KernelTypeOK
  <1>4. UNCHANGED <<ValueTag, NestCount>>
    BY DEF lockVars
  <1>5. /\ at' \in [Processes -> Calls] /\ at'[c] = NoCall
        /\ \A p \in Processes \ {c} : at'[p] = at[p]
    <2>1. NoCall \in Calls
      BY DEF Calls
    <2>2. QED
      BY <1>1, <1>2, <2>1, Types
  <1>6. LocksTypeOK' /\ OwnInv'
    BY <1>4, <1>5 DEF LocksInv, LocksTypeOK, OwnInv, MutualExclusion, Locked
  <1>7. \A p \in Processes \ {c} : Follows(p)
    BY <1>2, <1>5 DEF Follows, Unmoved, Stays, Bits
  <1>8. IsFree(c)
    BY <1>5 DEF IsFree
  <1>9. \A s \in Services : ~Joins(c, s)
    BY <1>8 DEF IsFree, FallsAsleep, Joins
  <1>10. \A k \in LockObjects :
            \/ ValueTag'[k] # {}
            \/ ValueTag[k] = {} /\ (at[c].on # k \/ c \in ProcessMap[k]) /\ ~Joins(c, k)
    BY <1>4, <1>9, Names
  <1>11. \A f \in Flags : NonEmpty'[f] = FALSE \/ (NonEmpty[f] /\ ~Joins(c, f))
    <2> SUFFICES ASSUME NEW f \in Flags PROVE NonEmpty'[f] = FALSE \/ (NonEmpty[f] /\ ~Joins(c, f))
      OBVIOUS
    <2>1. NonEmpty'[f] = NonEmpty[f] /\ ~Joins(c, f)
      BY <1>9, Names
    <2>2. NonEmpty[f] \in BOOLEAN
      BY DEF LocksInv, LocksTypeOK
    <2>3. QED
      BY <2>1, <2>2
  <1>12. QED
    BY <1>1, <1>3, <1>6, <1>7, <1>8, <1>10, <1>11, Step

LEMMA TryLockResumedKeeps == LocksInv /\ TryLockResumed => LocksInv'
  <1> SUFFICES ASSUME LocksInv, TryLockResumed PROVE LocksInv'
    OBVIOUS
  <1> DEFINE c == CurProcPriority
             l == at[c].on
             t == at[c].timeout
  <1>1. /\ Resumed /\ at[c].call = "try_lock"
        /\ \/ /\ is_timeouted(l)
              /\ ProcessMap' = [ProcessMap EXCEPT ![l] = @ \ {c}]
              /\ Continue /\ Returns
              /\ UNCHANGED <<maps, lockVars, holds>>
           \/ ~is_timeouted(l) /\ TryTest(l, t, 0)
        /\ UNCHANGED <<CurProcPriority, isr, NonEmpty, used, handed>>
    BY DEF TryLockResumed
  <1>2. /\ InCall /\ c \in Processes /\ c # prIDLE /\ l \in LockObjects /\ at[c].on = l
        /\ at[c] # NoCall /\ at[c] \in Calls
        /\ \A s \in Services : c \in ProcessMap[s] => s = l
        /\ c \in ProcessMap[l] => Timeout[c] = 0
    BY <1>1, Waiter DEF LockCalls
  <1>3. t \in LockTimeouts /\ t \in Nat
    BY <1>1, <1>2, CallKinds, LocksAssumption
  <1> HIDE DEF l, t
  <1>4. CASE /\ is_timeouted(l)
             /\ ProcessMap' = [ProcessMap EXCEPT ![l] = @ \ {c}]
             /\ Continue /\ Returns
             /\ UNCHANGED <<maps, lockVars, holds>>
    <2>1. c \in ProcessMap[l] /\ Timeout[c] = 0 /\ UNCHANGED <<ReadyProcessMap, Timeout>>
      BY <1>2, <1>4 DEF is_timeouted, maps
    <2>2. /\ ProcessMap' \in [Services -> SUBSET Processes]
          /\ \A s \in Services : ProcessMap'[s] = ProcessMap[s] \ {c}
      BY <1>2, <1>4, Types, Names
    <2>3. at[c].on \in Services
      BY <1>2, Names
    <2>4. QED
      BY <1>1, <1>2, <1>4, <2>1, <2>2, <2>3, LeavesCall, Types
  <1>5. CASE ~is_timeouted(l) /\ TryTest(l, t, 0) /\ Locked(l)
    <2>1. /\ Timeout' = [Timeout EXCEPT ![c] = t]
          /\ WaitsIn("try_lock", l, t) /\ UNCHANGED <<lockVars, holds>>
      BY <1>5 DEF TryTest
    <2>2. Call("try_lock", l, t) \in Calls
      BY <1>2, <1>3 DEF Call, Calls
    <2>3. Timeout' \in [Processes -> Nat] /\ \A p \in Processes \ {c} : Timeout'[p] = Timeout[p]
      BY <1>3, <2>1, Types
    <2>4. \A s \in Services : c \notin ProcessMap[s]
      BY <1>2, <1>5 DEF is_timeouted
    <2>5. QED
      BY <1>1, <1>2, <1>5, <2>1, <2>2, <2>3, <2>4, WaitsForLock DEF LockCalls
  <1>6. CASE ~is_timeouted(l) /\ TryTest(l, t, 0) /\ ~Locked(l)
    <2>1. /\ Timeout' = [Timeout EXCEPT ![c] = 0]
          /\ Own(l) /\ Locks(l) /\ Continue /\ Returns /\ UNCHANGED <<ReadyProcessMap, ProcessMap>>
      BY <1>6 DEF TryTest
    <2>2. /\ Timeout' \in [Processes -> Nat] /\ Timeout'[c] = 0
          /\ \A p \in Processes \ {c} : Timeout'[p] = Timeout[p]
      BY <1>2, <2>1, Types
    <2>3. \A s \in Services : c \notin ProcessMap[s]
      BY <1>2, <1>6 DEF is_timeouted
    <2>4. QED
      BY <1>1, <1>2, <1>6, <2>1, <2>2, <2>3, TakesLock
  <1>7. QED
    BY <1>1, <1>4, <1>5, <1>6

\* A service makes some of those ready that wait for it asleep.
LEMMA Woken ==
    ASSUME LocksInv, NEW s \in Services, NEW woken, woken \subseteq ProcessMap[s] \ ReadyProcessMap,
           ReadyProcessMap' = ReadyProcessMap \cup woken,
           ProcessMap' = [ProcessMap EXCEPT ![s] = @ \ woken], UNCHANGED <<Timeout, at>>
    PROVE  /\ ProcessMap' \in [Services -> SUBSET Processes]
           /\ \A r \in Services : ProcessMap'[r] \subseteq ProcessMap[r]
           /\ \A p \in Processes : (p \in switching => p \in switching') =>
                  Follows(p) /\ (p \in woken => IsResumed(p))
  <1>1. /\ ProcessMap' \in [Services -> SUBSET Processes]
        /\ \A r \in Services : ProcessMap'[r] = IF r = s THEN ProcessMap[s] \ woken ELSE ProcessMap[r]
    BY Types
  <1>2. ASSUME NEW p \in Processes, p \in switching => p \in switching'
        PROVE  Follows(p) /\ (p \in woken => IsResumed(p))
    <2>1. CASE p \in woken
      <3>1. \A r \in Services : p \in ProcessMap[r] => at[p] # NoCall /\ at[p].on = r
        BY Types DEF Waits
      <3>2. at[p] # NoCall /\ \A r \in Services : p \notin ProcessMap'[r]
        BY <1>1, <2>1, <3>1
      <3>3. IsResumed(p)
        BY <1>2, <2>1, <3>2 DEF IsResumed, Stays
      <3>4. QED
        BY <3>3 DEF Follows
    <2>2. CASE p \notin woken
      BY <1>1, <1>2, <2>2 DEF Follows, Unmoved, Stays, Bits
    <2>3. QED
      BY <2>1, <2>2
  <1>3. QED
    BY <1>1, <1>2

LEMMA CallsUnlockKeeps == LocksInv /\ CallsUnlock => LocksInv'
  <1> SUFFICES ASSUME LocksInv, CallsUnlock PROVE LocksInv'
    OBVIOUS
  <1> DEFINE c == CurProcPriority
  <1>1. PICK l \in (LockObjects \cap used) \ handed :
            /\ UserRuns /\ unlock(l)
            /\ holds' = [holds EXCEPT ![l][c] = IF @ > 0 THEN @ - 1 ELSE 0]
            /\ UNCHANGED <<CurProcPriority, isr, NonEmpty, used, at, handed>>
    BY DEF CallsUnlock
  <1>2. /\ InCall /\ c \in Processes /\ c # prIDLE /\ at[c] = NoCall /\ Timeout[c] = 0
        /\ \A s \in Services : c \notin ProcessMap[s]
    BY <1>1, Caller
  <1>3. /\ OwnInv'
        /\ ValueTag' \in [LockObjects -> SUBSET Processes] /\ NestCount' \in [RecursiveMutexes -> 0 .. MaxNest]
        /\ holds' \in [LockObjects -> [Processes -> 0 .. MaxNest]]
        /\ \/ UNCHANGED <<ValueTag, maps, sched, ProcessMap>>
           \/ /\ ValueTag'[l] = {} /\ \A k \in LockObjects \ {l} : ValueTag'[k] = ValueTag[k]
              /\ resume_next_ready(l) /\ UNCHANGED Timeout
    BY <1>1, <1>2, CallsUnlockKeepsOwn DEF LocksInv
  <1>4. CASE UNCHANGED <<ValueTag, maps, sched, ProcessMap>>
    <2>1. Inv'
      <3>1. UNCHANGED kernelVars
        BY <1>1, <1>4 DEF kernelVars
      <3>2. QED
        BY <3>1, Inductive, Types
    <2>2. UNCHANGED <<ReadyProcessMap, Timeout, switching, ProcessMap, at, NonEmpty, used, handed, ValueTag>>
      BY <1>1, <1>4 DEF maps, sched
    <2>3. LocksTypeOK'
      BY <1>3, <2>2 DEF LocksInv, LocksTypeOK
    <2>4. WaitInv' /\ NoLostUnlock' /\ NoSleepOnEvent'
      BY <2>2 DEF LocksInv, WaitInv, Waits, NoLostUnlock, NoSleepOnEvent, In, Asleep
    <2>5. QED
      BY <1>3, <2>1, <2>3, <2>4 DEF LocksInv
  <1>5. CASE /\ ValueTag'[l] = {} /\ \A k \in LockObjects \ {l} : ValueTag'[k] = ValueTag[k]
             /\ resume_next_ready(l) /\ UNCHANGED Timeout
    <2>0. l \in Services /\ ProcessMap[l] \subseteq Processes
      BY Names, Types
    <2>1. /\ Inv' /\ switching \ {c} \subseteq switching'
          /\ ReadyProcessMap' = ReadyProcessMap \cup Heir(l)
          /\ ProcessMap' = [ProcessMap EXCEPT ![l] = @ \ Heir(l)]
      BY <1>1, <1>2, <1>5, <2>0, ResumeNextKeeps, Types
    <2>2. /\ Heir(l) \subseteq ProcessMap[l] \ ReadyProcessMap
          /\ ProcessMap[l] \ ReadyProcessMap # {} => \E q : Heir(l) = {q}
      BY <2>0, HeirFacts
    <2>3. /\ ProcessMap' \in [Services -> SUBSET Processes]
          /\ \A r \in Services : ProcessMap'[r] \subseteq ProcessMap[r]
          /\ \A p \in Processes : (p \in switching => p \in switching') =>
                 Follows(p) /\ (p \in Heir(l) => IsResumed(p))
      BY <1>1, <1>5, <2>0, <2>1, <2>2, Woken
    <2>4. \A p \in Processes \ {c} : Follows(p)
      BY <2>1, <2>3
    <2>5. IsFree(c)
      BY <1>1, <1>2, <1>5, <2>3 DEF IsFree
    <2>6. \A s : ~Joins(c, s)
      BY <2>5 DEF IsFree, FallsAsleep, Joins
    <2>7. ProcessMap[l] \subseteq ReadyProcessMap \/ \E q \in ProcessMap[l] : IsResumed(q)
      <3>1. CASE ProcessMap[l] \ ReadyProcessMap # {}
        <4>1. PICK q : Heir(l) = {q}
          BY <2>2, <3>1
        <4>2. q \in ProcessMap[l] /\ q \in Processes /\ q # c
          BY <1>2, <2>0, <2>2, <4>1
        <4>3. QED
          BY <2>1, <2>3, <4>1, <4>2
      <3>2. QED
        BY <3>1
    <2>8. \A k \in LockObjects :
            \/ ValueTag'[k] # {}
            \/ ValueTag[k] = {} /\ at[c] = NoCall /\ ~Joins(c, k)
            \/ (ProcessMap[k] \subseteq ReadyProcessMap \/ \E q \in ProcessMap[k] : IsResumed(q)) /\ ~Joins(c, k)
      BY <1>2, <1>5, <2>6, <2>7
    <2>9. \A f \in Flags : NonEmpty'[f] = FALSE \/ (NonEmpty[f] /\ ~Joins(c, f))
      <3> SUFFICES ASSUME NEW f \in Flags PROVE NonEmpty'[f] = FALSE \/ NonEmpty[f]
        BY <2>6
      <3>1. NonEmpty'[f] = NonEmpty[f] /\ NonEmpty[f] \in BOOLEAN
        BY <1>1 DEF LocksInv, LocksTypeOK
      <3>2. QED
        BY <3>1
    <2>10. LocksTypeOK'
      BY <1>1, <1>3, <2>3 DEF LocksInv, LocksTypeOK
    <2>11. QED
      BY <1>2, <1>3, <2>1, <2>4, <2>5, <2>8, <2>9, <2>10, Step
  <1>6. QED
    BY <1>3, <1>4, <1>5

LEMMA HandsOverKeeps == LocksInv /\ HandsOver => LocksInv'
  <1> SUFFICES ASSUME LocksInv, HandsOver PROVE LocksInv'
    OBVIOUS
  <1> DEFINE c == CurProcPriority
  <1>1. PICK m \in Mutexes \ handed :
            /\ UserRuns /\ holds[m][c] > 0
            /\ handed' = handed \cup {m}
            /\ holds' = [holds EXCEPT ![m][c] = 0]
            /\ UNCHANGED <<kernelVars, serviceVars, lockVars, used, at>>
    BY DEF HandsOver
  <1>2. c \in Processes /\ m \in LockObjects
    BY <1>1, Caller, Names
  <1>3. ValueTag[m] = {c}
    BY <1>1, <1>2 DEF LocksInv, OwnInv, MutualExclusion
  <1>4. holds[m] \in [Processes -> 0 .. MaxNest] /\ MaxNest \in Nat
    BY <1>2, Names DEF LocksInv, LocksTypeOK
  <1>5. holds' = [holds EXCEPT ![m] = [holds[m] EXCEPT ![c] = 0]]
    BY <1>1
  <1>6. /\ \A k \in LockObjects, p \in Processes : holds'[k][p] = IF k = m /\ p = c THEN 0 ELSE holds[k][p]
        /\ holds' \in [LockObjects -> [Processes -> 0 .. MaxNest]]
    BY <1>2, <1>4, <1>5 DEF LocksInv, LocksTypeOK
  <1>7. \A p \in Processes : holds'[m][p] = 0
    <2> SUFFICES ASSUME NEW p \in Processes, p # c PROVE holds[m][p] = 0
      BY <1>2, <1>6
    <2>1. ~(holds[m][p] > 0) /\ holds[m][p] \in 0 .. MaxNest
      BY <1>2, <1>3, <1>4 DEF LocksInv, OwnInv, MutualExclusion
    <2>2. QED
      BY <1>4, <2>1
  <1>8. UNCHANGED <<ValueTag, NestCount, ProcessMap, NonEmpty, used, at, ReadyProcessMap, Timeout, switching>>
    BY <1>1 DEF lockVars, serviceVars, kernelVars, maps, sched
  <1>9. OwnInv'
    <2>1. MutualExclusion'
      BY <1>6, <1>8 DEF LocksInv, OwnInv, MutualExclusion
    <2>2. m \notin RecursiveMutexes
      BY Names
    <2>3. \A l \in RecursiveMutexes, p \in Processes : ValueTag'[l] = {p} => NestCount'[l] = holds'[l][p]
      BY <1>6, <1>8, <2>2, Names DEF LocksInv, OwnInv
    <2>4. \A n \in Mutexes, p \in Processes : holds'[n][p] <= 1
      BY <1>6, Names DEF LocksInv, OwnInv
    <2>5. \A n \in handed' : Locked(n)' /\ \A p \in Processes : holds'[n][p] = 0
      <3> SUFFICES ASSUME NEW n \in handed' PROVE ValueTag[n] # {} /\ \A p \in Processes : holds'[n][p] = 0
        BY <1>8 DEF Locked
      <3>1. CASE n = m
        BY <1>3, <1>7, <3>1
      <3>2. CASE n # m
        <4>1. n \in handed /\ n \in LockObjects
          BY <1>1, <3>2, Names DEF LocksInv, LocksTypeOK
        <4>2. QED
          BY <1>6, <3>2, <4>1 DEF LocksInv, OwnInv, Locked
      <3>3. QED
        BY <3>1, <3>2
    <2>6. QED
      BY <2>1, <2>3, <2>4, <2>5 DEF OwnInv
  <1>10. Inv'
    BY <1>1, Inductive, Types
  <1>11. LocksTypeOK'
    BY <1>1, <1>6, <1>8 DEF LocksInv, LocksTypeOK
  <1>12. WaitInv' /\ NoLostUnlock' /\ NoSleepOnEvent'
    BY <1>8 DEF LocksInv, WaitInv, Waits, NoLostUnlock, NoSleepOnEvent, In, Asleep
  <1>13. QED
    BY <1>9, <1>10, <1>11, <1>12 DEF LocksInv

LEMMA HandlerUnlocksKeeps == LocksInv /\ HandlerUnlocks => LocksInv'
  <1> SUFFICES ASSUME LocksInv, HandlerUnlocks PROVE LocksInv'
    OBVIOUS
  <1>1. PICK m \in handed :
            /\ device = "entered" /\ device' = "done"
            /\ unlock_isr(m) /\ handed' = handed \ {m}
            /\ UNCHANGED <<CurProcPriority, ISR_NestCount, tick, NonEmpty, used, at, holds>>
    BY DEF HandlerUnlocks
  <1>2. /\ m \in LockObjects /\ m \in Services /\ {m} \in SUBSET Mutexes /\ ProcessMap[m] \subseteq Processes
    BY Names, Types DEF LocksInv, LocksTypeOK
  <1>3. /\ Release(m) /\ UNCHANGED <<sched, Timeout>>
        /\ ReadyProcessMap' = ReadyProcessMap \cup Heir(m)
        /\ ProcessMap' = [ProcessMap EXCEPT ![m] = @ \ Heir(m)]
    BY <1>1 DEF unlock_isr, resume_next_ready_isr, WakeHeir
  <1>4. \A p \in Processes : holds[m][p] = 0
    BY DEF LocksInv, OwnInv
  <1>5. /\ OwnInv'
        /\ ValueTag' \in [LockObjects -> SUBSET Processes] /\ NestCount' \in [RecursiveMutexes -> 0 .. MaxNest]
        /\ ValueTag'[m] = {} /\ \A k \in LockObjects \ {m} : ValueTag'[k] = ValueTag[k]
    <2>1. m \notin handed' /\ LocksTypeOK /\ OwnInv
      BY <1>1 DEF LocksInv
    <2>2. /\ \A p \in Processes : holds'[m][p] = 0
          /\ \A k \in LockObjects \ {m}, p \in Processes : holds'[k][p] = holds[k][p]
      BY <1>1, <1>4
    <2>3. QED
      BY <1>1, <1>2, <1>3, <2>1, <2>2, ReleaseKeeps
  <1>6. /\ Heir(m) \subseteq ProcessMap[m] \ ReadyProcessMap
        /\ ProcessMap[m] \ ReadyProcessMap # {} => \E q : Heir(m) = {q}
    BY <1>2, HeirFacts
  <1>7. UNCHANGED switching
    BY <1>3 DEF sched
  <1>8. /\ ProcessMap' \in [Services -> SUBSET Processes]
        /\ \A p \in Processes : Follows(p) /\ (p \in Heir(m) => IsResumed(p))
    BY <1>1, <1>2, <1>3, <1>6, <1>7, Woken
  <1>9. Inv'
    <2>1. ReadyProcessMap \subseteq ReadyProcessMap' /\ ReadyProcessMap' \subseteq Processes
      BY <1>2, <1>3, <1>6, Types DEF Inv, KernelTypeOK
    <2>2. QED
      BY <1>1, <1>3, <2>1, HandlerKeeps, Types
  <1>10. ProcessMap[m] \subseteq ReadyProcessMap \/ \E q \in ProcessMap[m] : IsResumed(q)
    <2>1. CASE ProcessMap[m] \ ReadyProcessMap # {}
      <3>1. PICK q : Heir(m) = {q}
        BY <1>6, <2>1
      <3>2. q \in ProcessMap[m] /\ q \in Processes
        BY <1>2, <1>6, <3>1
      <3>3. QED
        BY <1>8, <3>1, <3>2
    <2>2. QED
      BY <2>1
  <1> DEFINE c == prIDLE
  <1>11. c \in Processes /\ Follows(c) /\ \A s : ~Joins(c, s)
    BY <1>8, Types DEF Joins
  <1> HIDE DEF c
  <1>12. \A k \in LockObjects :
            \/ ValueTag'[k] # {}
            \/ ValueTag[k] = {} /\ Follows(c) /\ ~Joins(c, k)
            \/ (ProcessMap[k] \subseteq ReadyProcessMap \/ \E q \in ProcessMap[k] : IsResumed(q)) /\ ~Joins(c, k)
    BY <1>5, <1>10, <1>11
  <1>13. \A f \in Flags : NonEmpty'[f] = FALSE \/ (NonEmpty[f] /\ ~Joins(c, f))
    <2> SUFFICES ASSUME NEW f \in Flags PROVE NonEmpty'[f] = FALSE \/ NonEmpty[f]
      BY <1>11
    <2>1. NonEmpty'[f] = NonEmpty[f] /\ NonEmpty[f] \in BOOLEAN
      BY <1>1 DEF LocksInv, LocksTypeOK
    <2>2. QED
      BY <2>1
  <1>14. LocksTypeOK'
    BY <1>1, <1>5, <1>8 DEF LocksInv, LocksTypeOK
  <1>15. QED
    BY <1>5, <1>8, <1>9, <1>11, <1>12, <1>13, <1>14, Step

-----------------------------------------------------------------------------
(* Event flags.                                                            *)

\* Whoever signals a flag: its waiters are resumed, or it is on and has none asleep.
LEMMA SignalKeeps ==
    ASSUME LocksInv, Inv', NEW f \in Flags, NEW c \in Processes,
           ReadyProcessMap' = ReadyProcessMap \cup ToWake(f),
           ProcessMap' = [ProcessMap EXCEPT ![f] = @ \cap ReadyProcessMap],
           NonEmpty' = [NonEmpty EXCEPT ![f] = @ \/ ToWake(f) = {}],
           switching \ {c} \subseteq switching', c \in switching => c \in switching' \/ at[c] = NoCall,
           at[c] = NoCall => ~Asleep(c),
           UNCHANGED <<Timeout, lockVars, clientVars>>
    PROVE  LocksInv'
  <1>1. UNCHANGED <<ValueTag, NestCount, used, at, holds, handed>>
    BY DEF lockVars, clientVars
  <1>2. f \in Services /\ ToWake(f) \subseteq ProcessMap[f] \ ReadyProcessMap
    BY Names DEF ToWake
  <1>3. ProcessMap' = [ProcessMap EXCEPT ![f] = @ \ ToWake(f)]
    <2>1. ProcessMap[f] \cap ReadyProcessMap = ProcessMap[f] \ ToWake(f)
      BY DEF ToWake
    <2>2. QED
      BY <2>1
  <1>4. /\ ProcessMap' \in [Services -> SUBSET Processes]
        /\ \A r \in Services : ProcessMap'[r] \subseteq ProcessMap[r]
        /\ \A p \in Processes : (p \in switching => p \in switching') => Follows(p)
    BY <1>1, <1>2, <1>3, Woken
  <1>5. \A p \in Processes \ {c} : Follows(p)
    BY <1>4
  <1>6. Follows(c) \/ (IsFree(c) /\ at[c] = NoCall)
    <2>1. CASE c \in switching => c \in switching'
      BY <1>4, <2>1
    <2>2. CASE ~(c \in switching => c \in switching')
      <3>1. at[c] = NoCall /\ ~Asleep(c) /\ Waits(c) /\ Timeout[c] \in Nat
        BY <2>2, Types
      <3>2. Timeout[c] = 0 /\ \A s \in Services : c \notin ProcessMap[s]
        BY <3>1 DEF Waits, NoCall
      <3>3. QED
        BY <1>1, <1>4, <3>1, <3>2 DEF IsFree
    <2>3. QED
      BY <2>1, <2>2
  <1>7. \A s : ~Joins(c, s)
    BY <1>6 DEF IsFree, FallsAsleep, Joins
  <1>8. \A l \in LockObjects :
            \/ ValueTag'[l] # {}
            \/ ValueTag[l] = {} /\ (Follows(c) \/ at[c] = NoCall) /\ ~Joins(c, l)
    BY <1>1, <1>6, <1>7
  <1>9. NonEmpty \in [Flags -> BOOLEAN]
    BY DEF LocksInv, LocksTypeOK
  <1>10. NonEmpty' \in [Flags -> BOOLEAN]
    BY <1>9
  <1>11. \A g \in Flags :
            \/ NonEmpty'[g] = FALSE
            \/ NonEmpty[g] /\ ~Joins(c, g)
            \/ ProcessMap[g] \subseteq ReadyProcessMap /\ ~Joins(c, g)
    <2> SUFFICES ASSUME NEW g \in Flags, NonEmpty'[g] # FALSE
                 PROVE  NonEmpty[g] \/ ProcessMap[g] \subseteq ReadyProcessMap
      BY <1>7
    <2>1. CASE g = f
      <3>1. NonEmpty'[f] = (NonEmpty[f] \/ ToWake(f) = {})
        BY <1>9
      <3>2. NonEmpty[f] \/ ToWake(f) = {}
        BY <2>1, <3>1
      <3>3. QED
        BY <2>1, <3>2 DEF ToWake
    <2>2. CASE g # f
      <3>1. NonEmpty'[g] = NonEmpty[g] /\ NonEmpty[g] \in BOOLEAN
        BY <1>9, <2>2
      <3>2. QED
        BY <3>1
    <2>3. QED
      BY <2>1, <2>2
  <1>12. LocksTypeOK' /\ OwnInv'
    BY <1>1, <1>4, <1>10 DEF LocksInv, LocksTypeOK, OwnInv, MutualExclusion, Locked
  <1>13. QED
    BY <1>5, <1>6, <1>8, <1>11, <1>12, Step

\* An event flag is turned off and nothing else happens.
LEMMA TurnsOff ==
    ASSUME LocksInv, NEW f \in Flags, NonEmpty' = [NonEmpty EXCEPT ![f] = FALSE],
           UNCHANGED <<kernelVars, ProcessMap, lockVars, clientVars>>
    PROVE  LocksInv'
  <1>1. UNCHANGED <<ReadyProcessMap, Timeout, switching, ProcessMap, ValueTag, NestCount, used, at, holds, handed>>
    BY DEF kernelVars, maps, sched, lockVars, clientVars
  <1>2. Inv'
    BY Inductive, Types
  <1>3. /\ NonEmpty' \in [Flags -> BOOLEAN]
        /\ \A g \in Flags : NonEmpty'[g] => NonEmpty[g]
    BY DEF LocksInv, LocksTypeOK
  <1>4. LocksTypeOK' /\ OwnInv'
    BY <1>1, <1>3 DEF LocksInv, LocksTypeOK, OwnInv, MutualExclusion, Locked
  <1>5. WaitInv' /\ NoLostUnlock'
    BY <1>1 DEF LocksInv, WaitInv, Waits, NoLostUnlock, In, Asleep
  <1>6. NoSleepOnEvent'
    <2> SUFFICES ASSUME NEW g \in Flags, NonEmpty'[g], NEW p \in Processes,
                        at'[p].call = "wait", at'[p].on = g
                 PROVE  ~Asleep(p)'
      BY DEF NoSleepOnEvent, In
    <2>1. NonEmpty[g] /\ at[p].call = "wait" /\ at[p].on = g
      BY <1>1, <1>3
    <2>2. ~Asleep(p)
      BY <2>1 DEF LocksInv, NoSleepOnEvent, In
    <2>3. QED
      BY <1>1, <2>2 DEF Asleep
  <1>7. QED
    BY <1>2, <1>4, <1>5, <1>6 DEF LocksInv

LEMMA CallsSignalKeeps == LocksInv /\ CallsSignal => LocksInv'
  <1> SUFFICES ASSUME LocksInv, CallsSignal PROVE LocksInv'
    OBVIOUS
  <1> DEFINE c == CurProcPriority
  <1>1. PICK f \in Flags \cap used :
            /\ UserRuns
            /\ signal(f) \/ clear(f)
            /\ UNCHANGED <<CurProcPriority, Timeout, isr, lockVars, clientVars>>
    BY DEF CallsSignal
  <1>2. InCall /\ c \in Processes /\ at[c] = NoCall /\ ~Asleep(c)
    <2>1. UserRuns
      BY <1>1
    <2>2. QED
      BY <2>1, Caller
  <1>3. CASE signal(f)
    <2>1. /\ resume_all(f)
          /\ NonEmpty' = [NonEmpty EXCEPT ![f] = @ \/ ToWake(f) = {}]
      BY <1>3 DEF signal, send
    <2>2. ReadyProcessMap' = ReadyProcessMap \cup ToWake(f)
      BY <2>1 DEF resume_all
    <2>3. f \in Services /\ ProcessMap[f] \subseteq Processes
      BY Types, Names
    <2>4. /\ Inv' /\ switching \ {c} \subseteq switching'
          /\ ProcessMap' = [ProcessMap EXCEPT ![f] = @ \cap ReadyProcessMap]
      BY <1>1, <1>2, <2>1, <2>3, ResumeAllKeeps, Types
    <2>5. QED
      BY <1>1, <1>2, <2>1, <2>2, <2>4, SignalKeeps
  <1>4. CASE clear(f)
    <2>1. /\ NonEmpty' = [NonEmpty EXCEPT ![f] = FALSE]
          /\ UNCHANGED <<maps, sched, ProcessMap>>
      BY <1>4 DEF clear, reset
    <2>2. UNCHANGED kernelVars
      BY <1>1, <2>1 DEF kernelVars
    <2>3. QED
      BY <1>1, <2>1, <2>2, TurnsOff
  <1>5. QED
    BY <1>1, <1>3, <1>4

LEMMA HandlerSignalsKeeps == LocksInv /\ HandlerSignals => LocksInv'
  <1> SUFFICES ASSUME LocksInv, HandlerSignals PROVE LocksInv'
    OBVIOUS
  <1>1. PICK f \in Flags \cap used :
            /\ device = "entered" /\ device' = "done" /\ signal_isr(f)
            /\ UNCHANGED <<CurProcPriority, Timeout, ISR_NestCount, tick, lockVars, clientVars>>
    BY DEF HandlerSignals
  <1>2. /\ ReadyProcessMap' = ReadyProcessMap \cup ToWake(f)
        /\ ProcessMap' = [ProcessMap EXCEPT ![f] = @ \cap ReadyProcessMap]
        /\ NonEmpty' = [NonEmpty EXCEPT ![f] = @ \/ ToWake(f) = {}]
        /\ UNCHANGED sched
    BY <1>1 DEF signal_isr, send_isr, resume_all_isr
  <1>3. Inv'
    <2>1. ReadyProcessMap \subseteq ReadyProcessMap' /\ ReadyProcessMap' \subseteq Processes
      BY <1>2, Types, Names DEF ToWake, Inv, KernelTypeOK
    <2>2. QED
      BY <1>1, <1>2, <2>1, HandlerKeeps, Types
  <1>4. prIDLE \in Processes /\ ~Asleep(prIDLE) /\ UNCHANGED switching
    BY <1>2, Types DEF sched, Asleep, Inv, KernelInv
  <1>5. QED
    BY <1>1, <1>2, <1>3, <1>4, SignalKeeps

LEMMA CallsWaitKeeps == LocksInv /\ CallsWait => LocksInv'
  <1> SUFFICES ASSUME LocksInv, CallsWait PROVE LocksInv'
    OBVIOUS
  <1> DEFINE c == CurProcPriority
  <1>1. PICK f \in Flags \cap used, t \in LockTimeouts \cup {0} :
            /\ UserRuns
            /\ \/ EventOn(f) /\ UNCHANGED at
               \/ EventSuspends(f, t) /\ at' = [at EXCEPT ![c] = Call("wait", f, t)]
            /\ UNCHANGED <<CurProcPriority, isr, lockVars, used, holds, handed>>
    BY DEF CallsWait
  <1>2. /\ InCall /\ c \in Processes /\ c # prIDLE /\ at[c] = NoCall /\ Timeout[c] = 0
        /\ \A s \in Services : c \notin ProcessMap[s]
    BY <1>1, Caller
  <1>3. CASE EventOn(f) /\ UNCHANGED at
    <2>1. NonEmpty' = [NonEmpty EXCEPT ![f] = FALSE] /\ UNCHANGED <<maps, sched, ProcessMap>>
      BY <1>3 DEF EventOn, WaitNonEmpty
    <2>2. UNCHANGED <<kernelVars, clientVars>>
      BY <1>1, <1>3, <2>1 DEF kernelVars, clientVars
    <2>3. QED
      BY <1>1, <2>1, <2>2, TurnsOff
  <1>4. CASE EventSuspends(f, t) /\ at' = [at EXCEPT ![c] = Call("wait", f, t)]
    <2> DEFINE call == Call("wait", f, t)
    <2>1. /\ ~NonEmpty[f] /\ Timeout' = [Timeout EXCEPT ![c] = t]
          /\ suspend(f) /\ UNCHANGED NonEmpty
      BY <1>4 DEF EventSuspends, WaitSuspends
    <2>2. call # NoCall /\ call.on = f /\ call.call = "wait" /\ call \in Calls
      BY DEF Call, NoCall, Calls
    <2> HIDE DEF call
    <2>a. t \in Nat
      BY LocksAssumption
    <2>3. /\ Timeout' \in [Processes -> Nat]
          /\ \A p \in Processes \ {c} : Timeout'[p] = Timeout[p]
      BY <2>1, <2>a, Types
    <2>4. /\ Inv'
          /\ ReadyProcessMap' = ReadyProcessMap \ {c} /\ switching' = switching \cup {c}
          /\ ProcessMap' = [ProcessMap EXCEPT ![f] = @ \cup {c}]
      BY <1>1, <1>2, <2>1, <2>3, SuspendKeeps, Types
    <2>5. /\ at' \in [Processes -> Calls] /\ at'[c] = call
          /\ \A p \in Processes \ {c} : at'[p] = at[p]
      BY <1>2, <1>4, <2>2, Types DEF call
    <2>6. /\ ProcessMap' \in [Services -> SUBSET Processes]
          /\ \A s \in Services : ProcessMap'[s] = IF s = f THEN ProcessMap[s] \cup {c} ELSE ProcessMap[s]
      BY <1>2, <2>4, Types, Names
    <2>7. UNCHANGED <<NonEmpty, ValueTag, NestCount, used, holds, handed>>
      BY <1>1, <2>1 DEF lockVars
    <2>8. LocksTypeOK' /\ OwnInv'
      BY <2>5, <2>6, <2>7 DEF LocksInv, LocksTypeOK, OwnInv, MutualExclusion, Locked
    <2>9. \A p \in Processes \ {c} : Follows(p)
      BY <2>3, <2>4, <2>5, <2>6 DEF Follows, Unmoved, Stays, Bits
    <2>10. FallsAsleep(c, f) /\ f \in Services
      <3>1. \A r \in Services : c \in ProcessMap'[r] <=> r = f
        BY <1>2, <2>6
      <3>2. at'[c].call # "lock" /\ at'[c] # NoCall /\ at'[c].on = f
        BY <2>2, <2>5
      <3>3. c \notin ReadyProcessMap' /\ c \in switching'
        BY <2>4
      <3>4. QED
        BY <3>1, <3>2, <3>3, Names DEF FallsAsleep
    <2>11. \A s \in Services \ {f} : ~Joins(c, s)
      BY <2>2, <2>5 DEF Joins, FallsAsleep
    <2>12. \A k \in LockObjects : ValueTag'[k] # {} \/ (ValueTag[k] = {} /\ at[c] = NoCall /\ ~Joins(c, k))
      BY <1>2, <2>7, <2>11, Names
    <2>13. \A g \in Flags : NonEmpty'[g] = FALSE \/ (NonEmpty[g] /\ ~Joins(c, g))
      <3> SUFFICES ASSUME NEW g \in Flags PROVE NonEmpty'[g] = FALSE \/ (NonEmpty[g] /\ ~Joins(c, g))
        OBVIOUS
      <3>1. NonEmpty'[g] = NonEmpty[g] /\ NonEmpty[g] \in BOOLEAN
        BY <2>7 DEF LocksInv, LocksTypeOK
      <3>2. g # f => ~Joins(c, g)
        BY <2>11, Names
      <3>3. g = f => NonEmpty[g] = FALSE
        BY <2>1, <3>1
      <3>4. QED
        BY <3>1, <3>2, <3>3
    <2>14. QED
      BY <1>2, <2>4, <2>8, <2>9, <2>10, <2>12, <2>13, Step
  <1>5. QED
    BY <1>1, <1>3, <1>4

LEMMA WaitResumedKeeps == LocksInv /\ WaitResumed => LocksInv'
  <1> SUFFICES ASSUME LocksInv, WaitResumed PROVE LocksInv'
    OBVIOUS
  <1> DEFINE c == CurProcPriority
             f == at[c].on
  <1>1. PICK returned \in BOOLEAN :
            /\ Resumed /\ at[c].call = "wait" /\ WaitReturns(f, returned)
            /\ Returns /\ UNCHANGED <<isr, lockVars, used, holds, handed>>
    BY DEF WaitResumed, EventReturns
  <1>2. /\ InCall /\ c \in Processes /\ f \in Flags /\ f \in Services /\ at[c].on = f
        /\ \A s \in Services : c \in ProcessMap[s] => s = f
        /\ c \in ProcessMap[f] => Timeout[c] = 0
    BY <1>1, Waiter
  <1> HIDE DEF f
  <1>3. /\ Continue
        /\ UNCHANGED <<CurProcPriority, ReadyProcessMap, NonEmpty>>
    BY <1>1 DEF WaitReturns, SwitchDone, Continue
  <1>4. /\ ProcessMap' \in [Services -> SUBSET Processes]
        /\ \A s \in Services : ProcessMap'[s] = ProcessMap[s] \ {c}
        /\ Timeout' \in [Processes -> Nat] /\ Timeout'[c] = 0
        /\ \A p \in Processes \ {c} : Timeout'[p] = Timeout[p]
    <2>1. CASE is_timeouted(f)
      <3>1. ProcessMap' = [ProcessMap EXCEPT ![f] = @ \ {c}] /\ UNCHANGED Timeout
        BY <1>1, <2>1 DEF WaitReturns
      <3>2. c \in ProcessMap[f]
        BY <2>1 DEF is_timeouted
      <3>3. QED
        BY <1>2, <3>1, <3>2, Types
    <2>2. CASE ~is_timeouted(f)
      <3>1. Timeout' = [Timeout EXCEPT ![c] = 0] /\ UNCHANGED ProcessMap
        BY <1>1, <2>2 DEF WaitReturns
      <3>2. \A s \in Services : c \notin ProcessMap[s]
        BY <1>2, <2>2 DEF is_timeouted
      <3>3. QED
        BY <1>2, <3>1, <3>2, Types
    <2>3. QED
      BY <2>1, <2>2
  <1>5. f \notin LockObjects
    BY <1>2, Names
  <1>6. QED
    BY <1>1, <1>2, <1>3, <1>4, <1>5, LeavesCall

-----------------------------------------------------------------------------
LEMMA LocksInitially == Init => LocksInv
  <1> SUFFICES ASSUME Init PROVE LocksInv
    OBVIOUS
  <1>1. Inv
    BY Initially DEF Init
  <1>2. LocksTypeOK
    <2>1. NoCall \in Calls /\ 0 \in 0 .. MaxNest
      BY Names DEF Calls
    <2>2. QED
      BY <2>1 DEF Init, LocksTypeOK
  <1>3. OwnInv
    <2>1. \A l \in LockObjects, p \in Processes : holds[l][p] = 0 /\ ValueTag[l] = {}
      BY DEF Init
    <2>2. handed = {}
      BY DEF Init
    <2>3. QED
      BY <2>1, <2>2, Names DEF OwnInv, MutualExclusion
  <1>4. Timeout = [p \in Processes |-> 0] /\ prIDLE \in Processes
    BY ConstantFacts DEF Init, KernelInit
  <1>5. WaitInv
    BY <1>4 DEF Init, WaitInv, Waits, NoCall
  <1>6. NoLostUnlock /\ NoSleepOnEvent
    BY DEF Init, NoLostUnlock, NoSleepOnEvent, In, NoCall
  <1>7. QED
    BY <1>1, <1>2, <1>3, <1>5, <1>6 DEF LocksInv

LEMMA LocksInvariance == Spec => []LocksInv
  <1>1. LocksInv /\ UNCHANGED vars => LocksInv'
    <2> SUFFICES ASSUME LocksInv, UNCHANGED vars PROVE LocksInv'
      OBVIOUS
    <2>1. UNCHANGED <<serviceVars, lockVars, clientVars>> /\ Inv'
      BY Inductive, Types DEF vars
    <2>2. \A p \in Processes : Follows(p)
      BY DEF vars, kernelVars, maps, sched, serviceVars, clientVars, Follows, Unmoved, Stays, Bits
    <2>3. QED
      BY <2>1, <2>2, Types, Quiet
  <1>2. LocksInv /\ [Next]_vars => LocksInv'
    BY <1>1, KernelStepKeeps, CallsLockKeeps, CallsTryLockKeeps, LockResumedKeeps, TryLockResumedKeeps,
       CallsUnlockKeeps, HandsOverKeeps, CallsWaitKeeps, WaitResumedKeeps, CallsSignalKeeps, SleepsKeeps,
       WakesUpKeeps, CallReturnsKeeps, HandlerEdgesKeep, HandlerUnlocksKeeps, HandlerSignalsKeeps DEF Next
  <1>3. QED
    BY LocksInitially, <1>2, PTL DEF Spec

(* The types; in particular no nested unlock makes NestCount underflow. *)
THEOREM LocksTypeCorrect == Spec => []LocksTypeOK
  <1>1. LocksInv => LocksTypeOK
    BY DEF LocksInv
  <1>2. QED
    BY <1>1, LocksInvariance, PTL

(* With any number of processes and mutexes, and whatever the clients, the
   timer and the device do in between: one process inside a mutex at most, its
   owner, as many times as a recursive mutex has counted. *)
THEOREM Exclusive == Spec => []MutualExclusion
  <1>1. LocksInv => MutualExclusion
    BY DEF LocksInv, OwnInv
  <1>2. QED
    BY <1>1, LocksInvariance, PTL

(* An unlock is never lost, though it wakes a single process and that one may
   be overtaken, or have its timeout expire, before it runs. *)
THEOREM UnlockNotLost == Spec => []NoLostUnlock
  <1>1. LocksInv => NoLostUnlock
    BY DEF LocksInv
  <1>2. QED
    BY <1>1, LocksInvariance, PTL

(* No process sleeps on an event flag that is on. *)
THEOREM EventNotMissed == Spec => []NoSleepOnEvent
  <1>1. LocksInv => NoSleepOnEvent
    BY DEF LocksInv
  <1>2. QED
    BY <1>1, LocksInvariance, PTL
=============================================================================
