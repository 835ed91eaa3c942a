----------------------------- MODULE Channel_proofs -----------------------------
(***************************************************************************)
(* For every number of processes, size of a channel, kind of its items and *)
(* mixture of its operations: the channel is a bounded queue, and nobody   *)
(* sleeps in a call that could be served.                                  *)
(***************************************************************************)
EXTENDS Channel, Services_proofs, RingBuffer_proofs

PutCalls == {"push", "push_front", "write"}
TakeCalls == {"pop", "pop_back", "read"}

\* How a process waits: in sched(), with its bit in the map of its side of the
\* channel until it is resumed, and as a producer never with a timeout.
Waits(p) ==
    /\ at[p] # NoCall => p \in switching
    /\ p \in ProcessMap["Producers"] => at[p].call \in PutCalls /\ Asleep(p)
    /\ p \in ProcessMap["Consumers"] => at[p].call \in TakeCalls
    /\ at[p].call \in PutCalls => Timeout[p] = 0 /\ (Asleep(p) => p \in ProcessMap["Producers"])
    /\ at[p].call \in TakeCalls => (Asleep(p) => p \in ProcessMap["Consumers"])
    /\ Timeout[p] > 0 /\ ~Asleep(p) => at[p].call \in TakeCalls /\ p \notin ProcessMap["Consumers"]

WaitInv == at[prIDLE] = NoCall /\ \A p \in Processes : Waits(p)

\* NoIdleWaiter, of the members of the buffer.
Lacks(p) ==
    /\ at[p].call \in PutCalls => pool.Count + Len(at[p].data) > Size
    /\ at[p].call \in TakeCalls => pool.Count < at[p].count

LackInv == \A p \in Processes : Asleep(p) => Lacks(p)

ChannelInv == Inv /\ ChannelTypeOK /\ Consistent(pool) /\ WaitInv /\ LackInv

-----------------------------------------------------------------------------
LEMMA Sides == Services = {"Producers", "Consumers"} /\ "Producers" # "Consumers"
  BY ChannelAssumption

LEMMA Single ==
    ASSUME NEW d \in [{1} -> Items]
    PROVE  d[1] \in Items /\ d = <<d[1]>> /\ d \in Seq(Items) /\ Len(d) = 1
  <1>1. d[1] \in Items /\ d \in [1 .. 1 -> Items]
    OBVIOUS
  <1>2. d \in Seq(Items) /\ Len(d) = 1
    BY <1>1
  <1>3. QED
    BY <1>1, <1>2, SeqEqual

LEMMA PutKinds ==
    ASSUME NEW c \in Puts
    PROVE  /\ c # NoCall /\ c.call \in PutCalls /\ c.call \notin TakeCalls
           /\ c.data \in Seq(Items) /\ Len(c.data) \in 1 .. Size
           /\ c.call \in {"push", "push_front"} => c.data[1] \in Items /\ c.data = <<c.data[1]>>
  <1>1. CASE c \in [call : {"push", "push_front"} \cap used, data : [{1} -> Items]]
    <2>1. c.call \in {"push", "push_front"} /\ c.data \in [{1} -> Items]
      BY <1>1
    <2>2. /\ c.data[1] \in Items /\ c.data = <<c.data[1]>>
          /\ c.data \in Seq(Items) /\ Len(c.data) = 1
      BY <2>1, Single
    <2>3. c # NoCall
      BY <2>1 DEF NoCall
    <2>4. QED
      BY <2>1, <2>2, <2>3, RingAssumption DEF PutCalls, TakeCalls
  <1>2. CASE \E n \in Batches : c \in [call : {"write"} \cap used, data : [1 .. n -> Items]]
    <2>1. PICK n \in Batches : c \in [call : {"write"} \cap used, data : [1 .. n -> Items]]
      BY <1>2
    <2>2. n \in 1 .. Size /\ c.call = "write" /\ c.data \in [1 .. n -> Items]
      BY <2>1, ChannelAssumption
    <2>3. QED
      BY <2>2, RingAssumption DEF NoCall, PutCalls, TakeCalls
  <1>3. QED
    BY <1>1, <1>2 DEF Puts

LEMMA TakeKinds ==
    ASSUME NEW c \in Takes
    PROVE  /\ c # NoCall /\ c.call \in TakeCalls /\ c.call \notin PutCalls
           /\ c.count \in 1 .. Size /\ c.timeout \in Nat
           /\ c.call \in {"pop", "pop_back"} => c.count = 1
  <1>1. \/ c.call \in {"pop", "pop_back"} /\ c.count = 1 /\ c.timeout \in ChannelTimeouts
        \/ c.call = "read" /\ c.count \in Batches /\ c.timeout \in ChannelTimeouts
    BY DEF Takes
  <1>2. c # NoCall
    BY <1>1 DEF NoCall
  <1>3. c.count \in 1 .. Size /\ c.timeout \in Nat
    <2>1. 1 \in 1 .. Size /\ Batches \subseteq 1 .. Size /\ ChannelTimeouts \subseteq Nat
      BY ChannelAssumption, RingAssumption
    <2>2. QED
      BY <1>1, <2>1
  <1>4. QED
    BY <1>1, <1>2, <1>3 DEF PutCalls, TakeCalls

LEMMA CallKinds ==
    ASSUME NEW c \in {NoCall} \cup Puts \cup Takes
    PROVE  /\ c = NoCall => c.call \notin PutCalls /\ c.call \notin TakeCalls
           /\ c # NoCall => c \in Puts \/ c \in Takes
           /\ c.call \in PutCalls <=> c \in Puts
           /\ c.call \in TakeCalls <=> c \in Takes
           /\ c \in Puts => c \notin Takes
  <1>1. c = NoCall => c.call \notin PutCalls /\ c.call \notin TakeCalls
    BY DEF NoCall, PutCalls, TakeCalls
  <1>2. QED
    BY <1>1, PutKinds, TakeKinds

LEMMA Types ==
    ChannelInv => /\ Inv /\ Timeout \in [Processes -> Nat] /\ prIDLE \in Processes
                  /\ at \in [Processes -> {NoCall} \cup Puts \cup Takes]
                  /\ ProcessMap \in [Services -> SUBSET Processes]
                  /\ ProcessMap["Producers"] \subseteq Processes /\ ProcessMap["Consumers"] \subseteq Processes
                  /\ pool.Count \in Nat /\ Size \in Nat /\ pool.Count <= Size
                  /\ \A p \in Processes : Waits(p)
  BY ConstantFacts, Sides, Members, RingAssumption DEF ChannelInv, ChannelTypeOK, WaitInv, Inv, KernelTypeOK

-----------------------------------------------------------------------------
(* What a step can do to a process, and that it keeps what Waits says.     *)

Bits(p) == /\ p \in ProcessMap'["Producers"] <=> p \in ProcessMap["Producers"]
           /\ p \in ProcessMap'["Consumers"] <=> p \in ProcessMap["Consumers"]
NoBits(p) == p \notin ProcessMap'["Producers"] /\ p \notin ProcessMap'["Consumers"]
Stays(p) == at'[p] = at[p] /\ (p \in switching => p \in switching')

\* Nothing, or one tick of its timeout.
Unmoved(p) ==
    /\ Stays(p) /\ Bits(p)
    /\ p \in ReadyProcessMap' <=> p \in ReadyProcessMap
    /\ Timeout'[p] = Timeout[p] \/ (Timeout[p] > 0 /\ Timeout'[p] > 0)

\* The channel makes it ready.
IsResumed(p) ==
    /\ Stays(p) /\ at[p] # NoCall
    /\ p \notin ReadyProcessMap /\ p \in ReadyProcessMap'
    /\ UNCHANGED Timeout[p]
    /\ NoBits(p)

\* Its timeout expires, or wake_up() ends it.
IsTimedOut(p) ==
    /\ Stays(p) /\ Bits(p)
    /\ Timeout[p] > 0 /\ Timeout'[p] = 0 /\ p \in ReadyProcessMap'

Follows(p) == Unmoved(p) \/ IsResumed(p) \/ IsTimedOut(p)

\* It is in no call any more, or asleep in sleep().
IsFree(p) == at'[p] = NoCall /\ (Timeout'[p] = 0 \/ p \notin ReadyProcessMap') /\ NoBits(p)

FallsAsleep(p) ==
    /\ at'[p] # NoCall
    /\ p \notin ReadyProcessMap' /\ p \in switching'
    /\ at'[p].call \in PutCalls => /\ p \in ProcessMap'["Producers"] /\ p \notin ProcessMap'["Consumers"]
                                   /\ Timeout'[p] = 0
                                   /\ pool'.Count + Len(at'[p].data) > Size
    /\ at'[p].call \in TakeCalls => /\ p \in ProcessMap'["Consumers"] /\ p \notin ProcessMap'["Producers"]
                                    /\ pool'.Count < at'[p].count

LEMMA WaitsKeeps ==
    ASSUME NEW p \in Processes, Waits(p),
           at[p] \in {NoCall} \cup Puts \cup Takes, at'[p] \in ({NoCall} \cup Puts \cup Takes)',
           UNCHANGED used, Follows(p) \/ IsFree(p) \/ FallsAsleep(p)
    PROVE  Waits(p)'
  <1>0. /\ at[p] # NoCall <=> (at[p].call \in PutCalls \/ at[p].call \in TakeCalls)
        /\ at'[p] # NoCall <=> (at'[p].call \in PutCalls \/ at'[p].call \in TakeCalls)
        /\ ~(at[p].call \in PutCalls /\ at[p].call \in TakeCalls)
        /\ ~(at'[p].call \in PutCalls /\ at'[p].call \in TakeCalls)
    <2>1. at'[p] \in {NoCall} \cup Puts \cup Takes
      BY DEF Puts, Takes, NoCall
    <2>2. QED
      BY <2>1, CallKinds
  <1>1. CASE Unmoved(p)
    BY <1>0, <1>1 DEF Unmoved, Stays, Bits, Waits, Asleep
  <1>2. CASE IsResumed(p)
    BY <1>0, <1>2 DEF IsResumed, Stays, NoBits, Waits, Asleep
  <1>3. CASE IsTimedOut(p)
    BY <1>0, <1>3 DEF IsTimedOut, Stays, Bits, Waits, Asleep
  <1>4. CASE IsFree(p)
    BY <1>0, <1>4 DEF IsFree, NoBits, Waits, Asleep
  <1>5. CASE FallsAsleep(p)
    BY <1>0, <1>5 DEF FallsAsleep, Waits, Asleep
  <1>6. QED
    BY <1>1, <1>2, <1>3, <1>4, <1>5 DEF Follows

\* A step of the process c that the others follow: what makes a call of the one
\* side possible wakes all who wait there.
LEMMA Step ==
    ASSUME ChannelInv, Inv', ChannelTypeOK', Consistent(pool)', UNCHANGED used, NEW c \in Processes,
           \A p \in Processes \ {c} : Follows(p),
           Follows(c) \/ IsFree(c) \/ FallsAsleep(c),
           pool'.Count >= pool.Count \/ ProcessMap["Producers"] \subseteq ReadyProcessMap',
           pool'.Count <= pool.Count \/ ProcessMap["Consumers"] \subseteq ReadyProcessMap'
    PROVE  ChannelInv'
  <1>1. \A p \in Processes : /\ at[p] \in {NoCall} \cup Puts \cup Takes /\ Waits(p)
                             /\ at'[p] \in ({NoCall} \cup Puts \cup Takes)'
                             /\ at'[p] \in {NoCall} \cup Puts \cup Takes
    <2>1. ({NoCall} \cup Puts \cup Takes)' = {NoCall} \cup Puts \cup Takes
      BY DEF Puts, Takes, NoCall
    <2>2. at' \in [Processes -> ({NoCall} \cup Puts \cup Takes)']
      BY DEF ChannelTypeOK
    <2>3. QED
      BY <2>1, <2>2, Types
  <1>2. \A p \in Processes : Follows(p) \/ IsFree(p) \/ FallsAsleep(p)
    BY Zenon
  <1>3. WaitInv'
    <2>1. \A p \in Processes : Waits(p)'
      BY <1>1, <1>2, WaitsKeeps
    <2>2. prIDLE \in Processes /\ prIDLE \in ReadyProcessMap'
      BY ConstantFacts DEF Inv, KernelInv
    <2>3. at'[prIDLE] = NoCall
      BY <1>2, <2>2 DEF Follows, Unmoved, IsResumed, IsTimedOut, Stays, IsFree, FallsAsleep, ChannelInv, WaitInv
    <2>4. QED
      BY <2>1, <2>3 DEF WaitInv
  <1>4. LackInv'
    <2> SUFFICES ASSUME NEW p \in Processes, Asleep(p)' PROVE Lacks(p)'
      BY DEF LackInv
    <2>0. pool.Count \in Nat /\ pool'.Count \in Nat /\ Size \in Nat
      BY Types, RingAssumption DEF Consistent, Buffers, S
    <2>1. CASE FallsAsleep(p)
      BY <2>1 DEF FallsAsleep, Lacks
    <2>2. CASE IsFree(p)
      BY <2>2 DEF IsFree, Lacks, NoCall, PutCalls, TakeCalls
    <2>3. CASE Follows(p)
      <3>1. at'[p] = at[p] /\ Asleep(p)
        BY <2>3 DEF Follows, Unmoved, IsResumed, IsTimedOut, Stays, Asleep
      <3>2. Lacks(p)
        BY <3>1 DEF ChannelInv, LackInv
      <3>3. CASE at[p].call \in PutCalls
        <4>1. p \in ProcessMap["Producers"] /\ at[p].call \notin TakeCalls
          BY <1>1, <3>1, <3>3, CallKinds DEF Waits
        <4>2. pool'.Count >= pool.Count
          BY <4>1 DEF Asleep
        <4>3. Len(at[p].data) \in Nat
          BY <1>1, <3>3, CallKinds, PutKinds
        <4>4. QED
          BY <2>0, <3>1, <3>2, <3>3, <4>1, <4>2, <4>3 DEF Lacks
      <3>4. CASE at[p].call \in TakeCalls
        <4>1. p \in ProcessMap["Consumers"] /\ at[p].call \notin PutCalls
          BY <1>1, <3>1, <3>4, CallKinds DEF Waits
        <4>2. pool'.Count <= pool.Count
          BY <4>1 DEF Asleep
        <4>3. at[p].count \in Nat
          BY <1>1, <3>4, CallKinds, TakeKinds
        <4>4. QED
          BY <2>0, <3>1, <3>2, <3>4, <4>1, <4>2, <4>3 DEF Lacks
      <3>5. QED
        BY <3>1, <3>3, <3>4 DEF Lacks
    <2>4. QED
      BY <1>2, <2>1, <2>2, <2>3
  <1>5. QED
    BY <1>3, <1>4 DEF ChannelInv

-----------------------------------------------------------------------------
(* The steps of the kernel and of processes that are in no call.           *)

\* What holds of a process that executes.
LEMMA Caller ==
    ASSUME ChannelInv
    PROVE  /\ InCall => CurProcPriority \in Processes /\ ~Asleep(CurProcPriority)
           /\ UserRuns => /\ InCall /\ CurProcPriority # prIDLE
                          /\ at[CurProcPriority] = NoCall /\ Timeout[CurProcPriority] = 0
                          /\ CurProcPriority \notin ProcessMap["Producers"]
                          /\ CurProcPriority \notin ProcessMap["Consumers"]
           /\ Resumed => InCall
  <1> DEFINE c == CurProcPriority
  <1>1. InCall => c \in Processes /\ ~Asleep(c)
    BY CallerReady DEF ChannelInv, Asleep
  <1>2. ASSUME UserRuns
        PROVE  /\ InCall /\ c # prIDLE /\ at[c] = NoCall /\ Timeout[c] = 0
               /\ c \notin ProcessMap["Producers"] /\ c \notin ProcessMap["Consumers"]
    <2>1. InCall /\ c # prIDLE /\ c \notin switching /\ c \in Processes /\ ~Asleep(c)
      BY <1>1, <1>2, CallFacts
    <2>2. Waits(c) /\ Timeout[c] \in Nat
      BY <2>1, Types
    <2>3. at[c] = NoCall
      BY <2>1, <2>2 DEF Waits
    <2>4. at[c].call \notin PutCalls /\ at[c].call \notin TakeCalls
      BY <2>3 DEF NoCall, PutCalls, TakeCalls
    <2>5. QED
      BY <2>1, <2>2, <2>3, <2>4 DEF Waits
  <1>3. QED
    BY <1>1, <1>2, CallFacts

\* Steps that leave the channel alone.
LEMMA Quiet ==
    ASSUME ChannelInv, Inv', UNCHANGED <<serviceVars, channelVars>>, NEW c \in Processes,
           \A p \in Processes \ {c} : Follows(p), Follows(c) \/ IsFree(c)
    PROVE  ChannelInv'
  <1>1. UNCHANGED <<ProcessMap, NonEmpty, pool, used, at>>
    BY DEF serviceVars, channelVars
  <1>2. ChannelTypeOK' /\ Consistent(pool)'
    BY <1>1 DEF ChannelInv, ChannelTypeOK, Puts, Takes, NoCall, Consistent, Buffers
  <1>3. pool'.Count >= pool.Count /\ pool'.Count <= pool.Count
    BY <1>1, Types
  <1>4. QED
    BY <1>1, <1>2, <1>3, Step

LEMMA KernelStepKeeps == ChannelInv /\ KernelStep => ChannelInv'
  <1> SUFFICES ASSUME ChannelInv, KernelStep PROVE ChannelInv'
    OBVIOUS
  <1>1. Inv' /\ UNCHANGED <<serviceVars, channelVars>>
    BY Inductive, Types DEF KernelStep, KernelNext
  <1>2. UNCHANGED <<at, ProcessMap>>
    BY <1>1 DEF serviceVars, channelVars
  <1>3. \A p \in Processes : Follows(p)
    <2> SUFFICES ASSUME NEW p \in Processes PROVE Follows(p)
      OBVIOUS
    <2>1. CASE Run
      BY <1>2, <2>1 DEF Run, maps, sched, Follows, Unmoved, Stays, Bits
    <2>2. CASE PendSV_Handler
      BY <1>2, <2>2 DEF PendSV_Handler, maps, Follows, Unmoved, Stays, Bits
    <2>3. CASE SysTickEnter
      BY <1>2, <2>3 DEF SysTickEnter, maps, sched, Follows, Unmoved, Stays, Bits
    <2>4. CASE SysTickExit
      BY <1>2, <2>4 DEF SysTickExit, ISR_Exit, sched_isr, sched, maps, Follows, Unmoved, Stays, Bits
    <2>5. CASE system_timer
      <3>1. UNCHANGED switching
        BY <2>5 DEF system_timer, sched
      <3>2. /\ Timeout'[p] = IF p # prIDLE /\ Timeout[p] > 0 THEN Timeout[p] - 1 ELSE Timeout[p]
            /\ p \in ReadyProcessMap' <=> p \in ReadyProcessMap \/ (p # prIDLE /\ Timeout[p] > 0 /\ Timeout[p] = 1)
        BY <2>5 DEF system_timer
      <3>3. Timeout[p] \in Nat
        BY Types
      <3>4. CASE p # prIDLE /\ Timeout[p] = 1
        BY <1>2, <3>1, <3>2, <3>4 DEF Follows, IsTimedOut, Stays, Bits
      <3>5. CASE ~(p # prIDLE /\ Timeout[p] = 1)
        BY <1>2, <3>1, <3>2, <3>3, <3>5 DEF Follows, Unmoved, Stays, Bits
      <3>6. QED
        BY <3>4, <3>5
    <2>6. QED
      BY <2>1, <2>2, <2>3, <2>4, <2>5 DEF KernelStep, SysTick_Handler
  <1>4. QED
    BY <1>1, <1>3, Types, Quiet

LEMMA WakesUpKeeps == ChannelInv /\ WakesUp => ChannelInv'
  <1> SUFFICES ASSUME ChannelInv, WakesUp PROVE ChannelInv'
    OBVIOUS
  <1>1. PICK p \in Processes : wake_up(p)
    BY DEF WakesUp
  <1>2. UserRuns /\ UNCHANGED <<CurProcPriority, isr, serviceVars, channelVars>>
    BY DEF WakesUp
  <1>3. Inv'
    <2>1. KernelNext
      BY <1>1, <1>2 DEF KernelNext, ProcessWakes
    <2>2. QED
      BY <2>1, Inductive, Types
  <1>4. \A q \in Processes : Follows(q)
    <2> SUFFICES ASSUME NEW q \in Processes PROVE Follows(q)
      OBVIOUS
    <2>1. UNCHANGED <<at, ProcessMap>>
      BY <1>2 DEF serviceVars, channelVars
    <2>2. CASE Timeout[p] > 0 /\ force_wake_up(p)
      <3>1. /\ Timeout'[q] = IF q = p THEN 0 ELSE Timeout[q]
            /\ ReadyProcessMap' = ReadyProcessMap \cup {p}
        BY <2>2, Types DEF force_wake_up
      <3>2. switching \subseteq switching'
        BY <2>2 DEF force_wake_up, scheduler, sched
      <3>3. CASE q = p
        BY <2>1, <2>2, <3>1, <3>2, <3>3 DEF Follows, IsTimedOut, Stays, Bits
      <3>4. CASE q # p
        BY <2>1, <3>1, <3>2, <3>4 DEF Follows, Unmoved, Stays, Bits
      <3>5. QED
        BY <3>3, <3>4
    <2>3. CASE UNCHANGED <<maps, sched>>
      BY <2>1, <2>3 DEF maps, sched, Follows, Unmoved, Stays, Bits
    <2>4. QED
      BY <1>1, <2>2, <2>3 DEF wake_up
  <1>5. QED
    BY <1>2, <1>3, <1>4, Types, Quiet

LEMMA SleepsKeeps == ChannelInv /\ Sleeps => ChannelInv'
  <1> SUFFICES ASSUME ChannelInv, Sleeps PROVE ChannelInv'
    OBVIOUS
  <1> DEFINE c == CurProcPriority
  <1>1. PICK t \in Timeouts : sleep(t)
    BY DEF Sleeps
  <1>2. UserRuns /\ UNCHANGED <<CurProcPriority, isr, serviceVars, channelVars>>
    BY DEF Sleeps
  <1>3. /\ InCall /\ c \in Processes /\ c # prIDLE /\ at[c] = NoCall
        /\ c \notin ProcessMap["Producers"] /\ c \notin ProcessMap["Consumers"]
    BY <1>2, Caller
  <1>4. t \in Nat
    BY KernelAssumption
  <1>5. Inv'
    BY <1>1, <1>2, <1>3, <1>4, SleepKeeps, Types
  <1>6. UNCHANGED <<at, ProcessMap>>
    BY <1>2 DEF serviceVars, channelVars
  <1>7. /\ ReadyProcessMap' = ReadyProcessMap \ {c}
        /\ \A p \in Processes \ {c} : Timeout'[p] = Timeout[p]
    BY <1>1, Types DEF sleep
  <1>8. switching \subseteq switching'
    BY <1>1 DEF sleep, scheduler, sched
  <1>9. \A p \in Processes \ {c} : Follows(p)
    BY <1>6, <1>7, <1>8 DEF Follows, Unmoved, Stays, Bits
  <1>10. IsFree(c)
    BY <1>3, <1>6, <1>7 DEF IsFree, NoBits
  <1>11. QED
    BY <1>2, <1>3, <1>5, <1>9, <1>10, Quiet

LEMMA CallReturnsKeeps == ChannelInv /\ CallReturns => ChannelInv'
  <1> SUFFICES ASSUME ChannelInv, CallReturns PROVE ChannelInv'
    OBVIOUS
  <1> DEFINE c == CurProcPriority
  <1>1. /\ Resumed /\ at[c] = NoCall /\ SchedReturns
        /\ UNCHANGED <<serviceVars, channelVars>>
    BY DEF CallReturns
  <1>2. InCall /\ c \in Processes /\ ~Asleep(c)
    BY <1>1, Caller
  <1>3. Inv'
    BY <1>1, Inductive, Types DEF KernelNext
  <1>4. UNCHANGED <<at, ProcessMap>>
    BY <1>1 DEF serviceVars, channelVars
  <1>5. UNCHANGED <<ReadyProcessMap, Timeout>> /\ switching' = switching \ {c}
    BY <1>1 DEF SchedReturns, SwitchDone, maps
  <1>6. \A p \in Processes \ {c} : Follows(p)
    BY <1>4, <1>5 DEF Follows, Unmoved, Stays, Bits
  <1>7. IsFree(c)
    <2>1. at[c].call \notin PutCalls /\ at[c].call \notin TakeCalls
      BY <1>1 DEF NoCall, PutCalls, TakeCalls
    <2>2. Timeout[c] = 0 /\ c \notin ProcessMap["Producers"] /\ c \notin ProcessMap["Consumers"]
      BY <1>2, <2>1, Types DEF Waits
    <2>3. QED
      BY <1>1, <1>4, <1>5, <2>2 DEF IsFree, NoBits
  <1>8. QED
    BY <1>1, <1>2, <1>3, <1>6, <1>7, Quiet

-----------------------------------------------------------------------------
(* The buffer.                                                             *)

LEMMA PutFacts ==
    ASSUME ChannelInv, NEW c \in Puts, get_free_size(pool) >= Len(c.data)
    PROVE  /\ Consistent(After(c)) /\ After(c).Count >= pool.Count
           /\ Len(Contents(pool)) + Len(c.data) <= Size
           /\ \/ /\ c.call = "push" /\ c.data[1] \in Items /\ c.data = <<c.data[1]>>
                 /\ Contents(After(c)) = Append(Contents(pool), c.data[1])
              \/ /\ c.call = "push_front" /\ c.data[1] \in Items /\ c.data = <<c.data[1]>>
                 /\ Contents(After(c)) = <<c.data[1]>> \o Contents(pool)
              \/ /\ c.call = "write" /\ c.data \in Seq(Items) /\ Len(c.data) <= Size
                 /\ Contents(After(c)) = Contents(pool) \o c.data
  <1>1. Consistent(pool) /\ Contents(pool) \in Seq(Items) /\ Len(Contents(pool)) = pool.Count /\ pool.Count \in Nat
    BY Held, Members DEF ChannelInv
  <1>2. Len(c.data) \in 1 .. Size /\ c.data \in Seq(Items) /\ c.call \in PutCalls
        /\ (c.call \in {"push", "push_front"} => c.data[1] \in Items /\ c.data = <<c.data[1]>>)
    BY PutKinds
  <1>3. Len(c.data) <= Size - pool.Count
    BY <1>1, FreeSizeExact
  <1>4. pool.Count < Size /\ pool.Count + Len(c.data) <= Size /\ Len(c.data) <= Size
    BY <1>1, <1>2, <1>3, RingAssumption
  <1>5. CASE c.call = "push"
    <2>1. After(c) = push_back(pool, c.data[1])
      BY <1>5 DEF After
    <2>2. Consistent(After(c)) /\ Contents(After(c)) = Append(Contents(pool), c.data[1])
      BY <1>1, <1>2, <1>4, <1>5, <2>1, PushBackAppends
    <2>3. Len(Contents(After(c))) = pool.Count + 1
      BY <1>1, <1>2, <1>5, <2>2
    <2>4. After(c).Count = pool.Count + 1
      BY <2>2, <2>3, Held
    <2>5. QED
      BY <1>1, <1>2, <1>4, <1>5, <2>2, <2>4
  <1>6. CASE c.call = "push_front"
    <2>1. After(c) = push_front(pool, c.data[1])
      BY <1>6 DEF After
    <2>2. Consistent(After(c)) /\ Contents(After(c)) = <<c.data[1]>> \o Contents(pool)
      BY <1>1, <1>2, <1>4, <1>6, <2>1, PushFrontPrepends
    <2>3. Len(Contents(After(c))) = 1 + pool.Count
      BY <1>1, <1>2, <1>6, <2>2
    <2>4. After(c).Count = 1 + pool.Count
      BY <2>2, <2>3, Held
    <2>5. QED
      BY <1>1, <1>2, <1>4, <1>6, <2>2, <2>4
  <1>7. CASE c.call = "write"
    <2>1. After(c) = write(pool, c.data)
      BY <1>7 DEF After
    <2>2. Consistent(After(c)) /\ Contents(After(c)) = Contents(pool) \o c.data
      BY <1>1, <1>2, <1>3, <2>1, WriteAppends
    <2>3. Len(Contents(After(c))) = pool.Count + Len(c.data)
      BY <1>1, <1>2, <2>2
    <2>4. After(c).Count = pool.Count + Len(c.data)
      BY <2>2, <2>3, Held
    <2>5. QED
      BY <1>1, <1>2, <1>4, <1>7, <2>2, <2>4
  <1>8. QED
    BY <1>2, <1>5, <1>6, <1>7 DEF PutCalls

LEMMA TakeFacts ==
    ASSUME ChannelInv, NEW c \in Takes, Enough(c)
    PROVE  /\ Consistent(Without(c)) /\ Without(c).Count <= pool.Count
           /\ \/ /\ c.call = "pop" /\ Len(Contents(pool)) >= 1
                 /\ Taken(c) = <<Head(Contents(pool))>>
                 /\ Contents(Without(c)) = Tail(Contents(pool))
              \/ /\ c.call = "pop_back" /\ Len(Contents(pool)) >= 1
                 /\ Taken(c) = <<Contents(pool)[Len(Contents(pool))]>>
                 /\ Contents(Without(c)) = SubSeq(Contents(pool), 1, Len(Contents(pool)) - 1)
              \/ /\ c.call = "read" /\ c.count \in 0 .. Size /\ c.count <= Len(Contents(pool))
                 /\ Taken(c) = SubSeq(Contents(pool), 1, c.count)
                 /\ Contents(Without(c)) = SubSeq(Contents(pool), c.count + 1, Len(Contents(pool)))
  <1>1. Consistent(pool) /\ Contents(pool) \in Seq(Items) /\ Len(Contents(pool)) = pool.Count /\ pool.Count \in Nat
    BY Held, Members DEF ChannelInv
  <1>2. c.count \in 1 .. Size /\ c.call \in TakeCalls
    BY TakeKinds
  <1>3. pool.Count >= c.count /\ c.count \in Nat /\ pool.Count # 0 /\ pool.Count >= 1
    BY <1>1, <1>2, RingAssumption DEF Enough, get_count
  <1>4. CASE c.call = "pop"
    <2>1. Without(c) = pop_front(pool) /\ Taken(c) = <<FrontItem(pool)>>
      BY <1>4 DEF Without, Taken
    <2>2. /\ Consistent(Without(c)) /\ FrontItem(pool) = Head(Contents(pool))
          /\ Contents(Without(c)) = Tail(Contents(pool))
      BY <1>1, <1>3, <2>1, PopFrontTakesHead
    <2>3. Contents(pool) # <<>>
      BY <1>1, <1>3
    <2>4. Len(Contents(Without(c))) = pool.Count - 1
      BY <1>1, <2>2, <2>3
    <2>5. Without(c).Count = pool.Count - 1
      BY <2>2, <2>4, Held
    <2>6. QED
      BY <1>1, <1>3, <1>4, <2>1, <2>2, <2>5
  <1>5. CASE c.call = "pop_back"
    <2>1. Without(c) = pop_back(pool) /\ Taken(c) = <<BackItem(pool)>>
      BY <1>5 DEF Without, Taken
    <2>2. /\ Consistent(Without(c)) /\ BackItem(pool) = Contents(pool)[Len(Contents(pool))]
          /\ Contents(Without(c)) = SubSeq(Contents(pool), 1, Len(Contents(pool)) - 1)
      BY <1>1, <1>3, <2>1, PopBackTakesLast
    <2>3. Len(Contents(Without(c))) = pool.Count - 1
      BY <1>1, <1>3, <2>2
    <2>4. Without(c).Count = pool.Count - 1
      BY <2>2, <2>3, Held
    <2>5. QED
      BY <1>1, <1>3, <1>5, <2>1, <2>2, <2>4
  <1>6. CASE c.call = "read"
    <2>1. Without(c) = read(pool, c.count) /\ Taken(c) = ReadItems(pool, c.count)
      BY <1>6 DEF Without, Taken
    <2>2. /\ Consistent(Without(c)) /\ Taken(c) = SubSeq(Contents(pool), 1, c.count)
          /\ Contents(Without(c)) = SubSeq(Contents(pool), c.count + 1, Len(Contents(pool)))
      BY <1>1, <1>3, <2>1, ReadTakesFirst
    <2>3. Len(Contents(Without(c))) = pool.Count - c.count
      BY <1>1, <1>3, <2>2
    <2>4. Without(c).Count = pool.Count - c.count
      BY <2>2, <2>3, Held
    <2>5. Without(c).Count <= pool.Count /\ c.count \in 0 .. Size
      BY <1>1, <1>2, <1>3, <2>4, RingAssumption
    <2>6. QED
      BY <1>1, <1>3, <1>6, <2>2, <2>5
  <1>7. QED
    BY <1>2, <1>4, <1>5, <1>6 DEF TakeCalls

-----------------------------------------------------------------------------
(* The ways in which a call goes on from its test.                         *)

LEMMA WaitsForOthers ==
    ASSUME ChannelInv, InCall, CurProcPriority # prIDLE,
           CurProcPriority \notin ProcessMap["Producers"], CurProcPriority \notin ProcessMap["Consumers"],
           NEW call, NEW s, WaitsIn(s, call),
           \/ /\ call \in Puts /\ s = "Producers" /\ get_free_size(pool) < Len(call.data)
              /\ Timeout'[CurProcPriority] = 0
           \/ call \in Takes /\ s = "Consumers" /\ ~Enough(call),
           Timeout' \in [Processes -> Nat],
           \A p \in Processes \ {CurProcPriority} : Timeout'[p] = Timeout[p],
           UNCHANGED <<CurProcPriority, isr, NonEmpty, used, pool>>
    PROVE  ChannelInv'
  <1> DEFINE c == CurProcPriority
  <1>1. c \in Processes /\ ~Asleep(c) /\ s \in Services
    BY Caller, Sides
  <1>2. suspend(s) /\ at' = [at EXCEPT ![c] = call]
    BY DEF WaitsIn
  <1>3. /\ Inv'
        /\ ReadyProcessMap' = ReadyProcessMap \ {c} /\ switching' = switching \cup {c}
        /\ ProcessMap' = [ProcessMap EXCEPT ![s] = @ \cup {c}]
    BY <1>2, SuspendKeeps, Types
  <1>4. /\ at' \in [Processes -> {NoCall} \cup Puts \cup Takes] /\ at'[c] = call
        /\ \A p \in Processes \ {c} : at'[p] = at[p]
    BY <1>1, <1>2, Types
  <1>5. /\ ProcessMap' \in [Services -> SUBSET Processes]
        /\ s = "Producers" => /\ ProcessMap'["Producers"] = ProcessMap["Producers"] \cup {c}
                              /\ ProcessMap'["Consumers"] = ProcessMap["Consumers"]
        /\ s = "Consumers" => /\ ProcessMap'["Producers"] = ProcessMap["Producers"]
                              /\ ProcessMap'["Consumers"] = ProcessMap["Consumers"] \cup {c}
    BY <1>1, <1>3, Types, Sides
  <1>6. ChannelTypeOK' /\ Consistent(pool)'
    BY <1>4, <1>5 DEF ChannelInv, ChannelTypeOK, Puts, Takes, NoCall, Consistent, Buffers
  <1>7. \A p \in Processes \ {c} : Follows(p)
    BY <1>3, <1>4, <1>5 DEF Follows, Unmoved, Stays, Bits
  <1>8. FallsAsleep(c)
    <2>1. CASE call \in Puts
      <3>1. call # NoCall /\ call.call \notin TakeCalls /\ call \notin Takes /\ Len(call.data) \in Nat
        BY <2>1, PutKinds, TakeKinds
      <3>2. pool.Count + Len(call.data) > Size
        <4>1. get_free_size(pool) = Size - pool.Count
          BY FreeSizeExact, Held DEF ChannelInv
        <4>2. QED
          BY <3>1, <4>1, Types
      <3>3. s = "Producers" /\ Timeout'[c] = 0 /\ pool' = pool
        BY <3>1
      <3>4. QED
        BY <1>3, <1>4, <1>5, <3>1, <3>2, <3>3 DEF FallsAsleep
    <2>2. CASE call \in Takes
      <3>1. call # NoCall /\ call.call \notin PutCalls /\ call \notin Puts /\ call.count \in Nat
        BY <2>2, PutKinds, TakeKinds
      <3>2. s = "Consumers" /\ ~Enough(call) /\ pool' = pool
        BY <3>1
      <3>3. pool.Count < call.count
        BY <3>1, <3>2, Types DEF Enough, get_count
      <3>4. QED
        BY <1>3, <1>4, <1>5, <3>1, <3>2, <3>3 DEF FallsAsleep
    <2>3. QED
      BY <2>1, <2>2
  <1>9. pool'.Count >= pool.Count /\ pool'.Count <= pool.Count
    BY Types
  <1>10. QED
    BY <1>1, <1>3, <1>6, <1>7, <1>8, <1>9, Step

LEMMA WakesOthers ==
    ASSUME ChannelInv, InCall,
           CurProcPriority \notin ProcessMap["Producers"], CurProcPriority \notin ProcessMap["Consumers"],
           Returns, NEW s, resume_all(s), Consistent(pool)',
           \/ s = "Consumers" /\ pool'.Count >= pool.Count
           \/ s = "Producers" /\ pool'.Count <= pool.Count,
           Timeout' \in [Processes -> Nat], Timeout'[CurProcPriority] = 0,
           \A p \in Processes \ {CurProcPriority} : Timeout'[p] = Timeout[p],
           UNCHANGED <<CurProcPriority, isr, NonEmpty, used>>
    PROVE  ChannelInv'
  <1> DEFINE c == CurProcPriority
  <1>1. c \in Processes /\ ~Asleep(c) /\ s \in Services /\ ProcessMap[s] \subseteq Processes
    BY Caller, Sides, Types
  <1>2. /\ Inv' /\ switching \ {c} \subseteq switching'
        /\ ReadyProcessMap' = ReadyProcessMap \cup ProcessMap[s]
        /\ ProcessMap' = [ProcessMap EXCEPT ![s] = @ \cap ReadyProcessMap]
    BY <1>1, ResumeAllKeeps, Types
  <1>3. /\ at' \in [Processes -> {NoCall} \cup Puts \cup Takes] /\ at'[c] = NoCall
        /\ \A p \in Processes \ {c} : at'[p] = at[p]
    BY <1>1, Types DEF Returns
  <1>4. /\ ProcessMap' \in [Services -> SUBSET Processes]
        /\ s = "Producers" => /\ ProcessMap'["Producers"] = ProcessMap["Producers"] \cap ReadyProcessMap
                              /\ ProcessMap'["Consumers"] = ProcessMap["Consumers"]
        /\ s = "Consumers" => /\ ProcessMap'["Producers"] = ProcessMap["Producers"]
                              /\ ProcessMap'["Consumers"] = ProcessMap["Consumers"] \cap ReadyProcessMap
    BY <1>1, <1>2, Types, Sides
  <1>5. ChannelTypeOK'
    <2>1. pool' \in Buffers' /\ pool'.Count <= Size /\ pool'.First < Size /\ pool'.Last < Size
      BY DEF Consistent
    <2>2. QED
      BY <1>3, <1>4, <2>1 DEF ChannelInv, ChannelTypeOK, Puts, Takes, NoCall
  <1>6. ASSUME NEW p \in Processes \ {c} PROVE Follows(p)
    <2>1. Stays(p) /\ Timeout'[p] = Timeout[p] /\ Waits(p) /\ at[p] \in {NoCall} \cup Puts \cup Takes
      BY <1>2, <1>3, Types DEF Stays
    <2>2. CASE p \in ProcessMap[s] \ ReadyProcessMap
      <3>1. at[p] # NoCall /\ ~(at[p].call \in PutCalls /\ at[p].call \in TakeCalls)
        BY <2>1, <2>2, CallKinds DEF Waits
      <3>2. p \in ReadyProcessMap' /\ NoBits(p)
        BY <1>2, <1>4, <2>1, <2>2, <3>1 DEF Waits, NoBits
      <3>3. QED
        BY <2>1, <2>2, <3>1, <3>2 DEF Follows, IsResumed
    <2>3. CASE p \notin ProcessMap[s] \ ReadyProcessMap
      <3>1. Bits(p) /\ (p \in ReadyProcessMap' <=> p \in ReadyProcessMap)
        BY <1>2, <1>4, <2>3 DEF Bits
      <3>2. QED
        BY <2>1, <3>1 DEF Follows, Unmoved
    <2>4. QED
      BY <2>2, <2>3
  <1>7. IsFree(c)
    BY <1>3, <1>4 DEF IsFree, NoBits
  <1>8. ProcessMap[s] \subseteq ReadyProcessMap'
    BY <1>2
  <1>9. QED
    BY <1>1, <1>2, <1>5, <1>6, <1>7, <1>8, Step

\* The test of the producers' loop, by a process without a bit in the maps.
LEMMA PutOrWaitKeeps ==
    ASSUME ChannelInv, InCall, CurProcPriority # prIDLE, Timeout[CurProcPriority] = 0,
           CurProcPriority \notin ProcessMap["Producers"], CurProcPriority \notin ProcessMap["Consumers"],
           NEW c \in Puts, PutOrWait(c), UNCHANGED <<CurProcPriority, Timeout, isr, NonEmpty, used>>
    PROVE  ChannelInv'
  <1>1. Timeout' \in [Processes -> Nat] /\ Timeout' = Timeout /\ Timeout'[CurProcPriority] = 0
    BY Types
  <1>2. CASE get_free_size(pool) < Len(c.data) /\ WaitsIn("Producers", c) /\ UNCHANGED <<pool, done>>
    BY <1>1, <1>2, WaitsForOthers
  <1>3. CASE get_free_size(pool) >= Len(c.data) /\ Put(c)
    <2>1. pool' = After(c) /\ resume_all("Consumers") /\ Returns
      BY <1>3 DEF Put
    <2>2. Consistent(After(c)) /\ After(c).Count >= pool.Count
      BY <1>3, PutFacts
    <2>3. Consistent(pool)' /\ pool'.Count >= pool.Count
      BY <2>1, <2>2 DEF Consistent, Buffers
    <2>4. QED
      BY <1>1, <2>1, <2>3, WakesOthers
  <1>4. QED
    BY <1>2, <1>3 DEF PutOrWait

LEMMA TakeKeeps ==
    ASSUME ChannelInv, InCall,
           CurProcPriority \notin ProcessMap["Producers"], CurProcPriority \notin ProcessMap["Consumers"],
           NEW c \in Takes, Enough(c), Take(c), Timeout' = [Timeout EXCEPT ![CurProcPriority] = 0],
           UNCHANGED <<CurProcPriority, isr, NonEmpty, used>>
    PROVE  ChannelInv'
  <1>1. CurProcPriority \in Processes
    BY Caller
  <1>2. /\ Timeout' \in [Processes -> Nat] /\ Timeout'[CurProcPriority] = 0
        /\ \A p \in Processes \ {CurProcPriority} : Timeout'[p] = Timeout[p]
    BY <1>1, Types
  <1>3. pool' = Without(c) /\ resume_all("Producers") /\ Returns
    BY DEF Take
  <1>4. Consistent(Without(c)) /\ Without(c).Count <= pool.Count
    BY TakeFacts
  <1>5. Consistent(pool)' /\ pool'.Count <= pool.Count
    BY <1>3, <1>4 DEF Consistent, Buffers
  <1>6. QED
    BY <1>2, <1>3, <1>5, WakesOthers

\* A process that goes on in a call it has waited in.
LEMMA Waiter ==
    ASSUME ChannelInv, Resumed, at[CurProcPriority] # NoCall
    PROVE  /\ InCall /\ CurProcPriority \in Processes /\ CurProcPriority # prIDLE
           /\ CurProcPriority \in Producers =>
                  /\ at[CurProcPriority] \in Puts /\ Timeout[CurProcPriority] = 0
                  /\ CurProcPriority \notin ProcessMap["Producers"]
                  /\ CurProcPriority \notin ProcessMap["Consumers"]
           /\ CurProcPriority \in Consumers =>
                  /\ at[CurProcPriority] \in Takes
                  /\ CurProcPriority \notin ProcessMap["Producers"]
                  /\ CurProcPriority \in ProcessMap["Consumers"] => Timeout[CurProcPriority] = 0
  <1> DEFINE c == CurProcPriority
  <1>1. InCall /\ c \in Processes /\ ~Asleep(c)
    BY Caller
  <1>2. Waits(c) /\ Timeout[c] \in Nat /\ at[c] \in {NoCall} \cup Puts \cup Takes
    BY <1>1, Types
  <1>3. c # prIDLE
    BY DEF ChannelInv, WaitInv
  <1>4. c \in Producers => at[c].call \in PutCalls /\ at[c] \in Puts /\ at[c].call \notin TakeCalls
    BY <1>2, CallKinds DEF Producers, PutCalls
  <1>5. c \in Consumers => at[c].call \in TakeCalls /\ at[c] \in Takes /\ at[c].call \notin PutCalls
    BY <1>2, CallKinds DEF Consumers, TakeCalls
  <1>6. QED
    BY <1>1, <1>2, <1>3, <1>4, <1>5 DEF Waits

-----------------------------------------------------------------------------
(* The actions.                                                            *)

LEMMA CallsPutKeeps == ChannelInv /\ CallsPut => ChannelInv'
  <1> SUFFICES ASSUME ChannelInv, CallsPut PROVE ChannelInv'
    OBVIOUS
  <1>1. PICK c \in Puts : PutOrWait(c)
    BY DEF CallsPut
  <1>2. UserRuns /\ UNCHANGED <<CurProcPriority, Timeout, isr, NonEmpty, used>>
    BY DEF CallsPut
  <1>3. QED
    BY <1>1, <1>2, Caller, PutOrWaitKeeps

LEMMA PutResumedKeeps == ChannelInv /\ PutResumed => ChannelInv'
  <1> SUFFICES ASSUME ChannelInv, PutResumed PROVE ChannelInv'
    OBVIOUS
  <1> DEFINE c == at[CurProcPriority]
  <1>1. /\ Resumed /\ CurProcPriority \in Producers /\ PutOrWait(c)
        /\ UNCHANGED <<CurProcPriority, Timeout, isr, NonEmpty, used>>
    BY DEF PutResumed
  <1>2. c # NoCall
    BY <1>1 DEF Producers, NoCall
  <1> HIDE DEF c
  <1>3. /\ InCall /\ CurProcPriority # prIDLE /\ c \in Puts /\ Timeout[CurProcPriority] = 0
        /\ CurProcPriority \notin ProcessMap["Producers"] /\ CurProcPriority \notin ProcessMap["Consumers"]
    BY <1>1, <1>2, Waiter DEF c
  <1>4. QED
    BY <1>1, <1>3, PutOrWaitKeeps

LEMMA CallsTakeKeeps == ChannelInv /\ CallsTake => ChannelInv'
  <1> SUFFICES ASSUME ChannelInv, CallsTake PROVE ChannelInv'
    OBVIOUS
  <1> DEFINE p == CurProcPriority
  <1>1. PICK c \in Takes :
            \/ /\ Enough(c)
               /\ Timeout' = [Timeout EXCEPT ![p] = IF c.call = "read" THEN 0 ELSE @]
               /\ Take(c)
            \/ /\ ~Enough(c)
               /\ Timeout' = [Timeout EXCEPT ![p] = c.timeout]
               /\ WaitsIn("Consumers", c)
               /\ UNCHANGED <<pool, done>>
    BY DEF CallsTake
  <1>2. UserRuns /\ UNCHANGED <<CurProcPriority, isr, NonEmpty, used>>
    BY DEF CallsTake
  <1>3. /\ InCall /\ p # prIDLE /\ p \in Processes /\ Timeout[p] = 0
        /\ p \notin ProcessMap["Producers"] /\ p \notin ProcessMap["Consumers"]
    BY <1>2, Caller
  <1>4. CASE Enough(c) /\ Take(c) /\ Timeout' = [Timeout EXCEPT ![p] = IF c.call = "read" THEN 0 ELSE @]
    <2>1. Timeout' = [Timeout EXCEPT ![p] = 0]
      BY <1>3, <1>4
    <2>2. QED
      BY <1>2, <1>3, <1>4, <2>1, TakeKeeps
  <1>5. CASE /\ ~Enough(c) /\ WaitsIn("Consumers", c) /\ UNCHANGED pool
             /\ Timeout' = [Timeout EXCEPT ![p] = c.timeout]
    <2>1. c.timeout \in Nat
      BY TakeKinds
    <2>2. Timeout' \in [Processes -> Nat] /\ \A q \in Processes \ {p} : Timeout'[q] = Timeout[q]
      BY <1>3, <1>5, <2>1, Types
    <2>3. QED
      BY <1>2, <1>3, <1>5, <2>2, WaitsForOthers
  <1>6. QED
    BY <1>1, <1>4, <1>5

LEMMA TakeResumedKeeps == ChannelInv /\ TakeResumed => ChannelInv'
  <1> SUFFICES ASSUME ChannelInv, TakeResumed PROVE ChannelInv'
    OBVIOUS
  <1> DEFINE p == CurProcPriority
             c == at[p]
  <1>1. /\ Resumed /\ p \in Consumers
        /\ UNCHANGED <<CurProcPriority, isr, NonEmpty, used>>
    BY DEF TakeResumed
  <1>2. at[p] # NoCall
    BY <1>1 DEF Consumers, NoCall
  <1>3. /\ InCall /\ p # prIDLE /\ p \in Processes /\ c \in Takes
        /\ p \notin ProcessMap["Producers"]
        /\ p \in ProcessMap["Consumers"] => Timeout[p] = 0
    BY <1>1, <1>2, Waiter
  <1>4. CASE /\ is_timeouted("Consumers")
             /\ ProcessMap' = [ProcessMap EXCEPT !["Consumers"] = @ \ {p}]
             /\ Continue /\ Returns
             /\ UNCHANGED <<maps, pool, done>>
    <2>1. /\ UNCHANGED <<ReadyProcessMap, Timeout, pool>> /\ switching' = switching \ {p}
          /\ at' = [at EXCEPT ![p] = NoCall]
      BY <1>4 DEF maps, Continue, Returns
    <2>2. Inv'
      <3>1. ReadyProcessMap' \subseteq Processes /\ Timeout' \in [Processes -> Nat]
        BY <2>1, Types DEF Inv, KernelTypeOK
      <3>2. QED
        BY <1>1, <1>3, <1>4, <2>1, <3>1, ContinueKeeps, Types
    <2>3. /\ at' \in [Processes -> {NoCall} \cup Puts \cup Takes] /\ at'[p] = NoCall
          /\ \A q \in Processes \ {p} : at'[q] = at[q]
      BY <1>3, <2>1, Types
    <2>4. /\ ProcessMap' \in [Services -> SUBSET Processes]
          /\ ProcessMap'["Producers"] = ProcessMap["Producers"]
          /\ ProcessMap'["Consumers"] = ProcessMap["Consumers"] \ {p}
      BY <1>4, Types, Sides
    <2>5. ChannelTypeOK' /\ Consistent(pool)'
      BY <1>1, <2>1, <2>3, <2>4 DEF ChannelInv, ChannelTypeOK, Puts, Takes, NoCall, Consistent, Buffers
    <2>6. \A q \in Processes \ {p} : Follows(q)
      BY <2>1, <2>3, <2>4 DEF Follows, Unmoved, Stays, Bits
    <2>7. IsFree(p)
      BY <1>3, <1>4, <2>1, <2>3, <2>4 DEF IsFree, NoBits, is_timeouted
    <2>8. pool'.Count >= pool.Count /\ pool'.Count <= pool.Count
      BY <2>1, Types
    <2>9. QED
      BY <1>1, <1>3, <2>2, <2>5, <2>6, <2>7, <2>8, Step
  <1>5. CASE /\ ~is_timeouted("Consumers") /\ Enough(c)
             /\ Timeout' = [Timeout EXCEPT ![p] = 0]
             /\ Take(c)
    BY <1>1, <1>3, <1>5, TakeKeeps DEF is_timeouted
  <1>6. CASE /\ ~is_timeouted("Consumers") /\ ~Enough(c)
             /\ WaitsIn("Consumers", c)
             /\ UNCHANGED <<Timeout, pool, done>>
    <2>1. Timeout' \in [Processes -> Nat] /\ \A q \in Processes \ {p} : Timeout'[q] = Timeout[q]
      BY <1>6, Types
    <2>2. QED
      BY <1>1, <1>3, <1>6, <2>1, WaitsForOthers DEF is_timeouted
  <1>7. QED
    BY <1>4, <1>5, <1>6 DEF TakeResumed

LEMMA CallsFlushKeeps == ChannelInv /\ CallsFlush => ChannelInv'
  <1> SUFFICES ASSUME ChannelInv, CallsFlush PROVE ChannelInv'
    OBVIOUS
  <1> DEFINE p == CurProcPriority
  <1>1. /\ UserRuns /\ pool' = flush(pool) /\ resume_all("Producers")
        /\ UNCHANGED <<CurProcPriority, Timeout, isr, NonEmpty, used, at>>
    BY DEF CallsFlush
  <1>2. /\ InCall /\ p \in Processes /\ at[p] = NoCall /\ Timeout[p] = 0
        /\ p \notin ProcessMap["Producers"] /\ p \notin ProcessMap["Consumers"]
    BY <1>1, Caller
  <1>3. Returns
    BY <1>1, <1>2, Types DEF Returns
  <1>4. Consistent(flush(pool))
    BY FlushEmpties DEF ChannelInv
  <1>5. pool' = [pool EXCEPT !.Count = 0, !.Last = pool.First]
    BY <1>1 DEF flush
  <1>6. Consistent(pool)' /\ pool'.Count = 0
    BY <1>1, <1>4, <1>5, Members DEF Consistent, Buffers, ChannelInv
  <1>7. pool'.Count <= pool.Count
    BY <1>6, Types
  <1>8. Timeout' \in [Processes -> Nat] /\ Timeout' = Timeout /\ Timeout'[p] = 0
    BY <1>1, <1>2, Types
  <1>9. QED
    BY <1>1, <1>2, <1>3, <1>6, <1>7, <1>8, WakesOthers

-----------------------------------------------------------------------------
LEMMA ChannelInitially == Init => ChannelInv
  <1> SUFFICES ASSUME Init PROVE ChannelInv
    OBVIOUS
  <1>1. Inv
    BY Initially DEF Init
  <1>2. Timeout = [p \in Processes |-> 0] /\ prIDLE \in Processes
    BY ConstantFacts DEF Init, KernelInit
  <1>3. at = [p \in Processes |-> NoCall] /\ ReadyProcessMap = Processes
        /\ ProcessMap = [s \in Services |-> {}]
    BY DEF Init, KernelInit
  <1>4. pool \in Buffers /\ pool.Count = 0 /\ pool.First = 0 /\ pool.Last = 0
    <2>1. pool \in [Count : {0}, First : {0}, Last : {0}, Buf : [Slots -> Items]]
      BY DEF Init
    <2>2. 0 \in S
      BY RingAssumption DEF S
    <2>3. QED
      BY <2>1, <2>2 DEF Buffers
  <1>5. Consistent(pool)
    BY <1>4, RingAssumption DEF Consistent, Slot
  <1>6. ChannelTypeOK
    BY <1>3, <1>4, <1>5 DEF Init, ChannelTypeOK, Consistent
  <1>7. WaitInv
    BY <1>2, <1>3, Sides DEF WaitInv, Waits, NoCall, PutCalls, TakeCalls, Asleep
  <1>8. LackInv
    BY <1>3 DEF LackInv, Asleep
  <1>9. QED
    BY <1>1, <1>5, <1>6, <1>7, <1>8 DEF ChannelInv

LEMMA NextKeeps == ChannelInv /\ [Next]_vars => ChannelInv'
  <1>1. ChannelInv /\ UNCHANGED vars => ChannelInv'
    <2> SUFFICES ASSUME ChannelInv, UNCHANGED vars PROVE ChannelInv'
      OBVIOUS
    <2>1. UNCHANGED <<serviceVars, channelVars>> /\ Inv'
      BY Inductive, Types DEF vars
    <2>2. \A p \in Processes : Follows(p)
      BY DEF vars, kernelVars, maps, sched, serviceVars, channelVars, Follows, Unmoved, Stays, Bits
    <2>3. QED
      BY <2>1, <2>2, Types, Quiet
  <1>2. QED
    BY <1>1, KernelStepKeeps, CallsPutKeeps, PutResumedKeeps, CallsTakeKeeps, TakeResumedKeeps,
       CallsFlushKeeps, SleepsKeeps, WakesUpKeeps, CallReturnsKeeps DEF Next

LEMMA ChannelInvariance == Spec => []ChannelInv
  BY ChannelInitially, NextKeeps, PTL DEF Spec

(* The types; in particular no index of the buffer ever leaves it. *)
THEOREM ChannelTypeCorrect == Spec => []ChannelTypeOK
  <1>1. ChannelInv => ChannelTypeOK
    BY DEF ChannelInv
  <1>2. QED
    BY <1>1, ChannelInvariance, PTL

LEMMA IdleWaiter == ChannelInv => NoIdleWaiter
  <1> SUFFICES ASSUME ChannelInv PROVE NoIdleWaiter
    OBVIOUS
  <1>1. Len(Contents(pool)) = pool.Count
    BY Held DEF ChannelInv
  <1>2. \A p \in Processes : Asleep(p) => Lacks(p)
    BY DEF ChannelInv, LackInv
  <1>3. QED
    BY <1>1, <1>2 DEF NoIdleWaiter, Lacks, Producers, Consumers, PutCalls, TakeCalls

(* Whatever the priorities, the timeouts and the order in which those woken get
   at the channel, nobody sleeps in a call that could be served. *)
THEOREM IdleNever == Spec => []NoIdleWaiter
  BY IdleWaiter, ChannelInvariance, PTL

(* A producer and a consumer sleep at the same time only with calls that ask for
   more than the channel can hold. *)
THEOREM StandstillNever == Spec => []NoStandstill
  <1>1. ChannelInv => NoStandstill
    <2> SUFFICES ASSUME ChannelInv, NEW p \in Producers, NEW q \in Consumers, Asleep(p), Asleep(q)
                 PROVE  Len(at[p].data) + at[q].count > Size + 1
      BY DEF NoStandstill
    <2>1. /\ Len(Contents(pool)) + Len(at[p].data) > Size
          /\ Len(Contents(pool)) < at[q].count
      BY IdleWaiter DEF NoIdleWaiter
    <2>2. at[p] \in Puts /\ at[q] \in Takes
      BY Types, CallKinds DEF Producers, Consumers, PutCalls, TakeCalls
    <2>3. Len(at[p].data) \in Nat /\ at[q].count \in Nat
      BY <2>2, PutKinds, TakeKinds
    <2>4. Len(Contents(pool)) \in Nat /\ Size \in Nat
      BY Held, Types DEF ChannelInv
    <2>5. QED
      BY <2>1, <2>3, <2>4
  <1>2. QED
    BY <1>1, ChannelInvariance, PTL

-----------------------------------------------------------------------------
(* The channel implements the queue.                                       *)

LEMMA PutRefines ==
    ASSUME ChannelInv, NEW c \in Puts, PutOrWait(c)
    PROVE  Queue!Next \/ UNCHANGED <<pool, done>>
  <1>1. CASE get_free_size(pool) >= Len(c.data) /\ Put(c)
    <2>1. pool' = After(c) /\ done' = [call |-> c.call, data |-> c.data]
      BY <1>1 DEF Put, Serves
    <2>2. Contents(pool)' = Contents(After(c))
      BY <2>1 DEF Contents, Slot
    <2>3. CASE /\ c.call = "push" /\ c.data[1] \in Items /\ c.data = <<c.data[1]>>
               /\ Contents(After(c)) = Append(Contents(pool), c.data[1])
      <3>1. Queue!Fits(<<c.data[1]>>)
        BY <1>1, <2>3, PutFacts DEF Queue!Fits
      <3>2. Queue!PushBack(c.data[1])
        BY <2>1, <2>2, <2>3, <3>1 DEF Queue!PushBack, Queue!Served
      <3>3. QED
        BY <2>3, <3>2 DEF Queue!Next
    <2>4. CASE /\ c.call = "push_front" /\ c.data[1] \in Items /\ c.data = <<c.data[1]>>
               /\ Contents(After(c)) = <<c.data[1]>> \o Contents(pool)
      <3>1. Queue!Fits(<<c.data[1]>>)
        BY <1>1, <2>4, PutFacts DEF Queue!Fits
      <3>2. Queue!PushFront(c.data[1])
        BY <2>1, <2>2, <2>4, <3>1 DEF Queue!PushFront, Queue!Served
      <3>3. QED
        BY <2>4, <3>2 DEF Queue!Next
    <2>5. CASE /\ c.call = "write" /\ c.data \in Seq(Items) /\ Len(c.data) <= Size
               /\ Contents(After(c)) = Contents(pool) \o c.data
      <3>1. Queue!Write(c.data)
        BY <1>1, <2>1, <2>2, <2>5, PutFacts DEF Queue!Write, Queue!Fits, Queue!Served
      <3>2. Len(c.data) \in 0 .. Size /\ c.data \in [1 .. Len(c.data) -> Items]
        BY <2>5, RingAssumption
      <3>3. c.data \in UNION {[1 .. n -> Items] : n \in 0 .. Size}
        BY <3>2
      <3>4. QED
        BY <3>1, <3>3 DEF Queue!Next
    <2>6. QED
      BY <1>1, <2>3, <2>4, <2>5, PutFacts
  <1>2. QED
    BY <1>1 DEF PutOrWait

LEMMA TakeRefines ==
    ASSUME ChannelInv, NEW c \in Takes, Enough(c), Take(c)
    PROVE  Queue!Next
  <1>1. pool' = Without(c) /\ done' = [call |-> c.call, data |-> Taken(c)]
    BY DEF Take, Serves
  <1>2. Contents(pool)' = Contents(Without(c))
    BY <1>1 DEF Contents, Slot
  <1>3. CASE /\ c.call = "pop" /\ Len(Contents(pool)) >= 1
             /\ Taken(c) = <<Head(Contents(pool))>>
             /\ Contents(Without(c)) = Tail(Contents(pool))
    <2>1. Queue!PopFront
      <3>1. Queue!Has(1)
        BY <1>3, Held DEF Queue!Has, ChannelInv
      <3>2. QED
        BY <1>1, <1>2, <1>3, <3>1 DEF Queue!PopFront, Queue!Served
    <2>2. QED
      BY <2>1 DEF Queue!Next
  <1>4. CASE /\ c.call = "pop_back" /\ Len(Contents(pool)) >= 1
             /\ Taken(c) = <<Contents(pool)[Len(Contents(pool))]>>
             /\ Contents(Without(c)) = SubSeq(Contents(pool), 1, Len(Contents(pool)) - 1)
    <2>1. Queue!PopBack
      <3>1. Queue!Has(1)
        BY <1>4, Held DEF Queue!Has, ChannelInv
      <3>2. QED
        BY <1>1, <1>2, <1>4, <3>1 DEF Queue!PopBack, Queue!Served
    <2>2. QED
      BY <2>1 DEF Queue!Next
  <1>5. CASE /\ c.call = "read" /\ c.count \in 0 .. Size /\ c.count <= Len(Contents(pool))
             /\ Taken(c) = SubSeq(Contents(pool), 1, c.count)
             /\ Contents(Without(c)) = SubSeq(Contents(pool), c.count + 1, Len(Contents(pool)))
    <2>1. Queue!Read(c.count)
      BY <1>1, <1>2, <1>5 DEF Queue!Read, Queue!Has, Queue!Served
    <2>2. QED
      BY <1>5, <2>1 DEF Queue!Next
  <1>6. QED
    BY <1>3, <1>4, <1>5, TakeFacts

LEMMA StepRefines == ChannelInv /\ [Next]_vars => [Queue!Next]_(Queue!queueVars)
  <1> SUFFICES ASSUME ChannelInv, [Next]_vars
               PROVE  Queue!Next \/ UNCHANGED <<pool, done>>
    <2>1. UNCHANGED <<pool, done>> => UNCHANGED (Queue!queueVars)
      BY DEF Queue!queueVars, Contents, Slot
    <2>2. QED
      BY <2>1
  <1> DEFINE p == CurProcPriority
  <1>1. CASE CallsPut
    BY <1>1, PutRefines DEF CallsPut
  <1>2. CASE PutResumed
    <2>1. Resumed /\ p \in Producers /\ PutOrWait(at[p])
      BY <1>2 DEF PutResumed
    <2>2. at[p] \in Puts
      BY <2>1, Types, CallKinds DEF Producers, PutCalls
    <2>3. QED
      BY <2>1, <2>2, PutRefines
  <1>3. CASE CallsTake
    BY <1>3, TakeRefines DEF CallsTake
  <1>4. CASE TakeResumed
    <2>1. p \in Consumers
      BY <1>4 DEF TakeResumed
    <2>2. at[p] \in Takes
      BY <2>1, Types, CallKinds DEF Consumers, TakeCalls
    <2>3. (Enough(at[p]) /\ Take(at[p])) \/ UNCHANGED <<pool, done>>
      BY <1>4 DEF TakeResumed
    <2>4. QED
      BY <2>2, <2>3, TakeRefines
  <1>5. CASE CallsFlush
    <2>1. pool' = flush(pool) /\ done' = [call |-> "flush", data |-> <<>>]
      BY <1>5 DEF CallsFlush, Serves
    <2>2. Contents(pool)' = <<>>
      <3>1. Contents(pool)' = Contents(flush(pool))
        BY <2>1 DEF Contents, Slot
      <3>2. QED
        BY <3>1, FlushEmpties DEF ChannelInv
    <2>3. Queue!Flush
      BY <2>1, <2>2 DEF Queue!Flush, Queue!Served
    <2>4. QED
      BY <2>3 DEF Queue!Next
  <1>6. CASE KernelStep \/ WakesUp \/ Sleeps \/ CallReturns
    BY <1>6 DEF KernelStep, WakesUp, Sleeps, CallReturns, channelVars
  <1>7. CASE UNCHANGED vars
    BY <1>7 DEF vars, channelVars
  <1>8. QED
    BY <1>1, <1>2, <1>3, <1>4, <1>5, <1>6, <1>7 DEF Next

(* The channel is a queue of at most Size items with two ends: however its
   calls wait, are overtaken and time out, each takes effect at once, on the
   end it is for, in the order of the calls that are served. *)
THEOREM ChannelIsQueue == Spec => QueueSpec
  <1>1. Init => Queue!Init
    <2> SUFFICES ASSUME Init PROVE Queue!Init
      OBVIOUS
    <2>1. ChannelInv /\ pool.Count = 0
      BY ChannelInitially DEF Init
    <2>2. Contents(pool) \in Seq(Items) /\ Len(Contents(pool)) = 0
      BY <2>1, Held DEF ChannelInv
    <2>3. Contents(pool) = <<>>
      BY <2>2
    <2>4. QED
      BY <2>3 DEF Init, Queue!Init
  <1>2. QED
    BY <1>1, StepRefines, ChannelInvariance, PTL DEF Spec, QueueSpec, Queue!Spec
=============================================================================
