-------------------------------- MODULE Channel --------------------------------
(***************************************************************************)
(* OS::channel (os_services.h): producers and consumers on a ring buffer,  *)
(* every process being either at any call.  The byte-wide OS::TChannel     *)
(* (os_services.cpp) has push, pop, write and read of it without timeouts, *)
(* but its constructor (os_services.h:265) leaves both maps of waiters     *)
(* uninitialised, so that Init below is not its own; nothing in the        *)
(* program makes one.                                                      *)
(*                                                                         *)
(* As in Locks, a call is one critical section, cut where it waits in the  *)
(* loop of sched().                                                        *)
(***************************************************************************)
EXTENDS Services, RingBuffer

CONSTANTS Programs,          \* the sets of operations that programs use
          Batches,           \* the numbers of items to write() and to read()
          ChannelTimeouts    \* the arguments of pop() and read()

ASSUME ChannelAssumption ==
    /\ Services = {"Producers", "Consumers"}
    /\ Programs \subseteq SUBSET {"push", "push_front", "write", "pop", "pop_back", "read", "flush"}
    /\ Batches \subseteq 1 .. Size
    /\ ChannelTimeouts \subseteq Nat

VARIABLES pool,
          used,   \* the operations of this program
          at,     \* the call each process is waiting in
          done    \* history: the last call that has been served

channelVars == <<pool, used, at, done>>
vars == <<kernelVars, serviceVars, channelVars>>

-----------------------------------------------------------------------------
NoCall == [call |-> "none"]

\* The calls of a program: what they put into the channel, or how many they take.
Puts == [call : {"push", "push_front"} \cap used, data : [{1} -> Items]]
        \cup UNION {[call : {"write"} \cap used, data : [1 .. n -> Items]] : n \in Batches}
Takes == [call : {"pop", "pop_back"} \cap used, count : {1}, timeout : ChannelTimeouts]
         \cup [call : {"read"} \cap used, count : Batches, timeout : ChannelTimeouts]

Producers == {p \in Processes : at[p].call \in {"push", "push_front", "write"}}
Consumers == {p \in Processes : at[p].call \in {"pop", "pop_back", "read"}}

WaitsIn(s, c) == suspend(s) /\ at' = [at EXCEPT ![CurProcPriority] = c]
Returns == at' = [at EXCEPT ![CurProcPriority] = NoCall]
Serves(name, data) == done' = [call |-> name, data |-> data]

\* pool.push_back, pool.push_front and pool.write
After(c) == CASE c.call = "push" -> push_back(pool, c.data[1])
              [] c.call = "push_front" -> push_front(pool, c.data[1])
              [] c.call = "write" -> write(pool, c.data)

\* pool.pop, pool.pop_back and pool.read, and what they return
Without(c) == CASE c.call = "pop" -> pop_front(pool)
                [] c.call = "pop_back" -> pop_back(pool)
                [] c.call = "read" -> read(pool, c.count)
Taken(c) == CASE c.call = "pop" -> <<FrontItem(pool)>>
              [] c.call = "pop_back" -> <<BackItem(pool)>>
              [] c.call = "read" -> ReadItems(pool, c.count)

\* Faulty variant of Put: wakes a single consumer.
PutWakesOne(c) ==
    /\ pool' = After(c) /\ Serves(c.call, c.data)
    /\ resume_next_ready("Consumers") /\ Returns

Put(c) ==
    /\ pool' = After(c) /\ Serves(c.call, c.data)
    /\ resume_all("Consumers") /\ Returns

Take(c) ==
    /\ pool' = Without(c) /\ Serves(c.call, Taken(c))
    /\ resume_all("Producers") /\ Returns

-----------------------------------------------------------------------------
(* push, push_front and write: the test of their loop and what follows.    *)

\* Faulty variant of PutOrWait: would keep one slot free.
PutOrWaitEarly(c) ==
    \/ /\ get_free_size(pool) <= Len(c.data)
       /\ WaitsIn("Producers", c)
       /\ UNCHANGED <<pool, done>>
    \/ /\ get_free_size(pool) > Len(c.data)
       /\ Put(c)

PutOrWait(c) ==
    \/ /\ get_free_size(pool) < Len(c.data)
       /\ WaitsIn("Producers", c)
       /\ UNCHANGED <<pool, done>>
    \/ /\ get_free_size(pool) >= Len(c.data)
       /\ Put(c)

CallsPut ==
    /\ UserRuns
    /\ \E c \in Puts : PutOrWait(c)
    /\ UNCHANGED <<CurProcPriority, Timeout, isr, NonEmpty, used>>

PutResumed ==
    /\ Resumed /\ CurProcPriority \in Producers
    /\ PutOrWait(at[CurProcPriority])
    /\ UNCHANGED <<CurProcPriority, Timeout, isr, NonEmpty, used>>

-----------------------------------------------------------------------------
(* pop, pop_back and read.                                                 *)

Enough(c) == get_count(pool) >= c.count

CallsTake ==
    /\ UserRuns
    /\ \E c \in Takes :
          \/ /\ Enough(c)
             /\ Timeout' = [Timeout EXCEPT ![CurProcPriority] = IF c.call = "read" THEN 0 ELSE @]
             /\ Take(c)
          \/ /\ ~Enough(c)
             /\ Timeout' = [Timeout EXCEPT ![CurProcPriority] = c.timeout]
             /\ WaitsIn("Consumers", c)
             /\ UNCHANGED <<pool, done>>
    /\ UNCHANGED <<CurProcPriority, isr, NonEmpty, used>>

TakeResumed ==
    /\ Resumed /\ CurProcPriority \in Consumers
    /\ LET c == at[CurProcPriority]
       IN  \/ /\ is_timeouted("Consumers")
              /\ ProcessMap' = [ProcessMap EXCEPT !["Consumers"] = @ \ {CurProcPriority}]
              /\ Continue /\ Returns
              /\ UNCHANGED <<maps, pool, done>>
           \/ /\ ~is_timeouted("Consumers") /\ Enough(c)
              /\ Timeout' = [Timeout EXCEPT ![CurProcPriority] = 0]
              /\ Take(c)
           \/ /\ ~is_timeouted("Consumers") /\ ~Enough(c)
              /\ WaitsIn("Consumers", c)
              /\ UNCHANGED <<Timeout, pool, done>>
    /\ UNCHANGED <<CurProcPriority, isr, NonEmpty, used>>

CallsFlush ==
    /\ UserRuns /\ "flush" \in used
    /\ pool' = flush(pool) /\ Serves("flush", <<>>)
    /\ resume_all("Producers")
    /\ UNCHANGED <<CurProcPriority, Timeout, isr, NonEmpty, used, at>>

-----------------------------------------------------------------------------
(* What else the processes do, and the kernel.                             *)

WakesUp == \E p \in Processes :
    /\ UserRuns
    /\ wake_up(p)
    /\ UNCHANGED <<CurProcPriority, isr, serviceVars, channelVars>>

\* sched() returns to a call that has nothing more to do.
CallReturns ==
    /\ Resumed /\ at[CurProcPriority] = NoCall
    /\ SchedReturns
    /\ UNCHANGED <<serviceVars, channelVars>>

Sleeps == \E t \in Timeouts :
    /\ UserRuns
    /\ sleep(t)
    /\ UNCHANGED <<CurProcPriority, isr, serviceVars, channelVars>>

KernelStep == (Run \/ SysTick_Handler \/ PendSV_Handler) /\ UNCHANGED <<serviceVars, channelVars>>

\* Buf is not initialised: any items may be in it.
Init ==
    /\ KernelInit
    /\ ProcessMap = [s \in Services |-> {}]
    /\ NonEmpty = <<>>
    /\ pool \in [Count : {0}, First : {0}, Last : {0}, Buf : [Slots -> Items]]
    /\ used \in Programs
    /\ at = [p \in Processes |-> NoCall]
    /\ done = [call |-> "none", data |-> <<>>]

Next ==
    \/ KernelStep
    \/ CallsPut \/ PutResumed \/ CallsTake \/ TakeResumed \/ CallsFlush
    \/ Sleeps \/ WakesUp \/ CallReturns

Spec == Init /\ [][Next]_vars

-----------------------------------------------------------------------------
(* Correctness.                                                            *)

ChannelTypeOK ==
    /\ ProcessMap \in [Services -> SUBSET Processes] /\ NonEmpty = <<>>
    /\ pool \in Buffers /\ pool.Count <= Size /\ pool.First < Size /\ pool.Last < Size
    /\ used \in Programs
    /\ at \in [Processes -> {NoCall} \cup Puts \cup Takes]

Asleep(p) == p \notin ReadyProcessMap

(* Nobody waits for what is there: no producer sleeps while its items fit, and
   no consumer while the channel holds as many as it has asked for, whatever
   the others have taken since they were woken and whoever timed out. *)
NoIdleWaiter ==
    /\ \A p \in Producers : Asleep(p) => Len(Contents(pool)) + Len(at[p].data) > Size
    /\ \A p \in Consumers : Asleep(p) => Len(Contents(pool)) < at[p].count

(* A producer and a consumer wait for each other only if they have asked for
   more than a full channel and one item between them.  Then, as with a write and
   a read of the full channel while it holds one item, they may wait for ever;
   with less, as with a push against a read of all of it, they never do. *)
NoStandstill ==
    \A p \in Producers, q \in Consumers :
        Asleep(p) /\ Asleep(q) => Len(at[p].data) + at[q].count > Size + 1

(* The comments at os_services.h:446 and 531, "suspend current process until
   data received or timeout": a consumer that has asked for a timeout and
   sleeps has one running. *)
TimeoutRuns ==
    \A p \in Consumers : Asleep(p) /\ at[p].timeout > 0 => Timeout[p] > 0

(* The channel is a queue of at most Size items with two ends, whichever way
   its calls wait and its indices wrap. *)
Queue == INSTANCE BoundedQueue WITH items <- Contents(pool)
QueueSpec == Queue!Spec
=============================================================================
