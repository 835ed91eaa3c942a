# Verification of USBEncoder

USBEncoder is the firmware of a volume knob on an STM32F103: a rotary encoder
counts in timer 8, a process of the scmRTOS kernel reacts to its ticks, and an
interrupt-driven USB stack answers a host on the default control pipe.  This
directory holds TLA+ models of that code, the TLC configurations that check
them on small instances, and TLAPS proofs of what matters most for every
instance.

Paths below are relative to `src/` of the repository (`src/usb.cpp`), scmRTOS is
`src/3rdParty/scmRTOS`.

Contents: [the system](#the-system), [modules](#modules-and-how-they-correspond-to-the-code),
[runs](#runs), [disagreements found](#disagreements-between-code-and-documentation),
[proofs](#proofs), [what is not modelled](#what-is-not-modelled),
[plan](#plan).

## The system

| part | state | operations | interacts with |
| --- | --- | --- | --- |
| endpoint registers (`usbHwRegs.hpp`) | EPnR, packet buffer table | the accessors of `EndPointReg`, `PacketBufTableCountRxReg::SetMaxSize` | writes race with the USB peripheral, which changes the same bits |
| control pipe (`usb.cpp`, `usb.hpp`) | members of `g_defaultControlPipe`, `g_devAddress` | `Reset`, `OnInTransferComplite`, `OnOutTransferComplite`, `OnSetupTransferComplite`, `GoToStage`, `SendData`, `GetDescriptor` | called by the interrupt handler; calls the accessors and the descriptor lookups |
| USB interrupt (`usb.cpp`) | ISTR, DADDR | `USB_LP_CAN1_RX0_IRQHandler`, `OnCorrectTransfer` | raised by the peripheral, drives the control pipe |
| descriptors (`UsbDevice.cpp`, `usbdefs.hpp`) | constants | lookups by index | called by `GetDescriptor` |
| interrupt endpoints (`Pipes.cpp`) | buffer layout | `InitIN`, `InitOUT`, `SendIterruptData` | not instantiated by the program |
| encoder application (`USBEncoder.cpp`) | `g_event`, the outputs | `TIM8_UP_IRQHandler`, `USBCtrlProc::exec`, `main` | posts to and waits for a message of the kernel |
| kernel (scmRTOS `core/os_kernel.*`, `port/cortex/mx-gcc`) | current and scheduled process, ready map, interrupt nesting, timeouts | `sched`, `sched_isr`, `sleep`, `wake_up`, `force_wake_up`, `system_timer`, `TISRW`, PendSV, `OS::run` | called by processes, services and handlers |
| services (scmRTOS `core/os_services.*`) | maps of waiting processes, mutex owner, message flag, channel buffers | `TService`, `TMutex`, `TEventFlag`, `TChannel`, `channel`, `TBaseMessage` | suspend and resume processes of the kernel |
| ring buffers (scmRTOS `core/usrlib.*`) | indices and count | `push`, `pop`, `read`, `write`, ... | behind the channels |
| recursive mutex (scmRTOS `ext/recursive-mutex`) | owner, nesting count, map of waiters | `lock`, `unlock`, `try_lock` | suspends and resumes processes like a mutex |
| other extensions (scmRTOS `ext/`) | round-robin map, profile counters | | not used by the program |
| `thread` | none | `sleep_for`, `sleep_until` | converts durations into ticks |
| start-up, clocks, vendor headers | | | straight-line initialisation |

The USB stack runs entirely in its interrupt handler and shares nothing with
the kernel; the application and the kernel share the maps and the message.
The models follow this division.

What is hard in it:

* **Registers two sides write.**  The status and toggle bits of EPnR can only be
  inverted by writing 1, its CTR bits only cleared by writing 0, and every
  accessor is a read followed by a write of the whole register.  The peripheral
  may change it in between.
* **An implicit protocol.**  The pipe's stage (`m_transferState`) must follow what
  the host does through packets, lost handshakes, aborted transfers, requests
  nobody knows and bus resets; the address must change after the status stage
  and not before.
* **Pointer arithmetic on packets.**  `m_data` and `m_remainLen` move by whole
  packets, lengths are `uint16_t`, and `WritePMA` copies whole half-words.
* **A deferred context switch.**  `sched()` only requests PendSV and waits with
  interrupts enabled; every interrupt may overtake it, wake the very process that
  is going to sleep and schedule again.
* **Waking up.**  A sleep ends by its timeout, a wake-up or a service, and who
  ended it is told from a bit in a map of waiters.
* **Being woken is not being served.**  `unlock` frees the mutex and wakes one
  process, a channel wakes all its waiters; whoever runs first takes what there
  is, and the others have to test again.  A wake-up spent on a process that does
  not use it may be missing for another.
* **Indices that wrap.**  A ring buffer moves at both ends and by batches, its
  indices wrap at the size and count in a type that wraps elsewhere.
* **A handler outside the kernel's rules.**  `TIM8_UP_IRQHandler` sends a message
  without an `OS::TISRW`, also before `OS::run()`, and overwrites the last value.

Correctness, part by part: the *accessors* leave what they are asked for, touch
nothing else and lose no event; the *pipe* sends a descriptor whole, once and in
order, reads nothing beyond it, never writes a packet buffer the peripheral is
sending, agrees with the host on the address, ends every transfer and recovers
from every reset; the *kernel* lets no sleeper run, switches only to ready
processes, ends every sleep and gives the processor to the highest process; the
*application* notices each tick that the message can hold, toggles no output
without a tick and shows the last one; the *locks* have one owner and lose no
unlock and no signal; the *channel* is a bounded queue in which nobody waits for
what is there.  `PROJECT.json` lists the single hazards
with their lines.

## Modules, and how they correspond to the code

```
EndpointReg <- ControlPipe <- UsbBus   <- UsbBusInvariants <- UsbBusMC
                                          UsbBusInvariants <- UsbBus_proofs
                              UsbBus implements ControlTransfer
EndpointReg <- EndpointReg_proofs <- UsbBus_proofs
Kernel      <- Services    <- Encoder  <- Encoder_proofs
                           <- Locks    <- Locks_proofs
               Services, RingBuffer <- Channel <- Channel_proofs
                                       Channel implements BoundedQueue
Kernel      <- KernelMC,  Kernel_proofs <- Services_proofs (under the proofs above)
RingBuffer  <- RingBuffer_proofs
```

**EndpointReg** (`usbHwRegs.hpp`, the masks of `stm32f103xe.h`).  A register is
the set of its bits that are 1.  Each accessor is an operator from the value it
read to the value it writes; `HwWrite(r, v)` is what the register becomes when v
is written while it holds r (write-1-to-invert, write-0-to-clear, plain bits),
which is the documented behaviour of the peripheral and external to the code.
`SetMaxSize` is the encoding of COUNTn_RX with its blocks of 2 and 32 bytes.

**ControlPipe** (`usb.cpp`).  `pipe` is the object, `epr`, `daddr`,
`istrReset`, `tx` and `rx` are the registers and packet memory it shares with the
peripheral.  A handler is *not* one step.  The part that touches only members is
one action; it appends to `todo`, in program order, the accesses to shared
registers that this path of the code makes, and these are executed one by one,
each accessor as a read (`RegRead`, which keeps the value in `latched`) and a
write (`RegWrite`).  Two readings are taken together: `ClearTxDTOG` and
`ClearRxDTOG` read EPnR to test the toggle and again to write it, and the handler
reads ISTR for its loop and again for RESET, a few cycles later.  For that to matter
a bus reset would have to be reported between the two readings of an accessor of
`Reset()`, or a SETUP and then a bus reset between those of ISTR; a reset is reported
only after 2.5 us without a packet.  `DispatchIn`, `DispatchSetup`, `DispatchOut` and
`DispatchReset` are the branches of the interrupt handler.  Descriptors are
names with a size; the two lookups that end without a `return` give any length
in `UninitLens`; `__BKPT(14)` goes on with a debugger and halts without one.

**UsbBus** adds the peripheral (`HwSetup`, `HwIn`, `HwOut`, `HwReset`) and a host
that makes GET_DESCRIPTOR, GET_STATUS, SET_ADDRESS and unknown requests, loses
handshakes, gives up, breaks into transfers and resets the bus.  Both are external
and follow the reference manual as far as the code relies on it.  `host.data`,
the packets with data a host has received in the transfer, is a history variable.

**ControlTransfer** is what the control pipe promises a host: the answer to a
request is a sequence of packets (full ones, but for the last) that arrive in order
and whole before the status stage; an address counts from the status stage of
its request; a request the device does not know is never answered.  It knows no
registers, toggles, repeated packets or handlers.  `UsbBus!TransferSpec` states the
refinement, with the host's fields for the variables: everything the firmware
does, a packet the host drops and an empty last packet are stutters or change the
stage only.  In `TransferSpec` any transfer may fail; in `ReliableTransferSpec`
only one whose request is unknown.

**UsbBusInvariants** holds the inductive invariants behind the properties of
`UsbBus`.  They name the points of a handler by what is left of `todo` (`AtRx`:
before the first status write of `GoToStage`, `AtTx`: before the second, ...) and
say what register, host and pipe may hold there.  `Accounted` and `LeftInv` follow
what a bus reset does not repair.

**Kernel** (`os_kernel.h`, `os_kernel.cpp`, `os_target.*`).  Process maps are
sets of priorities, that is, words as the sets of their bits that are 1; the port
numbers processes in descending order, so the idle process is 0, and
`highest_priority` is 31 less the leading zeros (`clz`, external) of a word of 32
bits.  An operation under a `TCritSect` is one action.  Not atomic are the
wait of `sched()` (from `scheduler`, which puts the process into `switching`,
over `PendSV_Handler` to `SwitchDone`) and handlers with an `OS::TISRW` (entry,
body, exit).  SysTick and a device are modelled, the device interrupts SysTick
and everything else; PendSV has the lowest priority, so a process runs only when
none is active or pending (`ProcessRuns`).  `KernelNext` is the most general
use: processes that sleep with any timeout and wake each other, and a device that
wakes any process.  `CurProcPriority` is not `volatile`, and neither
`enable_interrupts` nor `disable_interrupts` is a compiler barrier; but while a
process executes, the variable always holds this process, so that a compiler
which keeps it in a register in the loop of `sched()` changes nothing.

**Services** (`os_services.*`).  `TService`: `suspend`, `is_timeouted` and the
four ways to resume waiters; `Continue` and `reschedule` say what becomes of the
process that calls them, which may itself just have left the loop of `sched()`.
The message and the event flag: `wait` in its two critical sections
(`WaitNonEmpty`, or `WaitSuspends` and later `WaitReturns`), the senders and
`reset`/`clear`.  Both classes are the same code on one flag.

**Locks** (`TMutex`, `TRecursiveMutex`, `TEventFlag`).  Every process but the idle
one may at any time lock or try to lock with a timeout, one mutex at a time (a
recursive one again up to `MaxNest`), unlock (also what it does not own), wait,
signal, clear, sleep and wake others; a handler signals and unlocks what an
owner has left to it.  A call is cut where it waits: `CallsLock` goes up to
the loop of `sched()`, `LockResumed` from there to the next wait or the end.  `at`
is the call a process is in, `holds` (how often it has locked without unlocking) is
a history variable that knows nothing of `ValueTag`.  `used` fixes the services of
a program at the start.

**RingBuffer** (`usrlib.h`, `usrlib.cpp`) are operators on the record of the
members, with indices that count modulo `SMod`.  `write` and `read` are the closed
form of the loops over `push_item` and `pop_item`.

**Channel** (`channel`) puts the buffer between producers and consumers.  `TChannel`
has the same calls for bytes, without timeouts, but its constructor
(`core/os_services.h:265`) leaves both maps of waiters uninitialised: only where the
object is in zeroed memory does it start as `Init` says.  Nothing in the program makes
one.  `PutOrWait`, `CallsTake` and `TakeResumed` are the
loops of the calls, each turn a critical section; `done` records the last call
that was served.

**BoundedQueue** is what a channel promises: a sequence of at most Size items, to
which a call adds all its items, or from which it takes all it asks for, at once.
`Channel!QueueSpec` states the refinement, with the contents of the ring buffer for
`items`: waiting, being woken, overtaken and timed out are stutters.

**Encoder** (`USBEncoder.cpp`) is the program: the kernel with `USBCtrlProc` and
the idle process, the message `g_event`, the handler of timer 8 without a `TISRW`
at any time after `TimInit`, and `exec` with its two readings of the message as
steps of their own.  `ticks`, `toggles` and `shown` are history variables.

Definitions called "Faulty variant of ..." are plausible bugs; no
specification uses them.  Each is put in the place of the definition it varies to
see that the properties notice.

## Runs

`tlc -config <run>.cfg <module>.tla`

| run | module | checks | question |
| --- | --- | --- | --- |
| enumeration | UsbBusMC | AddressAgreement, RegistersMatchStage, OnlyIgnoredFails, AddressInv, ServedInv, ReliableTransferSpec, TransferEnds | does enumeration with the real sizes work, for every order of requests? |
| small_packets | UsbBusMC | TypeOK, ReadInv, CalmInv, PieceInv, TransferSpec, NextPiece, NoEventLost | do descriptors of several packets arrive whole when handshakes get lost? |
| bus_resets | UsbBusMC | NoOverread, TxInv, TxBufferStable, ResetRestores, OnlyStatusStageLeft, ResetRecovers | what do resets, aborted and back-to-back transfers do? |
| stale_address | UsbBusMC | AddressAgreement (violated) | is an address forgotten when the bus is reset? |
| whole_packets | UsbBusMC | StatusOutTaken (violated) | does a transfer of whole packets end? |
| back_to_back | UsbBusMC | StatusSwitched (violated) | does SetTxStatus always set the status? |
| kernel | KernelMC | KernelTypeOK, SleepersStop, KernelInv, SleepEnds, HighestRuns | is the scheduler sound and live under interrupts? |
| preemption | KernelMC | Preemptive (violated) | does a higher process always preempt a lower one? |
| encoder | Encoder | NoLostWakeup, NoSpuriousToggle, LastTickShown | are ticks neither lost nor invented? |
| locks | Locks | LocksTypeOK, MutualExclusion, NoLostUnlock, NoSleepOnEvent, HandOver | do mutexes and event flags keep their promises under timeouts, wake-ups and handlers? |
| channel | Channel | ChannelTypeOK, NoIdleWaiter, NoStandstill, QueueSpec | is a channel a queue, does nobody wait for what is there, and when can both sides wait for each other? |
| channel_timeout | Channel | TimeoutRuns (violated) | does a consumer that waits with a timeout always have one running? |

**Bounds, and why they are enough.**  *Packets:* the code has one packet size, 64,
with which no descriptor needs two packets; `enumeration` uses it with the real
sizes (18 and 44 bytes), the others 8 bytes with descriptors of 18 (a short last
packet) and 24 bytes (whole packets and the zero-length packet), so every branch
of `OnInTransferComplite` is taken.  *Requests:* one for each outcome of
`OnDeviceRequest` and `GetDescriptor`, with wLength below, at and above the size
and 0.  *MaxResets* 2: one reset starts enumeration, one interrupts it anywhere;
`enumeration` itself has the first only, since a second one leads to the
disagreement of `stale_address`.  *MaxLost* 2: a packet is repeated, and repeated
again; 1 in `bus_resets`, where the lost handshake of the last packet leaves the
pipe deaf to the status stage until the bus is reset.  *MaxAborts* 1.
*DebuggerAttached* is TRUE in `enumeration` and `bus_resets`, FALSE in
`small_packets`.  *PROCESS_COUNT* 4: the idle process, a sleeper, one above
and one below it.  *SomeTimeouts* {0, 1, 2}: none, the next tick, and one that
outlives a tick.  *MaxTicks* 4: one tick before the process runs, one that
wakes it, and two that fall between its readings.  *Locks*: with three processes
besides the idle one there is an owner, one that has been woken for the mutex and
one that overtakes it; LockTimeouts {1}, so that expiry and unlock race in
every order; *MaxNest* 2; a program uses one service, since they share nothing but
the kernel.  *Channel*: *Size* 2 and *SMod* 3, an index type that Size fills;
batches of 1 and 2, so that two of them may exceed the channel, neither side is
served by every wake-up, and a write and a read of 2 each, which ask for more than
Size + 1 between them, do come to wait for each other; two items, to tell orders
apart; two programs that between them use every operation; timeouts 0 and 1.  *SMod* stands for 256, the proofs are for
every value.  The counters of the bounds are
the only reason the models of `UsbBus` stop (hence `CHECK_DEADLOCK FALSE`
there); the kernel, the locks and the channel never do.

**Fairness.**  `UsbBus!FairSpec`: the interrupt handler continues while it has
something to do (it runs to its end and its interrupt stays pending until then),
and a host that began a transfer goes on polling or gives up; nothing is assumed
about resets, aborts or new transfers.  `KernelFairSpec`: weak fairness for
`OS::run`, the return from `sched()` and the handler of the device, which end by
themselves.  Strong fairness for PendSV and the three steps of SysTick, which
other interrupts can hold off; the assumption is that they do not do so for ever,
a few cycles against a period of 72000.  Nothing forces a process to sleep or to
wake anyone.  `Encoder!FairSpec` adds strong fairness for the steps of `exec`: a
process that has the processor again and again goes on.  No fairness is assumed
of ticks of the encoder.  `Locks!FairSpec` assumes of the kernel what
`KernelFairSpec` does, and of each process that it does not keep the processor for
ever: when it runs again and again, it sleeps some time, and goes on in a call
that it has been resumed in.  Nothing forces anyone to lock, unlock or signal.
`HandOver` is checked with three processes.  With more of them, some could sleep
and be woken in turn so that PendSV always goes to another one than the process
that unlock has woken; a pre-emptive kernel promises nothing to a process that
higher ones never leave the processor.

Three liveness results need explaining.  `ResetRecovers`, and all of `enumeration`,
is about a device with a debugger attached: without one a request the device does
not serve ends at `__BKPT(14)` in HardFault, from which no bus reset recovers.
`HighestRuns` holds although
`Preemptive` does not: a lost switch is made good by the next tick at the
latest.  `LastTickShown` likewise depends on SysTick, since the timer's handler
wakes the process but does not ask for a switch.

## Disagreements between code and documentation

1. *stale_address.*  `ControlPipe::Reset` does not clear `g_devAddress`
   (`src/usb.cpp:79-95`).  After a reset between the SETUP of a SET_ADDRESS and
   its status stage, the first IN packet of the next enumeration moves the device to
   the old address ("SET_ADDRESS perform processing after status stage",
   `src/usb.cpp:330`).
2. *whole_packets.*  When the host has received exactly the wLength bytes it asked
   for and these are whole packets, the code still waits to send a zero-length
   packet and refuses the status stage.  The packet sizes 8, 16 and 32 that
   `usbHwRegs.hpp` allows make this an ordinary case; with 64 no descriptor is
   long enough.
3. *back_to_back.*  A SETUP that arrives between the read and the write of
   `SetTxStatus` makes its toggles produce another status than the requested one.
4. *preemption.*  `sched_isr` (`core/os_kernel.h:576-584`) does nothing when the
   highest ready process is the current one, although a switch away from it may be
   pending.  A process that is going to sleep and is woken by a handler in the
   window of `sched()` is switched away from nevertheless, and a lower process runs
   while it is ready.
5. *channel_timeout.*  `pop`, `pop_back` and `read` set their timeout once, before
   the loop that suspends ("suspend current process until data received or timeout",
   `core/os_services.h:446`).  A consumer woken for an item goes on counting while
   it is ready; when its timeout has run out and another process has taken the item,
   it suspends again with a timeout of 0, which is none.  `TMutex::try_lock` sets
   it anew in each turn: there every wait has its timeout, but a call that is
   overtaken again and again takes longer than asked for.

Without a run of its own: the comment at `src/usb.cpp:224` says "stall" of a request
with an unknown recipient; the code stops at a breakpoint (with which `Breakpoint`
models it) and leaves both directions at NAK.
And `small_packets` with BackToBack = TRUE violates NoEventLost and NextPiece:
ClearTxCTR and ClearRxCTR write the other direction's CTR bit back as they read it,
and a packet that ends in between is never reported.  No source claims the
contrary, which is why no run expects it.

## Proofs

`tlapm <module>.tla`; everything is proved without assumptions other than the
named ones on the constants (`PipeAssumption`, `BusAssumption`,
`KernelAssumption`, `EncoderAssumption`, `LocksAssumption`, `RingAssumption`,
`ChannelAssumption`), which say what the code fixes at compile
time or what the types hold.

**EndpointReg_proofs** is about single accessors, for every content of the
register and every change the peripheral makes between read and write.
`SetTxStatusExact` and `SetRxStatusExact`: the status is the requested one if
and only if the peripheral has not changed it meanwhile (finding 3 is the other
half).  `StatusAccessorsFrame`: nothing else changes.  `EventsSurvive`
says of each of the ten accessors what becomes of the notice of a transfer that
completes between its read and its write.  Seven keep it; `ClearTxCTR` and
`ClearRxCTR` drop that of the other direction, `SetType` drops either (a SETUP
that comes between the read and the write of `ClearTxCTR` is dropped by it; the
model contains this, and `ResetRecovers` says that the bus reset is a way out;
`SetType` is used in `Reset()`, where the function is not enabled yet and nothing
can complete, and by the interrupt endpoints that nothing instantiates).
`ClearDTOGExact`, and `SetMaxSizeCapacity` for the encoding of buffer sizes.

**UsbBus_proofs**, for every packet size, descriptor table and set of requests.

*For any host*, that is, with resets, aborted and back-to-back transfers and lost
handshakes in any number:
`TypeCorrect` (`Spec => []TypeOK`), `NeverOverreads` (`Spec => []NoOverread`),
`ReadInvHolds`, `TxInvHolds`, `TxBufferKept` (`Spec => TxBufferStable`),
`RestoreInvHolds` and `ResetReady` (`Spec => ResetRestores`), `LeftInvHolds` and
`StatusStageLeft` (`Spec => OnlyStatusStageLeft`).

* That the last packet stays inside its descriptor is not inductive: the packet
  was chosen by an earlier step of the handler, and its length by the arithmetic of
  all packets before it.  `ReadInv` adds that the rest still to be sent lies
  inside its source at an even offset (`RestInSource`; half-word copies of an odd
  length would otherwise read over the end) and that every `WritePMA` still in
  `todo` is good (`GoodOp`).
* That the packet buffer is written only while the transmitter is closed depends on
  how the handler came to the copy.  `TxInv` tells five situations apart -- stopped,
  cold, live, interrupted by a bus reset, in the handler of a reset -- and in each
  says for every point of a handler what STAT_TX and CTR_TX may be.  The hard one
  is a handler that goes on after the peripheral has reset the register under it:
  its toggles then yield some status, and what saves the buffer is that the bus
  is silent until the handler of the reset has run.
* `RestoreInv` is the same for that handler: what each of its accesses has put
  right, no later one disturbs.  `ResetReady` concludes that, when the function is
  enabled, all that `Reset()` touches is as it must be for a SETUP: members, DADDR,
  type, status bits and transmit toggle.  That the handler gets there is liveness
  (`ResetRecovers`).
* `Reset()` touches neither KIND nor `g_devAddress`.  `LeftInv` accounts for both at
  every point of a handler: KIND, in the register or in a value read from it, belongs
  to a status OUT stage or to a handler about to clear it, an address to a status
  IN stage or to a handler about to apply it.  `OnlyStatusStageLeft` concludes what
  a bus reset can leave behind: KIND where it has cut off a status OUT stage, an address
  (disagreement 1) where it has cut off the status IN stage of a SET_ADDRESS, and
  nothing otherwise.  This holds up to the second reset; what that one leaves is still
  there in a stage to which it does not belong when a third one comes.

*For a host that takes turns* (BackToBack = FALSE, MaxAborts = 0: the next SETUP
comes when the handler has ended, and no SETUP breaks into a transfer):
`CalmInvHolds` and `NoticesKept` (`Spec => NoEventLost`); with requests that are
`Answerable` also `PieceInvHolds`, `NextPieceSent` (`Spec => NextPiece`) and
`PipeKeepsPromise` (`Spec => TransferSpec`), all with any number of lost handshakes
and bus resets.

* `CalmInv` says which notices can be pending at each point: one at a time, and the
  one the handler works on is the one it has read.  A write that puts the CTR
  bit of the other direction back as 0 then has nothing to lose.
* `PieceInv` relates host and pipe through the toggles: what is open for a host in
  the data stage is the next piece with the toggle it expects, or the last one with
  the other toggle, because its acknowledgement was lost.  `AnswerInv` adds that the
  packets received are the first of the answer, which is what the refinement
  needs to end the data stage only when the answer is whole.
* `Answerable` leaves out two requests whose answer has no length the host could
  count with: lookups that return nothing (`NoReturn`), and GET_STATUS with a
  wLength below 2, to which `OnDeviceRequest` sends two bytes all the same.

*For such a host, until the second bus reset* (MaxResets <= 1: the one that starts
enumeration): `AddressInvHolds` and `AddressAgrees` (`Spec => []AddressAgreement`);
and, where no handshake is lost and each request is `Servable`, `ServedInvHolds`,
`RegistersMatch` (`Spec => []RegistersMatchStage`), `ServedSucceed`
(`Spec => []OnlyIgnoredFails`) and `PipeReliable` (`Spec => ReliableTransferSpec`).

* `AddressInv` follows a SET_ADDRESS from the host over `g_devAddress` to DADDR.
* `ServedInv` is a transfer that goes well, situation by situation: from the SETUP
  (`Asked`) over the three writes of `GoToStage` (`Opening`), the open packet
  (`Open`), the packet taken (`Taken`) and the status packet (`Closing`) back to
  the next SETUP (`Rewinding`, `Waiting`).
* `Servable` leaves out what `Answerable` does, answers that are whole packets of
  exactly wLength bytes (disagreement 2), and without a debugger the requests that
  stop at a breakpoint.

None of these hypotheses can be dropped; TLC finds a counterexample for each.  With one
aborted transfer NoEventLost, NextPiece, AddressAgreement and RegistersMatchStage fail, with
back-to-back transfers NoEventLost, NextPiece and TransferSpec.  With a second bus
reset AddressAgreement fails (disagreement 1), with it OnlyIgnoredFails, since the
device no longer listens at address 0; and RegistersMatchStage, since a reset
between the read and the write of `SetStatusOut` leaves KIND set (which matters
only to OUT packets with data).  With a lost handshake of the last
data packet the receiver is still NAK when the host wants to send its status
packet: the host fails, and OnlyIgnoredFails with it.

**Kernel_proofs**, for every number of processes up to 32 and every set of
timeouts: `HighestPriority` (31 - clz of a ready map is its greatest member; by
well-foundedness of the numbers there is a least n with bit 31 - n set, which is the
number of leading zeros), `KernelTypeCorrect`, `SleepersNeverRun`
(`KernelSpec => []SleepersStop`), `SchedSound` and `KernelInvHolds`.
"No sleeper runs" is not inductive: a process that has left the ready map is
current until PendSV is taken, so `KernelInv` says that every process that is not
ready is inside `sched()` and, if current, its switch is pending; that a pending
switch goes to a ready process and that, without one, the process inside `sched()`
is the scheduled one; that the idle process is ready (so that `clz` is never asked
about 0); and what holds before `OS::run()`.  `SchedulerKeeps` and
`IsrExitKeeps` are the two ways to schedule.

**Encoder_proofs**, for every number of ticks: `TicksAreNoticed`
(`Spec => []NoLostWakeup`) and `TogglesAreTicks`
(`Spec => []NoSpuriousToggle`).  The invariant of the kernel carries over,
since each step of the application is one of the kernel or one that the lemmas
about it cover.  `EncoderInv` adds that the map of waiters holds the process exactly
when it is not ready, and counts: toggles, the message that waits and the wake-up
not yet dealt with have each a tick of their own.

**RingBuffer_proofs**, for every size below what the index type counts to: each
operation does to the contents what its sequence operator does
(`PushBackAppends`, `PushFrontPrepends`, `PopFrontTakesHead`, `PopBackTakesLast`,
`WriteAppends`, `ReadTakesFirst`, `FlushEmpties`) and keeps the buffer
consistent, that is, Last is Count steps behind First; `FreeSizeExact`.
`IndexExact` and `IndexWraps` are about `operator[]`, which nobody calls: with
an index type of 8 bits it is right for at most 128 slots and wrong in some state
of every larger buffer.

**Services_proofs** has no theorem that is a result of its own: its lemmas say what
`suspend`, the ways to resume and a return do to `KernelInv` and to the
relation between maps of waiters and ready map, for the two proofs that follow.

**Locks_proofs**, for any number of processes, mutexes, flags, programs and
timeouts: `LocksTypeCorrect`, `Exclusive` (`Spec => []MutualExclusion`),
`UnlockNotLost` (`Spec => []NoLostUnlock`) and `EventNotMissed`
(`Spec => []NoSleepOnEvent`).  The invariant adds to these the one of the kernel; that the
owner, the nesting count and what processes have locked agree, and a mutex left to
the device is locked (`OwnInv`); and how a process waits: inside `sched()`, in the
map of the service its call is for and in no other, in `lock` never with a
timeout (`WaitInv`).  `NoLostUnlock` is inductive with that: a woken process leaves the map of
waiters when it is chosen, stays ready until it tests the mutex, and goes back to
sleep only if it finds it locked.

**Channel_proofs**, for any number of processes, any size, batches and timeouts:
`ChannelTypeCorrect`, `IdleNever` (`Spec => []NoIdleWaiter`), `StandstillNever`
(`Spec => []NoStandstill`), and `ChannelIsQueue` (`Spec => QueueSpec`): the
initial states map to the empty queue and every step to one of the queue or to a
stutter, by the theorems of RingBuffer_proofs.  The invariant: the buffer is
consistent, each process that is not ready is in the map of its side if it is in a
call, and whoever sleeps lacks room or items.  Every change of the buffer
wakes the other side whole, which is why the last part is inductive; with a single
wake-up it is false (`PutWakesOne`).

Only model-checked: the liveness properties (TransferEnds, ResetRecovers,
SleepEnds, HighestRuns, LastTickShown, HandOver), because the proof system handles
neither ENABLED nor fairness here.  Every safety and action property of a passing run is
a theorem, some of them for fewer hosts than the model has, as said above.
No property needs induction over data: `write` and `read` are closed forms for
that reason.

## What is not modelled

* `InterruptPipe`: defined, never instantiated, and no other endpoint is enabled.
* Process restart, suspended start, nested critical sections, tick counter, user
  hooks, debug and profiling: switched off or without effect on scheduling.
* Stack frames and the saving of registers: outside what TLA+ can say usefully.
* Content of descriptors; suspend, wake-up and SOF interrupts (commented out).
* Start-up code, clocks, GPIO set-up, exception handlers, vendor headers.
* `force_wake_up` of a process that waits in a mutex or a channel (Kernel has it for
  sleepers): its bit stays in the map of waiters, and no source says what should
  follow.  `TScopedLock`, `is_locked`, `is_signaled` and `get_count` for users:
  no state of their own.
* Round robin (needs hooks that the configuration switches off), the profiler, and
  the `thread` header, which converts durations (one below a tick becomes a sleep of
  0 ticks, that is, without an end).
* Of the lines of the repository about four fifths are vendor headers (register
  names, compiler intrinsics, the declarations of a signal-processing library)
  and the vector table.  They have no behaviour to model.

## Plan

What is left, in order of importance.

1. A weaker promise for hosts that abort transfers: what the pipe does then until
   the bus is reset, and the proof that every reset ends it.
2. `force_wake_up` in Locks and Channel, with a statement of what it may break.
3. Round robin on the kernel, `sleep_for`, and `InterruptPipe`, should
   the program come to use them.
