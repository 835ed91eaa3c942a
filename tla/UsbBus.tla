-------------------------------- MODULE UsbBus --------------------------------
(***************************************************************************)
(* The control pipe on the bus: the firmware of ControlPipe, the USB       *)
(* peripheral that turns tokens into register events, and a host that      *)
(* makes control transfers, gives up, resets the bus and loses handshakes. *)
(* Peripheral and host are not code of the repository: they are modelled   *)
(* from the registers as usb.cpp and usbHwRegs.hpp use them.               *)
(***************************************************************************)
EXTENDS ControlPipe

CONSTANTS MaxResets,   \* bound: bus resets, the one that starts enumeration included
          MaxAborts,   \* bound: SETUPs sent before the transfer in progress ended
          MaxLost,     \* bound: handshakes of the host the device does not receive
          BackToBack   \* the host may begin a transfer while the handler still ends the last

ASSUME BusAssumption == {MaxResets, MaxAborts, MaxLost} \subseteq Nat /\ BackToBack \in BOOLEAN

VARIABLES host,    \* phase of the transfer, address, request, bytes and packets received, data toggle
          budget   \* how many resets, aborts and losses there have been

vars == <<pipeVars, hwVars, host, budget>>

Phases == {"Reset", "Idle", "Failed", "DataIN", "StatusIN", "StatusOUT"}
Hosts == [phase : Phases, addr : Addresses, req : Requests, got : Nat, data : Seq(Packet), tog : {{}, DTOG_TX}]

-----------------------------------------------------------------------------
(* The peripheral.                                                         *)

Reached == daddr.ef /\ daddr.add = host.addr

\* A control endpoint answers SETUP unless it is disabled or has one pending.
AcceptsSetup == /\ Reached
                /\ RxStatus(epr) # DIS
                /\ epr \cap T_FIELD = CTRL /\ epr \cap EA = {}
                /\ ~Pending(CTR_RX)

HwSetup(r) ==
    (r \ (EPRX_STAT \cup EPTX_STAT))
        \cup {RxBit(i) : i \in NAK} \cup {TxBit(i) : i \in NAK}
        \cup CTR_RX \cup SETUP \cup DTOG_RX \cup DTOG_TX

HwIn(r) == Xor(r \ EPTX_STAT, DTOG_TX) \cup {TxBit(i) : i \in NAK} \cup CTR_TX

HwOut(r) == (Xor(r \ EPRX_STAT, DTOG_RX) \ SETUP) \cup {RxBit(i) : i \in NAK} \cup CTR_RX

\* A bus reset clears the register but for a completed transfer.
HwReset(r) == r \cap (CTR_RX \cup CTR_TX)

-----------------------------------------------------------------------------
(* The host.                                                               *)

\* Not in a transfer.
Free == host.phase \in {"Reset", "Idle", "Failed"}

\* The handler has returned and no interrupt is pending: only the host can act.
Quiet == halted \/ (todo = <<>> /\ ~Pending(CTR_RX) /\ ~Pending(CTR_TX) /\ ~istrReset)

FirstPhase(r) == IF r.kind \in {"GetDescriptor", "GetStatus"} /\ r.wLength > 0
                 THEN "DataIN" ELSE "StatusIN"

SendSetup(r) ==
    /\ AcceptsSetup
    /\ epr' = HwSetup(epr)
    /\ rx' = r
    /\ host' = [host EXCEPT !.phase = FirstPhase(r), !.req = r, !.got = 0, !.data = <<>>,
                            !.tog = DTOG_TX]
    /\ UNCHANGED <<pipeVars, daddr, istrReset, tx>>

\* A host gives an address only to a device that has none.
Allowed(r) == r.kind = "SetAddress" => host.addr = 0

\* The signalling of a bus reset lasts 10 ms, its handler some microseconds.
HostSetup ==
    /\ Free
    /\ Quiet \/ (BackToBack /\ host.phase # "Reset")
    /\ \E r \in Requests : Allowed(r) /\ SendSetup(r)
    /\ UNCHANGED budget

\* The SETUP of a new transfer while another one is under way; with the same
\* request, the repetition of a SETUP whose handshake was lost.
HostAbort ==
    /\ ~Free /\ budget.aborts < MaxAborts
    /\ \E r \in Requests : Allowed(r) /\ SendSetup(r)
    /\ budget' = [budget EXCEPT !.aborts = @ + 1]

\* What the host makes of an IN packet: one with the wrong toggle is a repeated
\* one and is dropped; a short one, or the last byte asked for, ends the stage.
Accepts == epr \cap DTOG_TX = host.tog
Received ==
    LET got == host.got + tx.len
    IN  [host EXCEPT !.got = got,
                     !.data = IF tx.len = 0 THEN @ ELSE Append(@, tx),
                     !.tog = DTOG_TX \ @,
                     !.phase = IF tx.len < MaxPacket \/ got >= host.req.wLength
                               THEN "StatusOUT" ELSE "DataIN"]

InToken == Reached /\ TxStatus(epr) = VALID

HostIn ==
    /\ host.phase = "DataIN" /\ InToken
    /\ host' = IF Accepts THEN Received ELSE host
    /\ epr' = HwIn(epr)
    /\ UNCHANGED <<pipeVars, daddr, istrReset, tx, rx, budget>>

\* The packet arrives, its ACK does not: the peripheral will send it again.
HostInLostAck ==
    /\ host.phase = "DataIN" /\ InToken /\ budget.lost < MaxLost
    /\ host' = IF Accepts THEN Received ELSE host
    /\ budget' = [budget EXCEPT !.lost = @ + 1]
    /\ UNCHANGED <<pipeVars, hwVars>>

HostStatusIn ==
    /\ host.phase = "StatusIN" /\ InToken
    /\ host' = [host EXCEPT !.phase = "Idle",
                            !.addr = IF host.req.kind = "SetAddress" THEN host.req.addr ELSE @]
    /\ epr' = HwIn(epr)
    /\ UNCHANGED <<pipeVars, daddr, istrReset, tx, rx, budget>>

\* The zero-length DATA1 packet of the status stage; with another toggle the
\* peripheral acknowledges it and forgets it.
HostStatusOut ==
    /\ host.phase = "StatusOUT" /\ Reached /\ RxStatus(epr) = VALID
    /\ epr' = IF Pending(DTOG_RX) THEN HwOut(epr) ELSE epr
    /\ host' = [host EXCEPT !.phase = "Idle"]
    /\ UNCHANGED <<pipeVars, daddr, istrReset, tx, rx, budget>>

\* A STALL handshake ends the transfer.
HostStalled ==
    /\ Reached
    /\ \/ host.phase \in {"DataIN", "StatusIN"} /\ TxStatus(epr) = STALL
       \/ host.phase = "StatusOUT" /\ RxStatus(epr) = STALL
    /\ host' = [host EXCEPT !.phase = "Failed"]
    /\ UNCHANGED <<pipeVars, hwVars, budget>>

\* Hosts wait for seconds, handlers run for microseconds: a host gives up only
\* when the device has nothing left to do and still does not answer.
HostTimeout ==
    /\ ~Free /\ Quiet
    /\ host.phase \in {"DataIN", "StatusIN"} => ~InToken
    /\ host.phase = "StatusOUT" => ~(Reached /\ RxStatus(epr) = VALID)
    /\ host' = [host EXCEPT !.phase = "Failed"]
    /\ UNCHANGED <<pipeVars, hwVars, budget>>

HostReset ==
    /\ budget.resets < MaxResets
    /\ host.phase = "Reset" => Quiet
    /\ budget' = [budget EXCEPT !.resets = @ + 1]
    /\ epr' = HwReset(epr)
    /\ daddr' = [ef |-> FALSE, add |-> 0]
    /\ istrReset' = TRUE
    /\ host' = [host EXCEPT !.phase = "Reset", !.addr = 0]
    /\ UNCHANGED <<pipeVars, tx, rx>>

Transaction == HostIn \/ HostStatusIn \/ HostStatusOut

Init ==
    /\ PipeInit
    /\ host = [phase |-> "Idle", addr |-> 0, req |-> rx, got |-> 0, data |-> <<>>, tog |-> {}]
    /\ budget = [resets |-> 0, aborts |-> 0, lost |-> 0]

Next ==
    \/ Firmware /\ UNCHANGED <<host, budget>>
    \/ HostSetup \/ HostAbort \/ Transaction \/ HostInLostAck
    \/ HostStalled \/ HostTimeout \/ HostReset

Spec == Init /\ [][Next]_vars

\* The interrupt handler runs whenever there is something for it to do, and a
\* host that has begun a transfer goes on polling the device or gives up on it.
FairSpec ==
    /\ Spec
    /\ WF_vars(Firmware /\ UNCHANGED <<host, budget>>)
    /\ WF_vars(Transaction \/ HostTimeout)

-----------------------------------------------------------------------------
(* Correctness.                                                            *)

TypeOK ==
    /\ pipe \in [m_transferState : TransferStage, m_data : [src : Sources, off : Nat],
                 m_len : uint16_t, m_remainLen : uint16_t]
    /\ g_devAddress \in Addresses
    /\ todo \in Seq(Op)
    /\ latched = {} \/ (todo # <<>> /\ Head(todo) \in AccessorOp /\ \E r \in Register : latched = {r})
    /\ halted \in BOOLEAN
    /\ epr \in Register
    /\ daddr \in [ef : BOOLEAN, add : Addresses]
    /\ istrReset \in BOOLEAN
    /\ tx \in Packet
    /\ rx \in Request
    /\ host \in Hosts
    /\ budget \in [resets : 0 .. MaxResets, aborts : 0 .. MaxAborts, lost : 0 .. MaxLost]

\* The bytes that exist at a source.
SourceSize(src) == IF src \in DOMAIN DescSize THEN DescSize[src]
                   ELSE IF src = Stack THEN 2 ELSE 0

\* WritePMA reads whole half-words, so an odd length reads one byte more.
InSource(pkt) == pkt.src = Wild \/ pkt.off + 2 * ((pkt.len + 1) \div 2) <= SourceSize(pkt.src)
GoodPacket(pkt) == pkt.len <= MaxPacket /\ InSource(pkt)

(* No packet is longer than the packet buffer, and none was read from beyond
   the end of its descriptor, whatever wLength the host asks for and wherever
   the transfer is interrupted: the arithmetic of OnInTransferComplite on
   m_data and m_remainLen, with the rounding of WritePMA.  Only the lookups
   without a return value are excepted. *)
NoOverread == GoodPacket(tx)

\* What makes NoOverread inductive: the bytes still to be sent exist, at an even
\* offset, and so do those of the packets a handler has yet to write.
GoodOp == {o \in Op : o.op = "WritePMA" => GoodPacket(o.pkt)}
RestInSource ==
    pipe.m_data.src # Wild =>
        /\ pipe.m_data.off % 2 = 0
        /\ pipe.m_data.off + pipe.m_remainLen <= SourceSize(pipe.m_data.src)
ReadInv == RestInSource /\ todo \in Seq(GoodOp) /\ NoOverread

(* The packet buffer is written only while the peripheral does not own it: a
   transmit endpoint that is VALID may be sending.  OnInTransferComplite never
   tests the status before WritePMA, it relies on when it is called. *)
TxBufferStable == [][tx' # tx => TxStatus(epr) # VALID]_vars

Want == Smaller(host.req.wLength,
                IF host.req.kind = "GetDescriptor" THEN DescSize[host.req.desc] ELSE 2)

IsNextPiece ==
    /\ tx.len = Smaller(MaxPacket, Want - host.got)
    /\ tx.len > 0 => /\ tx.src = (IF host.req.kind = "GetDescriptor" THEN host.req.desc ELSE Stack)
                     /\ tx.off = host.got

(* Every data packet the host takes is the next piece of what it asked for,
   without gaps or repetitions although handshakes get lost; a zero-length one
   comes only when all has been sent.  In the status stage the host gets a
   zero-length packet and nothing of an earlier transfer. *)
NextPiece ==
    [][/\ (HostIn \/ HostInLostAck) /\ Accepts => IsNextPiece
       /\ HostStatusIn => tx.len = 0]_vars

(* Between interrupts, the address the device answers to is one the host gave
   it in a SET_ADDRESS whose status stage is over: usb.cpp:330 "SET_ADDRESS
   perform processing after status stage". *)
AddressAgreement == (daddr.add # 0 /\ Quiet) => daddr.add = host.addr

\* STAT_RX and STAT_TX of an endpoint that waits in a stage.
StageRegisters ==
    [Setup |-> <<VALID, NAK>>, DataIN |-> <<STALL, VALID>>, DataINLast |-> <<NAK, VALID>>,
     DataOUT |-> <<VALID, STALL>>, StatusIN |-> <<STALL, VALID>>, StatusOUT |-> <<VALID, STALL>>]

\* A request that was ignored leaves both directions to NAK until the next SETUP.
Ignored == host.req.kind = "Unsupported" \/ (host.req.kind = "GetDescriptor"
               /\ (host.req.desc \notin DOMAIN DescSize \/ host.req.wLength = 0))

(* Whenever the handler has returned and the peripheral has nothing to report,
   the status bits are those of the stage the pipe believes to be in, and KIND
   is set exactly in the status OUT stage: three separate writes of a register
   the peripheral changes meanwhile never leave it in between. *)
RegistersMatchStage ==
    (Quiet /\ ~halted /\ daddr.ef) =>
        /\ \/ <<RxStatus(epr), TxStatus(epr)>> = StageRegisters[pipe.m_transferState]
           \/ /\ Ignored /\ pipe.m_transferState = "Setup"
              /\ RxStatus(epr) = NAK /\ TxStatus(epr) = NAK
        /\ Pending(KIND) <=> pipe.m_transferState = "StatusOUT"

(* No write to the endpoint register drops the notice of a completed transfer
   that the handler has not seen: a CTR bit goes only by the accessor that
   clears it, and only when that accessor had read it as 1. *)
NoEventLost ==
    [][\A b \in (CTR_RX \cup CTR_TX) \cap (epr \ epr') :
          /\ Head(todo).op = (IF b = "CTR_RX" THEN "ClearRxCTR" ELSE "ClearTxCTR")
          /\ latched # {} /\ \A r \in latched : b \in r]_vars

(* A transfer fails only if the device does not know the request: neither side
   is ever left waiting for the other in a transfer it serves. *)
OnlyIgnoredFails == host.phase = "Failed" => Ignored

(* What the host makes of the packets and handshakes it gets is a control
   transfer: an answer arrives whole and in order, its end is agreed, no request
   is answered that the device does not know.  A transfer may fail. *)
Promise == INSTANCE ControlTransfer
    WITH phase <- host.phase, addr <- host.addr, req <- host.req, data <- host.data
TransferSpec == Promise!Spec

(* The same, where moreover no request fails that the device knows. *)
ReliableTransferSpec == Promise!ReliableSpec

(* A host that keeps polling sees the end of every transfer it begins. *)
TransferEnds == ~Free ~> Free

\* Ready for the next enumeration, but for what Reset() does not touch: KIND and
\* g_devAddress (usb.cpp:79-95).
PipeReady == /\ pipe = NoTransfer /\ todo = <<>>
             /\ RxStatus(epr) = VALID /\ TxStatus(epr) = NAK
             /\ epr \cap DTOG_TX = {} /\ epr \cap T_FIELD = CTRL
             /\ daddr = [ef |-> TRUE, add |-> 0]

(* Unless it has halted, which it does only without a debugger, a bus reset
   brings the device back to where it accepts a SETUP at address 0, whatever
   handler it cut into -- the only way out when the pipe has missed a SETUP. *)
ResetRecovers == istrReset ~> PipeReady

(* The handler of a bus reset enables the function last (usb.cpp:361-363), and
   has by then repaired what the interrupted transfer, a handler that was still
   running or the peripheral left in the members of the pipe, in DADDR, the
   type, the status bits and the transmit toggle.  KIND and g_devAddress may
   still be what they were. *)
ResetRestores == [][EnableFunction => PipeReady']_vars

(* What ResetRestores leaves out is left over only from a status stage: when
   Reset() (usb.cpp:79-95) comes to its members, KIND is set only if the reset
   cut off a status OUT stage, and an address waits in g_devAddress only if it
   cut off the status IN stage of a SET_ADDRESS, whichever handler was running,
   and whichever ran for a notice that survived the reset.  Of the reset that
   starts enumeration and the next one: a third can find what the second left. *)
OnlyStatusStageLeft ==
    [][ResetMembers /\ budget.resets <= 2 =>
          /\ Pending(KIND) => pipe.m_transferState = "StatusOUT"
          /\ g_devAddress # 0 => pipe.m_transferState = "StatusIN"]_vars

(* usb.cpp:101: GoToStage is to "Switch endpoint status as described in RM0008",
   so that when SetTxStatus has written its register, the status is the one it
   was called with. *)
StatusSwitched ==
    [][RegWrite /\ Head(todo).op = "SetTxStatus" => TxStatus(epr') = Head(todo).status]_vars

(* usb.cpp:177: after the last data packet "Host transmit to us ZLP as status
   of all transfer", so that no transfer fails whose data has all been sent. *)
StatusOutTaken == (host.phase = "Failed" /\ host.got > 0) => host.got < Want
=============================================================================
