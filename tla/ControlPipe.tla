----------------------------- MODULE ControlPipe -----------------------------
(***************************************************************************)
(* The firmware side of the default control pipe (usb.cpp): the interrupt  *)
(* handler USB_LP_CAN1_RX0_IRQHandler, the ControlPipe object it drives    *)
(* and the registers and packet memory it shares with the USB peripheral.  *)
(*                                                                         *)
(* The peripheral works while the handler runs, so a handler is not one    *)
(* step.  The part of it that only touches the members of the pipe is one  *)
(* action; it leaves in todo, in program order, the accesses to shared     *)
(* registers and memory that the code makes, and these are executed one by *)
(* one: the accessors of EndPointReg as a read (latched) and a later       *)
(* write.  Module UsbBus adds the peripheral and the host.                 *)
(***************************************************************************)
EXTENDS EndpointReg, Integers, Sequences

CONSTANTS
    MaxPacket,         \* g_ep0MaxPacketSize
    DescSize,          \* the descriptors in flash: name -> size in bytes
    Requests,          \* the SETUP packets the host sends
    UninitLens,        \* what an uninitialized uint16_t len may hold
    DebuggerAttached   \* __BKPT(14) only stops the core for a debugger to go on

\* Memory that is not a descriptor: no data (nullptr), the local variable
\* "status" of OnDeviceRequest, the result of a lookup that returns nothing.
Null == "nullptr"
Stack == "status"
Wild == "uninitialized"
Sources == DOMAIN DescSize \cup {Null, Stack, Wild}

\* Descriptor lookups that find nothing: a string index nobody knows, and the
\* paths of GetFullConfigDescriptor and GetStringDescriptor without a return.
Unknown == "unknownString"
NoReturn == "noReturn"

uint16_t == {n \in Nat : n < 65536}
Addresses == {n \in Nat : n < 128}
Request == [kind : {"GetDescriptor", "GetStatus", "SetAddress", "Unsupported"},
            desc : DOMAIN DescSize \cup {Unknown, NoReturn},
            wLength : uint16_t,
            addr : Addresses]

ASSUME PipeAssumption ==
    /\ MaxPacket \in {8, 16, 32, 64}
    /\ DescSize \in [DOMAIN DescSize -> {n \in uint16_t : n > 0 /\ n % 2 = 0}]
    /\ DOMAIN DescSize \cap {Null, Stack, Wild, Unknown, NoReturn} = {}
    /\ Requests \subseteq Request
    /\ UninitLens \subseteq uint16_t
    /\ DebuggerAttached \in BOOLEAN

VARIABLES
    pipe,           \* the members of g_defaultControlPipe
    g_devAddress,   \* the address to take over after the status stage
    todo,           \* what the running handler has still to do; <<>>: returned
    latched,        \* {}, or {v} between the read of v and the write of an accessor
    halted,         \* in a HardFault, or at a breakpoint for good
    epr,            \* EP0R
    daddr,          \* DADDR: enable function, device address
    istrReset,      \* ISTR.RESET
    tx,             \* what COUNT_TX and the TX packet buffer hold
    rx              \* the request in the RX packet buffer

pipeVars == <<pipe, g_devAddress, todo, latched, halted>>
hwVars == <<epr, daddr, istrReset, tx, rx>>

TransferStage == {"Setup", "DataIN", "DataINLast", "DataOUT", "StatusIN", "StatusOUT"}
Packet == [src : Sources, off : Nat, len : Nat]
ZLP == [src |-> Null, off |-> 0, len |-> 0]

-----------------------------------------------------------------------------
(* The accesses a handler makes.                                           *)

Do(name) == [op |-> name]
SetRx(status) == [op |-> "SetRxStatus", status |-> status]
SetTx(status) == [op |-> "SetTxStatus", status |-> status]
Load(pkt) == [op |-> "WritePMA", pkt |-> pkt]

PlainAccessors == {"ClearTxDTOG", "ClearRxDTOG", "ClearTxCTR", "ClearRxCTR",
                   "SetStatusOut", "ClearStatusOut", "SetAddress", "SetType"}
Calls == {"OnInTransferComplite", "OnOutTransferComplite", "OnSetupTransferComplite",
          "ApplyAddress", "ResetMembers", "EnableFunction"}
AccessorOp == [op : PlainAccessors] \cup [op : {"SetRxStatus", "SetTxStatus"}, status : Status]
Op == AccessorOp \cup [op : Calls] \cup [op : {"WritePMA"}, pkt : Packet]

\* The value accessor o writes after it has read r.
Written(o, r) ==
    CASE o.op = "ClearTxDTOG" -> ClearTxDTOG(r)
      [] o.op = "ClearRxDTOG" -> ClearRxDTOG(r)
      [] o.op = "ClearTxCTR" -> ClearTxCTR(r)
      [] o.op = "ClearRxCTR" -> ClearRxCTR(r)
      [] o.op = "SetStatusOut" -> SetStatusOut(r)
      [] o.op = "ClearStatusOut" -> ClearStatusOut(r)
      [] o.op = "SetAddress" -> SetAddress(r, {})
      [] o.op = "SetType" -> SetType(r, CTRL)
      [] o.op = "SetRxStatus" -> SetRxStatus(r, o.status)
      [] o.op = "SetTxStatus" -> SetTxStatus(r, o.status)

\* ClearTxDTOG and ClearRxDTOG leave a register alone whose bit is 0.
Writes(o, r) ==
    /\ o.op = "ClearTxDTOG" => DTOG_TX \subseteq r
    /\ o.op = "ClearRxDTOG" => DTOG_RX \subseteq r

\* Faulty variant of StageAccesses: the status stage does not open the receiver.
StageAccessesDeaf(stage) ==
    IF stage = "StatusOUT" THEN <<SetRx(NAK), SetTx(STALL), Do("SetStatusOut")>>
    ELSE IF stage = "Setup" THEN <<SetRx(VALID), SetTx(NAK)>>
    ELSE IF stage = "DataINLast" THEN <<SetRx(NAK), SetTx(VALID)>>
    ELSE <<SetRx(STALL), SetTx(VALID)>>

\* GoToStage: the status bits for each stage.
StageAccesses(stage) ==
    CASE stage = "StatusOUT" -> <<SetRx(VALID), SetTx(STALL), Do("SetStatusOut")>>
      [] stage = "Setup" -> <<SetRx(VALID), SetTx(NAK)>>
      [] stage = "DataOUT" -> <<SetRx(VALID), SetTx(STALL)>>
      [] stage = "DataINLast" -> <<SetRx(NAK), SetTx(VALID)>>
      [] OTHER -> <<SetRx(STALL), SetTx(VALID)>>

-----------------------------------------------------------------------------
(* Executing the accesses.                                                 *)

Running(name) == ~halted /\ todo # <<>> /\ Head(todo).op = name

\* ClearTxDTOG and ClearRxDTOG read the register for the test and again for the
\* value; they are called in Reset() only, when the bus is silent.
RegRead ==
    /\ ~halted /\ todo # <<>> /\ latched = {}
    /\ Head(todo) \in AccessorOp
    /\ IF Writes(Head(todo), epr)
       THEN latched' = {epr} /\ UNCHANGED todo
       ELSE todo' = Tail(todo) /\ UNCHANGED latched
    /\ UNCHANGED <<pipe, g_devAddress, halted, hwVars>>

RegWrite ==
    /\ ~halted /\ todo # <<>>
    /\ \E r \in latched : epr' = HwWrite(epr, Written(Head(todo), r))
    /\ todo' = Tail(todo)
    /\ latched' = {}
    /\ UNCHANGED <<pipe, g_devAddress, halted, daddr, istrReset, tx, rx>>

\* WritePMA (which copies whole half-words) and the store to COUNT_TX.
WritePMA ==
    /\ Running("WritePMA")
    /\ tx' = Head(todo).pkt
    /\ todo' = Tail(todo)
    /\ UNCHANGED <<pipe, g_devAddress, latched, halted, epr, daddr, istrReset, rx>>

-----------------------------------------------------------------------------
(* The control pipe.                                                       *)

\* Faulty variant of GoToStage: opens the endpoint before the packet is written.
GoToStageEarly(p, stage, first, rest) ==
    /\ pipe' = [p EXCEPT !.m_transferState = stage]
    /\ todo' = StageAccesses(stage) \o first \o rest

\* Leave the members of the pipe as p in the given stage, and put the accesses
\* "first", those of GoToStage and the rest of the caller on the list.
GoToStage(p, stage, first, rest) ==
    /\ pipe' = [p EXCEPT !.m_transferState = stage]
    /\ todo' = first \o StageAccesses(stage) \o rest

\* What WritePMA is given: len bytes at m_data.
Piece(p, len) == [src |-> p.m_data.src, off |-> p.m_data.off, len |-> len]

\* Faulty variants of Advance: one forgets m_data, one counts the packet twice.
AdvanceCountOnly(p) == [p EXCEPT !.m_remainLen = @ - MaxPacket]
AdvanceTwice(p) == [p EXCEPT !.m_remainLen = @ - 2 * MaxPacket, !.m_data.off = @ + MaxPacket]

Advance(p) == [p EXCEPT !.m_remainLen = @ - MaxPacket, !.m_data.off = @ + MaxPacket]

OnInTransferComplite(p, rest) ==
    \/ /\ p.m_transferState \in {"DataIN", "DataINLast"}
       /\ p.m_remainLen > MaxPacket
       /\ GoToStage(Advance(p), "DataIN", <<Load(Piece(p, MaxPacket))>>, rest)
    \/ /\ p.m_transferState \in {"DataIN", "DataINLast"}
       /\ p.m_remainLen \in 1 .. MaxPacket
       /\ GoToStage([p EXCEPT !.m_remainLen = 0],
                    IF p.m_len % MaxPacket # 0 THEN "DataINLast" ELSE "DataIN",
                    <<Load(Piece(p, p.m_remainLen))>>, rest)
    \/ /\ p.m_transferState = "DataIN"
       /\ p.m_remainLen = 0
       /\ GoToStage(p, "DataINLast", <<Load(ZLP)>>, rest)
    \/ /\ p.m_transferState = "DataINLast"
       /\ p.m_remainLen = 0
       /\ GoToStage(p, "StatusOUT", <<>>, rest)
    \/ /\ p.m_transferState = "StatusIN"
       /\ GoToStage(p, "Setup", <<>>, rest)
    \/ /\ p.m_transferState \notin {"DataIN", "DataINLast", "StatusIN"}
       /\ pipe' = p
       /\ todo' = rest

InComplete ==
    /\ Running("OnInTransferComplite")
    /\ OnInTransferComplite(pipe, Tail(todo))
    /\ UNCHANGED <<g_devAddress, latched, halted, hwVars>>

\* Faulty variant of OutComplete: leaves KIND set after the status stage.
OutCompleteKeepsKind ==
    /\ Running("OnOutTransferComplite")
    /\ IF pipe.m_transferState = "StatusOUT"
       THEN GoToStage(pipe, "Setup", <<>>, Tail(todo))
       ELSE todo' = Tail(todo) /\ UNCHANGED pipe
    /\ UNCHANGED <<g_devAddress, latched, halted, hwVars>>

OutComplete ==
    /\ Running("OnOutTransferComplite")
    /\ IF pipe.m_transferState = "StatusOUT"
       THEN GoToStage(pipe, "Setup", <<Do("ClearStatusOut")>>, Tail(todo))
       ELSE todo' = Tail(todo) /\ UNCHANGED pipe
    /\ UNCHANGED <<g_devAddress, latched, halted, hwVars>>

SendData(src, len) ==
    OnInTransferComplite([m_transferState |-> "DataIN", m_data |-> [src |-> src, off |-> 0],
                          m_len |-> len, m_remainLen |-> len],
                         Tail(todo))

\* A request the handler does nothing for.
Ignore == todo' = Tail(todo) /\ UNCHANGED pipe

\* __BKPT(14) without a debugger escalates to HardFault, which never returns.
Breakpoint ==
    IF DebuggerAttached
    THEN Ignore /\ UNCHANGED halted
    ELSE todo' = <<>> /\ halted' = TRUE /\ UNCHANGED pipe

\* The pairs (pbuf, len) the lookup of descriptor d may come back with.
Lookup(d) ==
    IF d \in DOMAIN DescSize THEN {[src |-> d, len |-> DescSize[d]]}
    ELSE IF d = Unknown THEN {[src |-> Null, len |-> 0]}
    ELSE {[src |-> Wild, len |-> n] : n \in UninitLens}

\* Faulty variant of Smaller: the comparison the other way round.
Larger(a, b) == IF a > b THEN a ELSE b

Smaller(a, b) == IF a < b THEN a ELSE b

GetDescriptor(r) ==
    \E d \in Lookup(r.desc) :
        IF d.len # 0 /\ r.wLength # 0
        THEN SendData(d.src, Smaller(d.len, r.wLength))
        ELSE Ignore

OnDeviceRequest(r) ==
    \/ r.kind = "GetDescriptor" /\ GetDescriptor(r) /\ UNCHANGED <<g_devAddress, halted>>
    \/ /\ r.kind = "SetAddress"
       /\ g_devAddress' = r.addr
       /\ GoToStage(pipe, "StatusIN", <<Load(ZLP)>>, Tail(todo))
       /\ UNCHANGED halted
    \/ r.kind = "GetStatus" /\ SendData(Stack, 2) /\ UNCHANGED <<g_devAddress, halted>>
    \/ r.kind = "Unsupported" /\ Breakpoint /\ UNCHANGED g_devAddress

SetupComplete ==
    /\ Running("OnSetupTransferComplite")
    /\ IF pipe.m_transferState = "Setup"
       THEN OnDeviceRequest(rx)
       ELSE Ignore /\ UNCHANGED <<g_devAddress, halted>>
    /\ UNCHANGED <<latched, hwVars>>

-----------------------------------------------------------------------------
(* The interrupt handler.                                                  *)

Ready == ~halted /\ todo = <<>>
Pending(bits) == bits \subseteq epr

\* The peripheral reports DIR = 1 in ISTR whenever CTR_RX is set.
DispatchIn ==
    /\ Ready /\ Pending(CTR_TX) /\ ~Pending(CTR_RX)
    /\ todo' = <<Do("ClearTxCTR"), Do("OnInTransferComplite"), Do("ApplyAddress")>>
    /\ UNCHANGED <<pipe, g_devAddress, latched, halted, hwVars>>

\* Faulty variants of DispatchSetup: one takes over the address at once, one
\* does not acknowledge the interrupt.
DispatchSetupEager ==
    /\ Ready /\ Pending(CTR_RX) /\ Pending(SETUP)
    /\ todo' = <<Do("ClearRxCTR"), Do("OnSetupTransferComplite"), Do("ApplyAddress")>>
    /\ UNCHANGED <<pipe, g_devAddress, latched, halted, hwVars>>
DispatchSetupUnacknowledged ==
    /\ Ready /\ Pending(CTR_RX) /\ Pending(SETUP)
    /\ todo' = <<Do("OnSetupTransferComplite")>>
    /\ UNCHANGED <<pipe, g_devAddress, latched, halted, hwVars>>

DispatchSetup ==
    /\ Ready /\ Pending(CTR_RX) /\ Pending(SETUP)
    /\ todo' = <<Do("ClearRxCTR"), Do("OnSetupTransferComplite")>>
    /\ UNCHANGED <<pipe, g_devAddress, latched, halted, hwVars>>

DispatchOut ==
    /\ Ready /\ Pending(CTR_RX) /\ ~Pending(SETUP)
    /\ todo' = <<Do("ClearRxCTR"), Do("OnOutTransferComplite")>>
    /\ UNCHANGED <<pipe, g_devAddress, latched, halted, hwVars>>

\* The test after the loop of OnCorrectTransfer; ISTR.RESET is cleared first.
\* The code reads ISTR for the loop and again for RESET (usb.cpp:357, 321, 360),
\* a few cycles later in a handler nothing preempts.  One reading stands for
\* both: a reset is reported after 2.5 us without a packet (external), so that
\* no transfer can complete in between and be followed there by a reset.
DispatchReset ==
    /\ Ready /\ ~Pending(CTR_RX) /\ ~Pending(CTR_TX) /\ istrReset
    /\ istrReset' = FALSE
    /\ todo' = <<Do("SetType"), Do("SetAddress"), Do("ClearTxDTOG"), SetTx(NAK),
                 Do("ClearRxDTOG"), SetRx(VALID), Do("ResetMembers"), Do("EnableFunction")>>
    /\ UNCHANGED <<pipe, g_devAddress, latched, halted, epr, daddr, tx, rx>>

ApplyAddress ==
    /\ Running("ApplyAddress")
    /\ IF g_devAddress # 0
       THEN daddr' = [ef |-> TRUE, add |-> g_devAddress] /\ g_devAddress' = 0
       ELSE UNCHANGED <<daddr, g_devAddress>>
    /\ todo' = Tail(todo)
    /\ UNCHANGED <<pipe, latched, halted, epr, istrReset, tx, rx>>

NoTransfer == [m_transferState |-> "Setup", m_data |-> [src |-> Null, off |-> 0],
               m_len |-> 0, m_remainLen |-> 0]

\* Faulty variant of ResetMembers: the stage of the interrupted transfer stays.
ResetMembersKeepStage ==
    /\ Running("ResetMembers")
    /\ pipe' = [NoTransfer EXCEPT !.m_transferState = pipe.m_transferState]
    /\ todo' = Tail(todo)
    /\ UNCHANGED <<g_devAddress, latched, halted, hwVars>>

ResetMembers ==
    /\ Running("ResetMembers")
    /\ pipe' = NoTransfer
    /\ todo' = Tail(todo)
    /\ UNCHANGED <<g_devAddress, latched, halted, hwVars>>

EnableFunction ==
    /\ Running("EnableFunction")
    /\ daddr' = [ef |-> TRUE, add |-> 0]
    /\ todo' = Tail(todo)
    /\ UNCHANGED <<pipe, g_devAddress, latched, halted, epr, istrReset, tx, rx>>

Firmware ==
    \/ RegRead \/ RegWrite \/ WritePMA
    \/ InComplete \/ OutComplete \/ SetupComplete
    \/ DispatchIn \/ DispatchSetup \/ DispatchOut \/ DispatchReset
    \/ ApplyAddress \/ ResetMembers \/ EnableFunction

\* After the constructor of g_defaultControlPipe and USBInit: the peripheral is
\* out of its reset, the endpoint is disabled and no function is enabled.
PipeInit ==
    /\ pipe = NoTransfer
    /\ g_devAddress = 0 /\ todo = <<>> /\ latched = {} /\ halted = FALSE
    /\ epr = {} /\ daddr = [ef |-> FALSE, add |-> 0] /\ istrReset = FALSE
    /\ tx = ZLP /\ rx \in Requests
=============================================================================
