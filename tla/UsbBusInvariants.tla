--------------------------- MODULE UsbBusInvariants ---------------------------
(***************************************************************************)
(* The inductive invariants behind the properties of UsbBus.  They say     *)
(* where a running handler is, as the list of what it has still to do, and *)
(* what the endpoint register may hold there.  In layers:                  *)
(*   TxInv       who owns the packet buffer, for any host                  *)
(*   RestoreInv  how far the handler of a bus reset has come, for any host *)
(*   LeftInv     what that handler does not repair, until the second reset *)
(*   CalmInv     which notices are pending, for a host that takes turns    *)
(*   AddressInv  the address, for such a host and one bus reset            *)
(*   ServedInv   whole transfers, when besides no handshake is lost        *)
(*   PieceInv    the packet the host waits for, with losses and resets     *)
(*   AnswerInv   what the host has received so far                         *)
(***************************************************************************)
EXTENDS UsbBus

stage == pipe.m_transferState
Sending == stage \in {"DataIN", "DataINLast", "StatusIN"}

-----------------------------------------------------------------------------
(* The points of a handler.                                                *)

Then(o, list) == <<o>> \o list

Nothing == <<>>
Address == Then(Do("ApplyAddress"), Nothing)
Ends == {Nothing, Address}

InCall == Then(Do("OnInTransferComplite"), Address)
InList == Then(Do("ClearTxCTR"), InCall)
SetupCall == Then(Do("OnSetupTransferComplite"), Nothing)
SetupList == Then(Do("ClearRxCTR"), SetupCall)
OutCall == Then(Do("OnOutTransferComplite"), Nothing)
OutList == Then(Do("ClearRxCTR"), OutCall)

\* What is left of GoToStage(s): after both status writes, after the first,
\* and before them.
KindLeft(s, rest) == IF s = "StatusOUT" THEN Then(Do("SetStatusOut"), rest) ELSE rest
TxLeft(s, rest) == Then(SetTx(StageRegisters[s][2]), KindLeft(s, rest))
RxLeft(s, rest) == Then(SetRx(StageRegisters[s][1]), TxLeft(s, rest))

AtEnd == todo \in Ends
AtKind == stage = "StatusOUT" /\ \E rest \in Ends : todo = KindLeft(stage, rest)
AtTx == \E rest \in Ends : todo = TxLeft(stage, rest)
AtRx == \E rest \in Ends : todo = RxLeft(stage, rest)
AtLoad == /\ Sending /\ todo # Nothing /\ Head(todo).op = "WritePMA"
          /\ \E rest \in Ends : Tail(todo) = RxLeft(stage, rest)
AtUnkind == stage = "Setup" /\ todo = Then(Do("ClearStatusOut"), RxLeft(stage, Nothing))
AtIn == todo \in {InList, InCall}
AtSetup == todo \in {SetupList, SetupCall}
AtOut == todo \in {OutList, OutCall}

Reset1 == Then(Do("EnableFunction"), Nothing)
Reset2 == Then(Do("ResetMembers"), Reset1)
Reset3 == Then(SetRx(VALID), Reset2)
Reset4 == Then(Do("ClearRxDTOG"), Reset3)
Reset5 == Then(SetTx(NAK), Reset4)
Reset6 == Then(Do("ClearTxDTOG"), Reset5)
Reset7 == Then(Do("SetAddress"), Reset6)
Reset8 == Then(Do("SetType"), Reset7)

-----------------------------------------------------------------------------
(* The transmitter, for all constants.                                     *)

Closed(r) == TxStatus(r) \in {NAK, STALL}

\* Nothing has happened since power-on; the function is not enabled.
Cold == /\ ~istrReset /\ host.phase = "Idle" /\ ~daddr.ef
        /\ epr = {} /\ stage = "Setup" /\ todo = Nothing

\* Unless the pipe is sending, the transmitter is closed and has nothing to report.
TxSettled == IF Sending THEN Pending(CTR_TX) => TxStatus(epr) = NAK
             ELSE Closed(epr) /\ ~Pending(CTR_TX)

TxLive ==
    /\ ~istrReset
    /\ \/ (AtEnd \/ AtSetup \/ AtOut \/ AtKind \/ AtUnkind) /\ TxSettled
       \/ todo = InList /\ TxSettled /\ TxStatus(epr) = NAK
       \/ todo = InCall /\ TxStatus(epr) = NAK /\ ~Pending(CTR_TX)
       \/ (AtLoad \/ AtRx) /\ Closed(epr) /\ ~Pending(CTR_TX)
       \/ AtTx /\ Closed(epr) /\ ~Pending(CTR_TX) /\ \A r \in latched : Closed(r)

\* Between a bus reset and its handler, a handler of before the reset finishes
\* and those of the notices that survived the reset run.
TxInterrupted ==
    /\ istrReset /\ host.phase = "Reset" /\ ~Pending(SETUP)
    /\ Pending(CTR_TX) => Sending /\ TxStatus(epr) = DIS
    /\ \/ AtEnd \/ AtOut \/ AtKind \/ AtUnkind
       \/ AtSetup /\ (stage = "Setup" => TxStatus(epr) = DIS)
       \/ todo = InList /\ TxStatus(epr) = DIS
       \/ (todo = InCall \/ AtLoad) /\ TxStatus(epr) = DIS /\ ~Pending(CTR_TX)
       \/ (AtRx \/ AtTx) /\ ~Pending(CTR_TX)

\* The handler of the reset has the peripheral for itself.
InReset ==
    /\ ~istrReset /\ host.phase = "Reset"
    /\ epr \cap CTRs = {} /\ latched \subseteq {epr}
    /\ \/ todo \in {Reset8, Reset7, Reset6, Reset5}
       \/ todo \in {Reset4, Reset3, Reset2} /\ TxStatus(epr) = NAK
       \/ todo = Reset1 /\ TxStatus(epr) = NAK /\ stage = "Setup"

(* Whatever host and bus do, the transmitter is closed from the call of
   OnInTransferComplite or OnSetupTransferComplite to the second status write of
   GoToStage (usb.cpp:104-134): a WritePMA in between has the buffer for itself. *)
TxInv == halted \/ Cold \/ TxLive \/ TxInterrupted \/ InReset

\* What the handler of the reset has repaired when it is at each of its points.
Restored ==
    /\ todo # Reset8 => epr \cap T_FIELD = CTRL
    /\ todo = Reset6 /\ latched # {} => Pending(DTOG_TX)
    /\ todo \in {Reset5, Reset4, Reset3, Reset2, Reset1} => ~Pending(DTOG_TX)
    /\ todo \in {Reset2, Reset1} => RxStatus(epr) = VALID
    /\ todo = Reset1 => pipe = NoTransfer

(* Until the handler of a bus reset has ended, what its accesses so far have put
   right (usb.cpp:79-95, 361-363) stays right. *)
RestoreInv == ~halted /\ InReset => Restored

NoEvent == ~Pending(CTR_RX) /\ ~Pending(CTR_TX)

\* Reset() has not come to its members yet.
Interrupted == host.phase = "Reset" /\ (istrReset \/ todo \in {Reset8, Reset7, Reset6, Reset5, Reset4, Reset3, Reset2})

\* Whether the running handler ends with taking over the address.
Applies == todo # <<>> /\ todo[Len(todo)] = Do("ApplyAddress")

\* Who has set KIND, or read it as set, and who has set g_devAddress.
Accounted ==
    /\ (\E r \in latched \cup {epr} : KIND \subseteq r) => stage = "StatusOUT" \/ AtUnkind
    /\ g_devAddress # 0 => stage = "StatusIN" \/ Applies

(* KIND belongs to a status OUT stage and g_devAddress to a status IN stage,
   until the second bus reset has come to clear the stage and leaves them. *)
LeftInv ==
    /\ budget.resets = 0 => Cold /\ g_devAddress = 0
    /\ budget.resets = 1 /\ host.phase = "Reset" =>
          /\ g_devAddress = 0 /\ \A r \in latched \cup {epr} : ~(KIND \subseteq r)
          /\ stage = "Setup" /\ NoEvent
          /\ todo \in {Nothing, Reset8, Reset7, Reset6, Reset5, Reset4, Reset3, Reset2, Reset1}
    /\ budget.resets = 1 \/ (budget.resets = 2 /\ Interrupted) => Accounted

-----------------------------------------------------------------------------
(* The notices of completed transfers, for a host that neither aborts a      *)
(* transfer nor begins one before the handler has ended the last.            *)

Shut == RxStatus(epr) # VALID

\* Only one direction has something to report, and while it has, the other is closed.
CalmEnd == /\ ~(Pending(CTR_RX) /\ Pending(CTR_TX))
           /\ Sending => Shut
           /\ Pending(CTR_RX) => /\ RxStatus(epr) = NAK
                                 /\ IF Pending(SETUP) THEN TxStatus(epr) = NAK ELSE host.phase = "Idle"

CalmLive ==
    /\ ~istrReset
    /\ \/ AtEnd /\ CalmEnd
       \/ (AtTx \/ AtKind) /\ CalmEnd /\ (Pending(CTR_RX) => ~Sending /\ ~Pending(SETUP))
       \/ AtRx /\ NoEvent /\ Shut /\ \A r \in latched : RxStatus(r) = RxStatus(epr)
       \/ (AtLoad \/ AtUnkind \/ todo = InCall) /\ NoEvent /\ Shut
       \/ todo = SetupCall /\ NoEvent /\ Shut /\ TxStatus(epr) = NAK
       \/ todo = OutCall /\ NoEvent /\ Shut /\ host.phase = "Idle"
       \/ todo = InList /\ Pending(CTR_TX) /\ ~Pending(CTR_RX) /\ Shut /\ \A r \in latched : CTR_TX \subseteq r
       \/ /\ todo \in {SetupList, OutList} /\ Pending(CTR_RX) /\ ~Pending(CTR_TX) /\ Shut
          /\ IF todo = SetupList THEN TxStatus(epr) = NAK ELSE host.phase = "Idle"
          /\ \A r \in latched : CTR_RX \subseteq r

\* The bus is silent after a reset, but a handler may still be acknowledging.
CalmInterrupted ==
    /\ istrReset /\ ~(Pending(CTR_RX) /\ Pending(CTR_TX))
    /\ todo = InList => Pending(CTR_TX) /\ \A r \in latched : CTR_TX \subseteq r
    /\ todo \in {SetupList, OutList} => Pending(CTR_RX) /\ \A r \in latched : CTR_RX \subseteq r

(* The handler works on one notice at a time, the one it has read: while it has
   an IN packet to do, the receiver is closed, and while it has a SETUP or a
   status packet to do, nothing else can come. *)
CalmInv == halted \/ Cold \/ (TxLive /\ CalmLive) \/ (TxInterrupted /\ CalmInterrupted) \/ InReset

-----------------------------------------------------------------------------
(* The address, when the bus is reset once, to begin with.                   *)

Live == ~halted /\ daddr.ef /\ host.phase # "Reset"

\* A SETUP that no handler has served yet.
Unserved == (AtEnd /\ Pending(CTR_RX) /\ Pending(SETUP)) \/ AtSetup

Resetting == /\ ~halted /\ host.phase = "Reset" /\ NoEvent
             /\ todo \in {Nothing, Reset1, Reset2, Reset3, Reset4, Reset5, Reset6, Reset7, Reset8}
             /\ g_devAddress = 0 /\ daddr.add = 0 /\ host.addr = 0

\* A request that gives the device an address and that is not finished.
Assigning == host.phase = "StatusIN" /\ host.req.kind = "SetAddress" /\ host.req.addr # 0

Agreed ==
    /\ g_devAddress = 0 /\ daddr.add = host.addr
    /\ host.phase = "StatusIN" /\ host.req.kind = "SetAddress" => host.addr = 0
    /\ Unserved => host.phase = FirstPhase(host.req) /\ rx = host.req
    /\ Assigning => TxStatus(epr) = NAK /\ (Unserved \/ (todo = Nothing /\ NoEvent))

\* The device knows its address, the host has not had the status stage.
Told == /\ Assigning /\ g_devAddress = host.req.addr /\ daddr.add = 0 /\ host.addr = 0
        /\ NoEvent /\ Sending
        /\ \/ (AtLoad \/ AtRx) /\ ~Applies /\ TxStatus(epr) = NAK
           \/ AtTx /\ ~Applies /\ TxStatus(epr) = NAK /\ \A r \in latched : TxStatus(r) = NAK
           \/ todo = Nothing /\ TxStatus(epr) = VALID

\* The host uses the new address, the handler of the status stage has yet to.
Confirmed == /\ g_devAddress # 0 /\ host.addr = g_devAddress /\ daddr.add = 0 /\ host.phase = "Idle"
             /\ ~Pending(CTR_RX)
             /\ Applies \/ (todo = Nothing /\ Pending(CTR_TX))

(* A SET_ADDRESS is at any time unserved, told to the device (usb.cpp:281), or
   confirmed to the host and about to be applied (usb.cpp:330): at no other time
   do device and host use different addresses. *)
AddressInv ==
    \/ /\ budget.resets = 0 /\ Cold /\ ~halted
       /\ g_devAddress = 0 /\ daddr.add = 0 /\ host.addr = 0
    \/ /\ budget.resets > 0
       /\ \/ Resetting
          \/ halted /\ g_devAddress = 0 /\ daddr.add = host.addr /\ TxStatus(epr) # VALID
          \/ Live /\ (Agreed \/ Told \/ Confirmed)

-----------------------------------------------------------------------------
(* Whole transfers, when besides no handshake is lost and the host asks only   *)
(* for what the pipe can serve.                                               *)

\* A request of which host and pipe expect the same bytes and the same packets.
Servable(r) ==
    /\ r.kind = "GetDescriptor" => r.desc # NoReturn
    /\ r.kind = "GetStatus" => r.wLength >= 2
    /\ r.kind = "Unsupported" => DebuggerAttached
    /\ r.kind = "GetDescriptor" /\ r.desc \in DOMAIN DescSize /\ r.wLength > 0 =>
          LET size == Smaller(r.wLength, DescSize[r.desc])
          IN  size % MaxPacket # 0 \/ size < r.wLength

Source == IF host.req.kind = "GetDescriptor" THEN host.req.desc ELSE Stack

\* What is still to be sent once the host has "sent" bytes.
Rest(sent) ==
    /\ ~Ignored /\ pipe.m_len = Want /\ sent + pipe.m_remainLen = Want
    /\ pipe.m_remainLen > 0 => pipe.m_data = [src |-> Source, off |-> sent]

\* pkt is the packet of the current stage, and "sent" bytes came before it.
Data(sent, pkt) ==
    /\ Rest(sent + pkt.len) /\ sent % MaxPacket = 0
    /\ pkt.len > 0 => pkt.src = Source /\ pkt.off = sent
    /\ IF stage = "DataIN" THEN pkt.len = MaxPacket ELSE pkt.len < MaxPacket /\ pipe.m_remainLen = 0

\* The packet is what the host waits for.
Answers(pkt) ==
    /\ DTOG_RX \subseteq epr
    /\ IF stage = "StatusIN" THEN host.phase = "StatusIN"
       ELSE host.phase = "DataIN" /\ host.tog = epr \cap DTOG_TX /\ Data(host.got, pkt)

RxSet == RxStatus(epr) = StageRegisters[stage][1]

Waiting ==
    /\ stage = "Setup" /\ AtEnd /\ NoEvent /\ ~Pending(KIND) /\ TxStatus(epr) = NAK
    /\ \/ host.phase = "Idle" /\ RxStatus(epr) = VALID
       \/ host.phase \in {"DataIN", "StatusIN", "Failed"} /\ Ignored /\ RxStatus(epr) = NAK

Asked ==
    /\ stage = "Setup" /\ Unserved /\ ~Pending(KIND) /\ RxStatus(epr) = NAK /\ TxStatus(epr) = NAK
    /\ rx = host.req /\ host.phase = FirstPhase(host.req) /\ host.got = 0 /\ host.tog = DTOG_TX
    /\ DTOG_TX \cup DTOG_RX \subseteq epr

Opening ==
    /\ Sending /\ NoEvent /\ ~Pending(KIND) /\ TxStatus(epr) = NAK
    /\ \/ AtLoad /\ Answers(Head(todo).pkt)
       \/ AtRx /\ Answers(tx)
       \/ AtTx /\ Answers(tx) /\ RxSet

Open == /\ Sending /\ AtEnd /\ NoEvent /\ ~Pending(KIND)
        /\ TxStatus(epr) = VALID /\ RxSet /\ Answers(tx)

Taken ==
    /\ Sending /\ ~Pending(CTR_RX) /\ ~Pending(KIND) /\ TxStatus(epr) = NAK /\ RxSet
    /\ (AtEnd /\ Pending(CTR_TX)) \/ AtIn
    /\ \/ stage = "StatusIN" /\ host.phase = "Idle"
       \/ /\ stage = "DataIN" /\ host.phase = "DataIN" /\ host.tog = epr \cap DTOG_TX
          /\ Rest(host.got) /\ host.got % MaxPacket = 0 /\ DTOG_RX \subseteq epr
       \/ /\ stage = "DataINLast" /\ host.phase = "StatusOUT"
          /\ pipe.m_remainLen = 0 /\ DTOG_RX \subseteq epr

\* The host is about to send the packet of the status stage, or has sent it.
Polled == \/ host.phase = "StatusOUT" /\ RxStatus(epr) = VALID /\ NoEvent /\ DTOG_RX \subseteq epr
          \/ host.phase = "Idle" /\ RxStatus(epr) = NAK /\ Pending(CTR_RX) /\ ~Pending(SETUP)

Closing ==
    /\ stage = "StatusOUT"
    /\ \/ /\ AtRx /\ NoEvent /\ ~Pending(KIND) /\ TxStatus(epr) = NAK
          /\ host.phase = "StatusOUT" /\ RxStatus(epr) = NAK /\ DTOG_RX \subseteq epr
       \/ AtTx /\ Polled /\ ~Pending(KIND) /\ TxStatus(epr) = NAK
       \/ AtKind /\ Polled /\ ~Pending(KIND) /\ TxStatus(epr) = STALL
       \/ AtEnd /\ Polled /\ Pending(KIND) /\ TxStatus(epr) = STALL
       \/ /\ AtOut /\ Pending(KIND) /\ TxStatus(epr) = STALL
          /\ host.phase = "Idle" /\ RxStatus(epr) = NAK

Rewinding ==
    /\ stage = "Setup" /\ host.phase = "Idle" /\ NoEvent
    /\ AtUnkind \/ (AtRx /\ ~Pending(KIND)) \/ (AtTx /\ ~Pending(KIND) /\ RxStatus(epr) = VALID)

\* Before the first transfer.
Fresh ==
    \/ budget.resets = 0 /\ Cold
    \/ /\ Resetting /\ stage = "Setup" /\ ~Pending(KIND)
       /\ todo \in {Reset1, Reset2} \/ (todo = Nothing /\ ~istrReset)
              => RxStatus(epr) = VALID /\ TxStatus(epr) = NAK

LatchSame == \A r \in latched : TxStatus(r) = TxStatus(epr) /\ r \cap KIND = epr \cap KIND

(* Host and pipe are always together in one of the situations of a transfer that
   goes well, from the SETUP over each packet and its three register writes to
   the status packet. *)
ServedInv ==
    /\ ~halted /\ LatchSame
    /\ \/ Fresh
       \/ /\ Live
          /\ Waiting \/ Asked \/ Opening \/ Open \/ Taken \/ Closing \/ Rewinding

-----------------------------------------------------------------------------
(* Every packet the next piece, also when handshakes get lost and when host    *)
(* and pipe do not agree on the end of the transfer.                          *)

\* A request whose answer has the length the host counts with.
Answerable(r) == /\ r.kind = "GetDescriptor" => r.desc # NoReturn
                 /\ r.kind = "GetStatus" => r.wLength >= 2

\* The pipe has sent, in whole packets, what the host has received.
Whole == stage = "DataIN" /\ Rest(host.got) /\ host.got % MaxPacket = 0

\* A host that waits for a packet waits for pkt.
InStep(pkt) ==
    /\ host.phase = "DataIN" => /\ stage # "StatusIN" /\ host.tog = epr \cap DTOG_TX
                                /\ Data(host.got, pkt)
    /\ host.phase = "StatusIN" => pkt.len = 0 /\ ~Ignored

\* The host has the packet the peripheral is going to send again.
Ahead == host.phase = "DataIN" /\ host.tog = DTOG_TX \ epr /\ Whole

\* The host can reach the handlers: no bus reset keeps it away.
Attached == ~halted /\ ~Cold /\ host.phase # "Reset"

PieceAsked == Unserved /\ stage = "Setup" =>
                  /\ rx = host.req /\ host.phase = FirstPhase(rx)
                  /\ host.got = 0 /\ host.tog = DTOG_TX /\ DTOG_TX \subseteq epr
PieceLoading == /\ AtLoad => InStep(Head(todo).pkt)
                /\ Sending /\ (AtRx \/ AtTx) => InStep(tx)
PieceOpen == TxStatus(epr) = VALID => InStep(tx) \/ Ahead
PieceTaken == Pending(CTR_TX) \/ AtIn =>
                  /\ host.phase # "StatusIN"
                  /\ host.phase = "DataIN" => host.tog = epr \cap DTOG_TX /\ Whole

(* While the host waits for a data packet, what is loaded or open for it is the
   next piece with the toggle it expects, or the piece it has already got, with
   the other toggle, because its acknowledgement was lost. *)
PieceInv == /\ halted => TxStatus(epr) # VALID
            /\ Attached => PieceAsked /\ PieceLoading /\ PieceOpen /\ PieceTaken

-----------------------------------------------------------------------------
(* What the host has received, in packets and in bytes.                      *)

(* A host in the data stage has received the first pieces of the answer and
   nothing else, and counts their bytes right. *)
AnswerInv ==
    host.phase = "DataIN" =>
        \/ host.data = <<>> /\ host.got = 0
        \/ /\ ~Ignored
           /\ Len(host.data) <= Promise!Pieces(host.req)
           /\ \A i \in 1 .. Len(host.data) : host.data[i] = Promise!Piece(host.req, i)
           /\ host.got = Smaller(Len(host.data) * MaxPacket, Want)
=============================================================================
