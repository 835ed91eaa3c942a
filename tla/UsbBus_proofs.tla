----------------------------- MODULE UsbBus_proofs -----------------------------
(***************************************************************************)
(* What the control pipe does on the bus, for all packet sizes,            *)
(* descriptors, requests and bounds: it is type-correct, never sends bytes *)
(* from beyond its descriptors and never writes a buffer that is being     *)
(* sent; a bus reset repairs what Reset() touches, and what it does not    *)
(* comes from a status stage.  For a host that takes turns with it, the    *)
(* pipe loses no notice, agrees on the address and on the stage, and keeps *)
(* the promise of ControlTransfer.                                         *)
(***************************************************************************)
EXTENDS UsbBusInvariants, EndpointReg_proofs, SequenceTheorems

Inv == TypeOK /\ ReadInv

(* Sequences of good accesses: what the handlers put on todo. *)
LEMMA GoodOps ==
    /\ \A name \in PlainAccessors \cup Calls : Do(name) \in GoodOp
    /\ \A s \in Status : SetRx(s) \in GoodOp /\ SetTx(s) \in GoodOp
    /\ \A pkt \in Packet : GoodPacket(pkt) => Load(pkt) \in GoodOp
  <1> USE DEF GoodOp, Op, AccessorOp
  <1>1. ASSUME NEW name \in PlainAccessors \cup Calls PROVE Do(name) \in GoodOp
    BY DEF Do, PlainAccessors, Calls
  <1>2. ASSUME NEW s \in Status PROVE SetRx(s) \in GoodOp /\ SetTx(s) \in GoodOp
    BY DEF SetRx, SetTx
  <1>3. ASSUME NEW pkt \in Packet, GoodPacket(pkt) PROVE Load(pkt) \in GoodOp
    BY <1>3 DEF Load
  <1>4. QED
    BY <1>1, <1>2, <1>3

LEMMA StageAccessesGood == \A st : StageAccesses(st) \in Seq(GoodOp)
  <1>1. /\ Do("SetStatusOut") \in GoodOp
        /\ \A s \in {STALL, NAK, VALID} : SetRx(s) \in GoodOp /\ SetTx(s) \in GoodOp
    BY GoodOps DEF Status, PlainAccessors
  <1>2. QED
    BY <1>1 DEF StageAccesses

LEMMA MaxPacketEven == MaxPacket \in Nat /\ MaxPacket % 2 = 0 /\ MaxPacket > 0 /\ MaxPacket <= 64
  BY PipeAssumption

LEMMA SourceSizeEven == \A src \in Sources : SourceSize(src) \in Nat /\ SourceSize(src) % 2 = 0
  <1>1. ASSUME NEW src \in DOMAIN DescSize PROVE DescSize[src] \in Nat /\ DescSize[src] % 2 = 0
    <2>1. DescSize[src] \in {n \in uint16_t : n > 0 /\ n % 2 = 0}
      BY PipeAssumption
    <2>2. QED
      BY <2>1 DEF uint16_t
  <1>2. QED
    BY <1>1 DEF SourceSize, Sources

LEMMA ZLPGood == ZLP \in Packet /\ GoodPacket(ZLP)
  <1>1. Null \in Sources /\ SourceSize(Null) \in Nat
    BY SourceSizeEven DEF Sources
  <1>2. QED
    BY <1>1, MaxPacketEven DEF ZLP, Packet, GoodPacket, InSource

\* The members of the pipe.
Pipes == [m_transferState : TransferStage, m_data : [src : Sources, off : Nat],
          m_len : uint16_t, m_remainLen : uint16_t]

RestOK(p) == p.m_data.src # Wild =>
                 /\ p.m_data.off % 2 = 0
                 /\ p.m_data.off + p.m_remainLen <= SourceSize(p.m_data.src)

LEMMA PipeFields ==
    ASSUME NEW p \in Pipes
    PROVE  /\ p.m_data \in [src : Sources, off : Nat]
           /\ p.m_data.src \in Sources /\ p.m_data.off \in Nat
           /\ p.m_len \in uint16_t /\ p.m_remainLen \in uint16_t
  <1>1. p.m_data \in [src : Sources, off : Nat] /\ p.m_len \in uint16_t /\ p.m_remainLen \in uint16_t
    BY DEF Pipes
  <1>2. QED
    BY <1>1

(* The piece the pipe sends next is within its packet and its source. *)
LEMMA PieceGood ==
    ASSUME NEW p \in Pipes, RestOK(p), NEW len \in 1 .. MaxPacket,
           len = p.m_remainLen \/ (len = MaxPacket /\ p.m_remainLen > MaxPacket)
    PROVE  Piece(p, len) \in Packet /\ GoodPacket(Piece(p, len))
  <1> DEFINE off == p.m_data.off
             rem == p.m_remainLen
             size == SourceSize(p.m_data.src)
  <1>1. len \in Nat /\ len <= MaxPacket
    BY MaxPacketEven
  <1>2. off \in Nat /\ rem \in Nat /\ size \in Nat /\ size % 2 = 0
    BY SourceSizeEven, PipeFields DEF uint16_t
  <1>3. Piece(p, len) \in Packet
    BY <1>1, PipeFields DEF Piece, Packet
  <1>4. ASSUME p.m_data.src # Wild PROVE off + 2 * ((len + 1) \div 2) <= size
    <2>1. off % 2 = 0 /\ off + rem <= size
      BY <1>4 DEF RestOK
    <2> HIDE DEF off, rem, size
    <2>2. CASE len = rem
      BY <1>2, <2>1, <2>2
    <2>3. CASE len = MaxPacket /\ rem > MaxPacket
      BY <1>2, <2>1, <2>3, MaxPacketEven
    <2>4. QED
      BY <2>2, <2>3 DEF rem
  <1>5. QED
    BY <1>1, <1>3, <1>4 DEF GoodPacket, InSource, Piece

(* OnInTransferComplite keeps what it is given: the pipe stays typed and within
   its source, and it leaves only good accesses to be made. *)
LEMMA AdvanceGood ==
    ASSUME NEW p \in Pipes, RestOK(p), p.m_remainLen > MaxPacket
    PROVE  Advance(p) \in Pipes /\ RestOK(Advance(p))
  <1> DEFINE q == Advance(p)
  <1>1. /\ q.m_data.src = p.m_data.src /\ q.m_data.off = p.m_data.off + MaxPacket
        /\ q.m_remainLen = p.m_remainLen - MaxPacket
        /\ q.m_len = p.m_len /\ q.m_transferState = p.m_transferState
    BY DEF Advance, Pipes
  <1>2. q.m_remainLen \in uint16_t /\ q.m_data.off \in Nat
    BY <1>1, PipeFields, MaxPacketEven DEF uint16_t
  <1>3. q \in Pipes
    <2> DEFINE d == [p.m_data EXCEPT !.off = @ + MaxPacket]
               n == p.m_remainLen - MaxPacket
    <2>1. d \in [src : Sources, off : Nat]
      BY PipeFields, MaxPacketEven
    <2>2. q = [p EXCEPT !.m_remainLen = n, !.m_data = d]
      BY DEF Advance, Pipes
    <2>3. n \in uint16_t
      BY <1>1, <1>2
    <2> HIDE DEF d, n
    <2>4. QED
      BY <2>1, <2>2, <2>3 DEF Pipes
  <1>4. RestOK(q)
    BY <1>1, PipeFields, SourceSizeEven, MaxPacketEven DEF RestOK, uint16_t
  <1>5. QED
    BY <1>3, <1>4

LEMMA LastPieceGood ==
    ASSUME NEW p \in Pipes, RestOK(p)
    PROVE  [p EXCEPT !.m_remainLen = 0] \in Pipes /\ RestOK([p EXCEPT !.m_remainLen = 0])
  <1> DEFINE q == [p EXCEPT !.m_remainLen = 0]
  <1>1. q.m_data = p.m_data /\ q.m_remainLen = 0
    BY DEF Pipes
  <1>2. q \in Pipes
    BY DEF Pipes, uint16_t
  <1>3. RestOK(q)
    BY <1>1, PipeFields, SourceSizeEven DEF RestOK, uint16_t
  <1>4. QED
    BY <1>2, <1>3

LEMMA InTransferGood ==
    ASSUME NEW p \in Pipes, RestOK(p), NEW rest \in Seq(GoodOp),
           OnInTransferComplite(p, rest)
    PROVE  pipe' \in Pipes /\ RestOK(pipe') /\ todo' \in Seq(GoodOp)
  <1>1. ASSUME NEW q \in Pipes, RestOK(q), NEW st \in TransferStage,
               NEW first \in Seq(GoodOp), GoToStage(q, st, first, rest)
        PROVE  pipe' \in Pipes /\ RestOK(pipe') /\ todo' \in Seq(GoodOp)
    <2>1. pipe' \in Pipes /\ RestOK(pipe')
      BY <1>1 DEF GoToStage, Pipes, RestOK
    <2>2. todo' \in Seq(GoodOp)
      BY <1>1, StageAccessesGood, ConcatProperties DEF GoToStage
    <2>3. QED
      BY <2>1, <2>2
  <1> DEFINE stages == {"DataIN", "DataINLast", "StatusOUT", "Setup"}
  <1>2. stages \subseteq TransferStage
    BY DEF TransferStage
  <1>3. CASE /\ p.m_remainLen > MaxPacket
             /\ GoToStage(Advance(p), "DataIN", <<Load(Piece(p, MaxPacket))>>, rest)
    <2>1. Load(Piece(p, MaxPacket)) \in GoodOp
      BY <1>3, MaxPacketEven, PieceGood, GoodOps
    <2>2. <<Load(Piece(p, MaxPacket))>> \in Seq(GoodOp)
      BY <2>1
    <2>3. Advance(p) \in Pipes /\ RestOK(Advance(p))
      BY <1>3, AdvanceGood
    <2>4. QED
      BY <1>1, <1>2, <1>3, <2>2, <2>3
  <1>4. CASE /\ p.m_remainLen \in 1 .. MaxPacket
             /\ GoToStage([p EXCEPT !.m_remainLen = 0],
                          IF p.m_len % MaxPacket # 0 THEN "DataINLast" ELSE "DataIN",
                          <<Load(Piece(p, p.m_remainLen))>>, rest)
    <2>1. Load(Piece(p, p.m_remainLen)) \in GoodOp
      BY <1>4, PieceGood, GoodOps
    <2>2. <<Load(Piece(p, p.m_remainLen))>> \in Seq(GoodOp)
      BY <2>1
    <2>3. (IF p.m_len % MaxPacket # 0 THEN "DataINLast" ELSE "DataIN") \in TransferStage
      BY <1>2
    <2>4. QED
      BY <1>1, <1>4, <2>2, <2>3, LastPieceGood
  <1>5. CASE GoToStage(p, "DataINLast", <<Load(ZLP)>>, rest)
    <2>1. <<Load(ZLP)>> \in Seq(GoodOp)
      BY ZLPGood, GoodOps
    <2>2. QED
      BY <1>1, <1>2, <1>5, <2>1
  <1>6. CASE GoToStage(p, "StatusOUT", <<>>, rest)
    BY <1>1, <1>2, <1>6, EmptySeq
  <1>7. CASE GoToStage(p, "Setup", <<>>, rest)
    BY <1>1, <1>2, <1>7, EmptySeq
  <1>8. CASE pipe' = p /\ todo' = rest
    BY <1>8
  <1>9. QED
    BY <1>3, <1>4, <1>5, <1>6, <1>7, <1>8 DEF OnInTransferComplite

-----------------------------------------------------------------------------
(* The invariant, in the parts that the actions disturb separately. *)

LatchOK == latched = {} \/ (todo # <<>> /\ Head(todo) \in AccessorOp /\ \E r \in Register : latched = {r})
PipeOK == pipe \in Pipes /\ RestOK(pipe) /\ todo \in Seq(GoodOp) /\ g_devAddress \in Addresses
          /\ halted \in BOOLEAN
HwOK == /\ epr \in Register /\ daddr \in [ef : BOOLEAN, add : Addresses]
        /\ istrReset \in BOOLEAN /\ rx \in Request
        /\ tx \in Packet /\ GoodPacket(tx)
HostOK == /\ host \in Hosts
          /\ budget \in [resets : 0 .. MaxResets, aborts : 0 .. MaxAborts, lost : 0 .. MaxLost]

LEMMA InvParts == Inv <=> LatchOK /\ PipeOK /\ HwOK /\ HostOK
  <1>1. todo \in Seq(GoodOp) => todo \in Seq(Op)
    BY SeqMonotonic, GoodOp \subseteq Op DEF GoodOp
  <1>2. QED
    BY <1>1 DEF Inv, TypeOK, ReadInv, RestInSource, NoOverread, LatchOK, PipeOK, HwOK, HostOK,
                Pipes, RestOK

LEMMA InvInit == Init => Inv
  <1> SUFFICES ASSUME Init PROVE Inv
    OBVIOUS
  <1>0. 0 \in Addresses
    BY DEF Addresses
  <1>1. LatchOK
    BY DEF Init, PipeInit, LatchOK
  <1>2. PipeOK
    <2>1. Null \in Sources /\ SourceSize(Null) \in Nat
      BY SourceSizeEven DEF Sources
    <2>2. pipe \in Pipes /\ RestOK(pipe)
      BY <2>1 DEF Init, PipeInit, NoTransfer, Pipes, RestOK, TransferStage, uint16_t
    <2>3. todo \in Seq(GoodOp)
      BY EmptySeq DEF Init, PipeInit
    <2>4. g_devAddress \in Addresses /\ halted \in BOOLEAN
      BY <1>0 DEF Init, PipeInit
    <2>5. QED
      BY <2>2, <2>3, <2>4 DEF PipeOK
  <1>3. HwOK
    <2>1. epr \in Register
      BY DEF Init, PipeInit, Register
    <2>2. daddr \in [ef : BOOLEAN, add : Addresses] /\ istrReset \in BOOLEAN
      BY <1>0 DEF Init, PipeInit
    <2>3. rx \in Request
      BY PipeAssumption DEF Init, PipeInit
    <2>4. QED
      BY <2>1, <2>2, <2>3, ZLPGood DEF Init, PipeInit, HwOK
  <1>4. HostOK
    BY PipeAssumption, BusAssumption DEF Init, PipeInit, HostOK, Hosts, Phases, Addresses
  <1>5. QED
    BY <1>1, <1>2, <1>3, <1>4, InvParts

(* The first access of a running handler, and the ones after it. *)
LEMMA NextAccess ==
    ASSUME PipeOK, todo # <<>>
    PROVE  Head(todo) \in GoodOp /\ Tail(todo) \in Seq(GoodOp)
  BY HeadTailProperties DEF PipeOK

(* Only accessors are executed in two steps. *)
LEMMA NothingLatched ==
    ASSUME LatchOK, NEW name \in Calls \cup {"WritePMA"}, Running(name)
    PROVE  latched = {}
  <1>1. Head(todo).op \notin PlainAccessors \cup {"SetRxStatus", "SetTxStatus"}
    BY DEF Running, Calls, PlainAccessors
  <1>2. QED
    BY <1>1 DEF LatchOK, AccessorOp

(* The state a device lookup leaves behind when it sends len bytes of src. *)
LEMMA SendDataGood ==
    ASSUME PipeOK, todo # <<>>, NEW src \in Sources, NEW len \in uint16_t,
           src # Wild => len <= SourceSize(src),
           SendData(src, len)
    PROVE  pipe' \in Pipes /\ RestOK(pipe') /\ todo' \in Seq(GoodOp)
  <1> DEFINE p == [m_transferState |-> "DataIN", m_data |-> [src |-> src, off |-> 0],
                   m_len |-> len, m_remainLen |-> len]
  <1>1. p \in Pipes
    BY DEF Pipes, TransferStage
  <1>2. RestOK(p)
    BY DEF RestOK, uint16_t
  <1>3. OnInTransferComplite(p, Tail(todo))
    BY DEF SendData
  <1>4. Tail(todo) \in Seq(GoodOp)
    BY NextAccess
  <1> HIDE DEF p
  <1>5. QED
    BY <1>1, <1>2, <1>3, <1>4, InTransferGood

-----------------------------------------------------------------------------
(* The steps of the firmware. *)

\* What a firmware step must be shown to preserve: the host does not move.
Kept == LatchOK' /\ PipeOK' /\ HwOK'

(* An interrupt handler starts with a list of calls and accessors. *)
LEMMA DispatchKeeps ==
    ASSUME LatchOK, PipeOK, HwOK, DispatchIn \/ DispatchSetup \/ DispatchOut \/ DispatchReset
    PROVE  Kept
  <1>1. /\ \A name \in PlainAccessors \cup Calls : Do(name) \in GoodOp
        /\ SetTx(NAK) \in GoodOp /\ SetRx(VALID) \in GoodOp
    BY GoodOps DEF Status
  <1>2. /\ {"ClearTxCTR", "ClearRxCTR", "SetType", "SetAddress", "ClearTxDTOG", "ClearRxDTOG"}
               \subseteq PlainAccessors
        /\ {"OnInTransferComplite", "OnOutTransferComplite", "OnSetupTransferComplite",
            "ApplyAddress", "ResetMembers", "EnableFunction"} \subseteq Calls
    BY DEF PlainAccessors, Calls
  <1>3. latched = {} /\ latched' = latched
    BY DEF Ready, LatchOK, DispatchIn, DispatchSetup, DispatchOut, DispatchReset
  <1>4. todo' \in Seq(GoodOp)
    <2>1. CASE DispatchIn
      BY <1>1, <1>2, <2>1 DEF DispatchIn
    <2>2. CASE DispatchSetup
      BY <1>1, <1>2, <2>2 DEF DispatchSetup
    <2>3. CASE DispatchOut
      BY <1>1, <1>2, <2>3 DEF DispatchOut
    <2>4. CASE DispatchReset
      BY <1>1, <1>2, <2>4 DEF DispatchReset
    <2>5. QED
      BY <2>1, <2>2, <2>3, <2>4
  <1>5. UNCHANGED <<pipe, g_devAddress, halted, epr, daddr, tx, rx>> /\ istrReset' \in BOOLEAN
    BY DEF DispatchIn, DispatchSetup, DispatchOut, DispatchReset, hwVars, HwOK
  <1>6. QED
    BY <1>3, <1>4, <1>5 DEF Kept, LatchOK, PipeOK, HwOK, RestOK, GoodPacket, InSource

(* Reading and writing a register: the accessor leaves the list when it writes,
   or at once if it finds that it need not. *)
LEMMA RegisterKeeps ==
    ASSUME LatchOK, PipeOK, HwOK, RegRead \/ RegWrite
    PROVE  Kept
  <1>1. Head(todo) \in GoodOp /\ Tail(todo) \in Seq(GoodOp)
    BY NextAccess DEF RegRead, RegWrite
  <1>2. epr' \in Register
    BY HwWriteClosed DEF HwOK, RegRead, RegWrite, hwVars
  <1>3. todo' \in Seq(GoodOp)
    BY <1>1 DEF RegRead, RegWrite, PipeOK
  <1>4. LatchOK'
    <2>1. CASE RegRead
      BY <2>1 DEF RegRead, LatchOK, HwOK
    <2>2. CASE RegWrite
      BY <2>2 DEF RegWrite, LatchOK
    <2>3. QED
      BY <2>1, <2>2
  <1>5. UNCHANGED <<pipe, g_devAddress, halted, daddr, istrReset, tx, rx>>
    BY DEF RegRead, RegWrite, hwVars
  <1>6. QED
    BY <1>2, <1>3, <1>4, <1>5 DEF Kept, PipeOK, HwOK, RestOK, GoodPacket, InSource

(* Writing the packet buffer: with a packet that was found good when it was put
   on the list. *)
LEMMA WritePMAKeeps ==
    ASSUME LatchOK, PipeOK, HwOK, WritePMA
    PROVE  Kept
  <1>1. Head(todo) \in GoodOp /\ Tail(todo) \in Seq(GoodOp)
    BY NextAccess DEF WritePMA, Running
  <1>2. latched = {}
    BY NothingLatched DEF WritePMA
  <1>3. Head(todo).pkt \in Packet /\ GoodPacket(Head(todo).pkt)
    <2>1. Head(todo).op = "WritePMA" /\ Head(todo) \in Op
      BY <1>1 DEF WritePMA, Running, GoodOp
    <2>2. Head(todo) \in [op : {"WritePMA"}, pkt : Packet]
      BY <2>1 DEF Op, AccessorOp, PlainAccessors, Calls
    <2>3. QED
      BY <1>1, <2>1, <2>2 DEF GoodOp
  <1>4. tx' = Head(todo).pkt /\ todo' = Tail(todo)
        /\ UNCHANGED <<pipe, g_devAddress, latched, halted, epr, daddr, istrReset, rx>>
    BY DEF WritePMA
  <1>5. tx' \in Packet /\ GoodPacket(tx')
    BY <1>3, <1>4
  <1>6. QED
    BY <1>1, <1>2, <1>4, <1>5 DEF Kept, LatchOK, PipeOK, HwOK, RestOK, GoodPacket, InSource

(* What a descriptor lookup finds exists, and the handler sends no more of it
   than the host asks for. *)
LEMMA LookupGood ==
    ASSUME NEW r \in Request, NEW d \in Lookup(r.desc)
    PROVE  /\ d.src \in Sources /\ Smaller(d.len, r.wLength) \in uint16_t
           /\ d.src # Wild => Smaller(d.len, r.wLength) <= SourceSize(d.src)
  <1>1. d.len \in uint16_t /\ d.src \in Sources /\ (d.src # Wild => d.len <= SourceSize(d.src))
    <2>1. CASE r.desc \in DOMAIN DescSize
      <3>1. d = [src |-> r.desc, len |-> DescSize[r.desc]] /\ DescSize[r.desc] \in uint16_t
        BY <2>1, PipeAssumption DEF Lookup
      <3>2. QED
        BY <2>1, <3>1 DEF Sources, SourceSize, uint16_t
    <2>2. CASE r.desc \notin DOMAIN DescSize /\ r.desc = Unknown
      <3>1. d = [src |-> Null, len |-> 0]
        BY <2>2 DEF Lookup
      <3>2. Null \in Sources /\ SourceSize(Null) \in Nat /\ 0 \in uint16_t
        BY SourceSizeEven DEF Sources, uint16_t
      <3>3. QED
        BY <3>1, <3>2
    <2>3. CASE r.desc \notin DOMAIN DescSize /\ r.desc # Unknown
      <3>1. PICK n \in UninitLens : d = [src |-> Wild, len |-> n]
        BY <2>3 DEF Lookup
      <3>2. QED
        BY <3>1, PipeAssumption DEF Sources
    <2>4. QED
      BY <2>1, <2>2, <2>3
  <1>2. r.wLength \in uint16_t
    BY DEF Request
  <1>3. QED
    BY <1>1, <1>2, SourceSizeEven DEF Smaller, uint16_t

(* The handlers of the pipe. *)
LEMMA HandlerKeeps ==
    ASSUME LatchOK, PipeOK, HwOK, InComplete \/ OutComplete \/ SetupComplete
    PROVE  Kept
  <1>1. todo # <<>> /\ Tail(todo) \in Seq(GoodOp) /\ latched = {}
    BY NextAccess, NothingLatched DEF InComplete, OutComplete, SetupComplete, Running, Calls
  <1>2. UNCHANGED <<latched, hwVars>>
    BY DEF InComplete, OutComplete, SetupComplete
  <1>3. SUFFICES pipe' \in Pipes /\ RestOK(pipe') /\ todo' \in Seq(GoodOp)
                 /\ g_devAddress' \in Addresses /\ halted' \in BOOLEAN
    BY <1>1, <1>2 DEF Kept, LatchOK, PipeOK, HwOK, RestOK, GoodPacket, InSource, hwVars
  <1>4. CASE InComplete
    BY <1>1, <1>4, InTransferGood DEF InComplete, PipeOK
  <1>5. CASE OutComplete
    <2>1. CASE pipe.m_transferState = "StatusOUT"
      <3>1. GoToStage(pipe, "Setup", <<Do("ClearStatusOut")>>, Tail(todo))
        BY <1>5, <2>1 DEF OutComplete
      <3>2. <<Do("ClearStatusOut")>> \in Seq(GoodOp)
        BY GoodOps DEF PlainAccessors
      <3>3. todo' \in Seq(GoodOp)
        BY <1>1, <3>1, <3>2, StageAccessesGood, ConcatProperties DEF GoToStage
      <3>4. pipe' \in Pipes /\ RestOK(pipe')
        BY <3>1 DEF GoToStage, PipeOK, Pipes, RestOK, TransferStage
      <3>5. QED
        BY <1>5, <3>3, <3>4 DEF OutComplete, PipeOK
    <2>2. CASE pipe.m_transferState # "StatusOUT"
      BY <1>1, <1>5, <2>2 DEF OutComplete, PipeOK, RestOK
    <2>3. QED
      BY <2>1, <2>2
  <1>6. CASE SetupComplete
    <2>1. CASE Ignore /\ UNCHANGED <<g_devAddress, halted>>
      BY <1>1, <2>1 DEF Ignore, PipeOK, RestOK
    <2>2. CASE rx.kind = "GetDescriptor" /\ GetDescriptor(rx) /\ UNCHANGED <<g_devAddress, halted>>
      <3>1. PICK d \in Lookup(rx.desc) : IF d.len # 0 /\ rx.wLength # 0
                                         THEN SendData(d.src, Smaller(d.len, rx.wLength))
                                         ELSE Ignore
        BY <2>2 DEF GetDescriptor
      <3>2. rx \in Request /\ d.src \in Sources
        BY <3>1, LookupGood DEF HwOK
      <3>3. /\ Smaller(d.len, rx.wLength) \in uint16_t
            /\ d.src # Wild => Smaller(d.len, rx.wLength) <= SourceSize(d.src)
        BY <3>1, <3>2, LookupGood
      <3>5. CASE SendData(d.src, Smaller(d.len, rx.wLength))
        BY <1>1, <2>2, <3>2, <3>3, <3>5, SendDataGood DEF PipeOK
      <3>6. CASE Ignore
        BY <2>1, <2>2, <3>6
      <3>7. QED
        BY <3>1, <3>5, <3>6
    <2>3. CASE /\ rx.kind = "SetAddress"
               /\ g_devAddress' = rx.addr
               /\ GoToStage(pipe, "StatusIN", <<Load(ZLP)>>, Tail(todo))
               /\ UNCHANGED halted
      <3>1. <<Load(ZLP)>> \in Seq(GoodOp)
        BY ZLPGood, GoodOps
      <3>2. todo' \in Seq(GoodOp)
        BY <1>1, <2>3, <3>1, StageAccessesGood, ConcatProperties DEF GoToStage
      <3>3. pipe' \in Pipes /\ RestOK(pipe')
        BY <2>3 DEF GoToStage, PipeOK, Pipes, RestOK, TransferStage
      <3>4. rx.addr \in Addresses
        BY DEF HwOK, Request
      <3>5. QED
        BY <2>3, <3>2, <3>3, <3>4 DEF PipeOK
    <2>4. CASE rx.kind = "GetStatus" /\ SendData(Stack, 2) /\ UNCHANGED <<g_devAddress, halted>>
      <3>1. SourceSize(Stack) = 2 /\ Stack \in Sources /\ 2 \in uint16_t
        BY PipeAssumption DEF SourceSize, Sources, uint16_t
      <3>2. QED
        BY <1>1, <2>4, <3>1, SendDataGood DEF PipeOK
    <2>5. CASE rx.kind = "Unsupported" /\ Breakpoint /\ UNCHANGED g_devAddress
      <3>1. CASE Ignore /\ UNCHANGED halted
        BY <2>1, <2>5, <3>1
      <3>2. CASE todo' = <<>> /\ halted' = TRUE /\ UNCHANGED pipe
        BY <2>5, <3>2, EmptySeq DEF PipeOK, RestOK
      <3>3. QED
        BY <2>5, <3>1, <3>2 DEF Breakpoint
    <2>6. QED
      BY <1>6, <2>1, <2>2, <2>3, <2>4, <2>5 DEF SetupComplete, OnDeviceRequest
  <1>7. QED
    BY <1>4, <1>5, <1>6

(* The remaining calls: taking over the address, and the end of Reset. *)
LEMMA MemberKeeps ==
    ASSUME LatchOK, PipeOK, HwOK, ApplyAddress \/ ResetMembers \/ EnableFunction
    PROVE  Kept
  <1>1. todo # <<>> /\ Tail(todo) \in Seq(GoodOp) /\ latched = {}
    BY NextAccess, NothingLatched DEF ApplyAddress, ResetMembers, EnableFunction, Running, Calls
  <1>2. 0 \in Addresses
    BY DEF Addresses
  <1>3. todo' = Tail(todo) /\ UNCHANGED <<latched, halted, epr, istrReset, tx, rx>>
    BY DEF ApplyAddress, ResetMembers, EnableFunction, hwVars
  <1>4. pipe' \in Pipes /\ RestOK(pipe')
    <2>1. CASE ResetMembers
      <3>1. Null \in Sources /\ SourceSize(Null) \in Nat
        BY SourceSizeEven DEF Sources
      <3>2. QED
        BY <2>1, <3>1 DEF ResetMembers, NoTransfer, Pipes, RestOK, TransferStage, uint16_t
    <2>2. CASE ApplyAddress \/ EnableFunction
      BY <2>2 DEF ApplyAddress, EnableFunction, PipeOK, RestOK
    <2>3. QED
      BY <2>1, <2>2
  <1>5. g_devAddress' \in Addresses
    BY <1>2 DEF ApplyAddress, ResetMembers, EnableFunction, PipeOK
  <1>6. daddr' \in [ef : BOOLEAN, add : Addresses]
    <2>1. \A a \in Addresses : [ef |-> TRUE, add |-> a] \in [ef : BOOLEAN, add : Addresses]
      OBVIOUS
    <2>2. daddr' \in {daddr, [ef |-> TRUE, add |-> g_devAddress], [ef |-> TRUE, add |-> 0]}
      BY DEF ApplyAddress, ResetMembers, EnableFunction, hwVars
    <2>3. QED
      BY <1>2, <2>1, <2>2 DEF PipeOK, HwOK
  <1>7. QED
    BY <1>1, <1>3, <1>4, <1>5, <1>6 DEF Kept, LatchOK, PipeOK, HwOK, GoodPacket, InSource

LEMMA FirmwareKeeps ==
    ASSUME LatchOK, PipeOK, HwOK, Firmware
    PROVE  Kept
  BY DispatchKeeps, RegisterKeeps, WritePMAKeeps, HandlerKeeps, MemberKeeps DEF Firmware

-----------------------------------------------------------------------------
(* The steps of the peripheral and the host. *)

(* What the peripheral makes of the register is a register value. *)
LEMMA HwRegisters ==
    ASSUME NEW r \in Register
    PROVE  HwSetup(r) \in Register /\ HwIn(r) \in Register /\ HwOut(r) \in Register
           /\ HwReset(r) \in Register
  <1>1. /\ {RxBit(i) : i \in NAK} \subseteq Bits /\ {TxBit(i) : i \in NAK} \subseteq Bits
        /\ CTR_RX \subseteq Bits /\ CTR_TX \subseteq Bits /\ SETUP \subseteq Bits
        /\ DTOG_RX \subseteq Bits /\ DTOG_TX \subseteq Bits
    BY StatusBits DEF NAK, Bits, USB_EPREG_MASK, Toggles, EPRX_STAT, EPTX_STAT
  <1>2. QED
    BY <1>1 DEF HwSetup, HwIn, HwOut, HwReset, Register, Xor

LEMMA SetupKeeps ==
    ASSUME LatchOK, PipeOK, HwOK, HostOK, NEW r \in Requests, SendSetup(r)
    PROVE  Kept /\ host' \in Hosts
  <1>1. r \in Request
    BY PipeAssumption
  <1>2. epr' \in Register /\ rx' \in Request
    BY <1>1, HwRegisters DEF SendSetup, HwOK
  <1>3. host' \in Hosts
    <2>1. FirstPhase(r) \in Phases /\ DTOG_TX \in {{}, DTOG_TX} /\ 0 \in Nat
      BY DEF FirstPhase, Phases
    <2>2. <<>> \in Seq(Packet)
      OBVIOUS
    <2>3. QED
      BY <1>1, <2>1, <2>2 DEF SendSetup, HostOK, Hosts
  <1>4. QED
    BY <1>2, <1>3 DEF SendSetup, Kept, LatchOK, PipeOK, HwOK, RestOK, GoodPacket, InSource, pipeVars

LEMMA ReceivedGood ==
    ASSUME HwOK, HostOK
    PROVE  Received \in Hosts
  <1>1. host \in Hosts /\ host.got + tx.len \in Nat
    BY DEF HostOK, HwOK, Hosts, Packet
  <1>2. DTOG_TX \ host.tog \in {{}, DTOG_TX}
    BY <1>1 DEF Hosts, DTOG_TX
  <1>3. (IF tx.len < MaxPacket \/ host.got + tx.len >= host.req.wLength
         THEN "StatusOUT" ELSE "DataIN") \in Phases
    BY DEF Phases
  <1>4. (IF tx.len = 0 THEN host.data ELSE Append(host.data, tx)) \in Seq(Packet)
    BY <1>1 DEF HwOK, Hosts
  <1>5. QED
    BY <1>1, <1>2, <1>3, <1>4 DEF Received, Hosts

LEMMA HostKeeps ==
    ASSUME LatchOK, PipeOK, HwOK, HostOK,
           HostSetup \/ HostAbort \/ Transaction \/ HostInLostAck \/ HostStalled
               \/ HostTimeout \/ HostReset
    PROVE  Kept /\ HostOK'
  <1>0. {MaxResets, MaxAborts, MaxLost} \subseteq Nat
    BY BusAssumption
  <1> DEFINE Same == UNCHANGED <<pipeVars, hwVars>>
  <1>1. ASSUME UNCHANGED <<pipeVars, daddr, istrReset, tx, rx>>, epr' \in Register
        PROVE  Kept
    BY <1>1 DEF Kept, LatchOK, PipeOK, HwOK, RestOK, GoodPacket, InSource, pipeVars
  <1>2. ASSUME Same PROVE Kept
    BY <1>1, <1>2 DEF hwVars, HwOK
  <1>3. CASE HostSetup
    BY <1>3, SetupKeeps DEF HostSetup, HostOK
  <1>4. CASE HostAbort
    <2>1. Kept /\ host' \in Hosts
      BY <1>4, SetupKeeps DEF HostAbort
    <2>2. budget' \in [resets : 0 .. MaxResets, aborts : 0 .. MaxAborts, lost : 0 .. MaxLost]
      BY <1>0, <1>4 DEF HostAbort, HostOK
    <2>3. QED
      BY <2>1, <2>2 DEF HostOK
  <1>5. CASE HostIn
    <2>1. host' \in Hosts
      BY <1>5, ReceivedGood DEF HostIn, HostOK
    <2>2. epr' \in Register
      BY <1>5, HwRegisters DEF HostIn, HwOK
    <2>3. QED
      BY <1>1, <1>5, <2>1, <2>2 DEF HostIn, HostOK
  <1>6. CASE HostStatusIn
    <2>1. host' \in Hosts
      <3>1. host.req \in Requests /\ host.addr \in Addresses
        BY DEF HostOK, Hosts
      <3>2. host.req.addr \in Addresses
        BY <3>1, PipeAssumption DEF Request
      <3>3. "Idle" \in Phases
        BY DEF Phases
      <3>4. QED
        BY <1>6, <3>1, <3>2, <3>3 DEF HostStatusIn, HostOK, Hosts
    <2>2. epr' \in Register
      BY <1>6, HwRegisters DEF HostStatusIn, HwOK
    <2>3. QED
      BY <1>1, <1>6, <2>1, <2>2 DEF HostStatusIn, HostOK
  <1>7. CASE HostStatusOut
    <2>1. host' \in Hosts
      BY <1>7 DEF HostStatusOut, HostOK, Hosts, Phases
    <2>2. epr' \in Register
      BY <1>7, HwRegisters DEF HostStatusOut, HwOK
    <2>3. QED
      BY <1>1, <1>7, <2>1, <2>2 DEF HostStatusOut, HostOK
  <1>8. CASE HostInLostAck
    <2>1. host' \in Hosts
      BY <1>8, ReceivedGood DEF HostInLostAck, HostOK
    <2>2. budget' \in [resets : 0 .. MaxResets, aborts : 0 .. MaxAborts, lost : 0 .. MaxLost]
      BY <1>0, <1>8 DEF HostInLostAck, HostOK
    <2>3. QED
      BY <1>2, <1>8, <2>1, <2>2 DEF HostInLostAck, HostOK
  <1>9. CASE HostStalled \/ HostTimeout
    <2>1. host' \in Hosts /\ Same /\ budget' = budget
      BY <1>9 DEF HostStalled, HostTimeout, HostOK, Hosts, Phases
    <2>2. QED
      BY <1>2, <2>1 DEF HostOK
  <1>10. CASE HostReset
    <2>1. 0 \in Addresses
      BY DEF Addresses
    <2>2. host' \in Hosts
      BY <1>10, <2>1 DEF HostReset, HostOK, Hosts, Phases
    <2>3. budget' \in [resets : 0 .. MaxResets, aborts : 0 .. MaxAborts, lost : 0 .. MaxLost]
      BY <1>0, <1>10 DEF HostReset, HostOK
    <2>4. epr' \in Register
      BY <1>10, HwRegisters DEF HostReset, HwOK
    <2>5. daddr' \in [ef : BOOLEAN, add : Addresses] /\ istrReset' \in BOOLEAN
      BY <1>10, <2>1 DEF HostReset
    <2>6. QED
      BY <1>10, <2>2, <2>3, <2>4, <2>5
         DEF HostReset, Kept, LatchOK, PipeOK, HwOK, HostOK, RestOK, GoodPacket, InSource, pipeVars
  <1>11. QED
    BY <1>3, <1>4, <1>5, <1>6, <1>7, <1>8, <1>9, <1>10 DEF Transaction

-----------------------------------------------------------------------------

LEMMA InvNext == Inv /\ [Next]_vars => Inv'
  <1> SUFFICES ASSUME Inv, [Next]_vars PROVE Inv'
    OBVIOUS
  <1>0. LatchOK /\ PipeOK /\ HwOK /\ HostOK
    BY InvParts
  <1>1. SUFFICES LatchOK' /\ PipeOK' /\ HwOK' /\ HostOK'
    BY InvParts, PTL
  <1>2. CASE Firmware /\ UNCHANGED <<host, budget>>
    BY <1>0, <1>2, FirmwareKeeps DEF Kept, HostOK
  <1>3. CASE HostSetup \/ HostAbort \/ Transaction \/ HostInLostAck \/ HostStalled
                 \/ HostTimeout \/ HostReset
    BY <1>0, <1>3, HostKeeps DEF Kept
  <1>4. CASE UNCHANGED vars
    BY <1>0, <1>4 DEF vars, pipeVars, hwVars, LatchOK, PipeOK, HwOK, HostOK, RestOK,
                      GoodPacket, InSource
  <1>5. QED
    BY <1>2, <1>3, <1>4 DEF Next

(* The members of the pipe, the endpoint register, the packets and the lists of
   accesses keep their types, for all descriptors, requests and bounds. *)
THEOREM TypeCorrect == Spec => []TypeOK
  <1>1. Inv => TypeOK
    BY DEF Inv
  <1>2. QED
    BY InvInit, InvNext, <1>1, PTL DEF Spec

(* No packet comes from beyond its descriptor or exceeds the packet buffer, for
   each packet size usbHwRegs.hpp allows, all descriptors of even size, every
   wLength, and with resets, aborted transfers and lost handshakes anywhere. *)
THEOREM NeverOverreads == Spec => []NoOverread
  <1>1. Inv => NoOverread
    BY DEF Inv, ReadInv
  <1>2. QED
    BY InvInit, InvNext, <1>1, PTL DEF Spec

(* What makes that provable: between any two accesses to the registers the rest
   to be sent lies in its source at an even offset, and every copy that is still
   to be made is good. *)
THEOREM ReadInvHolds == Spec => []ReadInv
  <1>1. Inv => ReadInv
    BY DEF Inv
  <1>2. QED
    BY InvInit, InvNext, <1>1, PTL DEF Spec

-----------------------------------------------------------------------------
(* What an accessor of a handler does to each field of the register.        *)

\* The register after accessor o, which read r, has written it.
After(o, r, now) == HwWrite(now, Written(o, r))

LEMMA WrittenValue ==
    ASSUME NEW o \in AccessorOp, NEW r
    PROVE  \/ o.op = "ClearTxDTOG" /\ Written(o, r) = ClearTxDTOG(r)
           \/ o.op = "ClearRxDTOG" /\ Written(o, r) = ClearRxDTOG(r)
           \/ o.op = "ClearTxCTR" /\ Written(o, r) = ClearTxCTR(r)
           \/ o.op = "ClearRxCTR" /\ Written(o, r) = ClearRxCTR(r)
           \/ o.op = "SetStatusOut" /\ Written(o, r) = SetStatusOut(r)
           \/ o.op = "ClearStatusOut" /\ Written(o, r) = ClearStatusOut(r)
           \/ o.op = "SetAddress" /\ Written(o, r) = SetAddress(r, {})
           \/ o.op = "SetType" /\ Written(o, r) = SetType(r, CTRL)
           \/ o.op = "SetRxStatus" /\ o.status \in Status /\ Written(o, r) = SetRxStatus(r, o.status)
           \/ o.op = "SetTxStatus" /\ o.status \in Status /\ Written(o, r) = SetTxStatus(r, o.status)
  BY DEF AccessorOp, PlainAccessors, Written

(* A status is a set of bit numbers. *)
LEMMA StatusNames ==
    ASSUME NEW s \in Status
    PROVE  {TxBit(i) : i \in s} \subseteq EPTX_STAT /\ {RxBit(i) : i \in s} \subseteq EPRX_STAT
  BY DEF Status, DIS, STALL, NAK, VALID, EPTX_STAT, EPRX_STAT

(* An accessor changes the status of a direction, its toggle or KIND only if that
   is its purpose, and no accessor changes SETUP. *)
LEMMA AccessorFrame ==
    ASSUME NEW o \in AccessorOp, NEW r \in Register, NEW now \in Register
    PROVE  /\ o.op # "SetTxStatus" => After(o, r, now) \cap EPTX_STAT = now \cap EPTX_STAT
           /\ o.op # "SetRxStatus" => After(o, r, now) \cap EPRX_STAT = now \cap EPRX_STAT
           /\ o.op # "ClearTxDTOG" => After(o, r, now) \cap DTOG_TX = now \cap DTOG_TX
           /\ o.op # "ClearRxDTOG" => After(o, r, now) \cap DTOG_RX = now \cap DTOG_RX
           /\ o.op \notin {"SetStatusOut", "ClearStatusOut"} => After(o, r, now) \cap KIND = r \cap KIND
           /\ After(o, r, now) \cap SETUP = now \cap SETUP
  <1> DEFINE v == Written(o, r)
  <1>1. /\ o.op # "SetTxStatus" => v \cap EPTX_STAT = {}
        /\ o.op # "SetRxStatus" => v \cap EPRX_STAT = {}
        /\ o.op # "ClearTxDTOG" => v \cap DTOG_TX = {}
        /\ o.op # "ClearRxDTOG" => v \cap DTOG_RX = {}
        /\ o.op \notin {"SetStatusOut", "ClearStatusOut"} => v \cap KIND = r \cap KIND
    <2> USE StatusBits
        DEF CTRs, CTR_RX, CTR_TX, SETUP, T_FIELD, KIND, EA, DTOG_RX, DTOG_TX, EPTX_STAT, EPRX_STAT, USB_EPREG_MASK
    <2>1. CASE o.op = "SetRxStatus" /\ o.status \in Status /\ v = SetRxStatus(r, o.status)
      BY <2>1, StatusNames DEF SetRxStatus, Xor, USB_EPRX_DTOGMASK
    <2>2. CASE o.op = "SetTxStatus" /\ o.status \in Status /\ v = SetTxStatus(r, o.status)
      BY <2>2, StatusNames DEF SetTxStatus, Xor, USB_EPTX_DTOGMASK
    <2>3. CASE o.op \in {"SetStatusOut", "ClearStatusOut"} /\ v \in {SetStatusOut(r), ClearStatusOut(r)}
      BY <2>3 DEF SetStatusOut, ClearStatusOut, USB_EPKIND_MASK
    <2>4. CASE o.op = "ClearTxDTOG" /\ v = ClearTxDTOG(r)
      BY <2>4 DEF ClearTxDTOG
    <2>5. CASE o.op = "ClearRxDTOG" /\ v = ClearRxDTOG(r)
      BY <2>5 DEF ClearRxDTOG
    <2>6. CASE o.op \in {"ClearTxCTR", "ClearRxCTR"} /\ v \in {ClearTxCTR(r), ClearRxCTR(r)}
      BY <2>6 DEF ClearTxCTR, ClearRxCTR
    <2>7. CASE o.op \in {"SetAddress", "SetType"} /\ v \in {SetAddress(r, {}), SetType(r, CTRL)}
      BY <2>7 DEF SetAddress, SetType, CTRL, USB_EP_T_MASK
    <2>8. QED
      BY <2>1, <2>2, <2>3, <2>4, <2>5, <2>6, <2>7, WrittenValue
  <1> HIDE DEF v
  <1>2. /\ \A b \in Toggles : b \notin v => (b \in HwWrite(now, v) <=> b \in now)
        /\ HwWrite(now, v) \cap KIND = v \cap KIND
        /\ HwWrite(now, v) \cap SETUP = now \cap SETUP
    BY StatusBits DEF HwWrite, Xor, CTR_RX, CTR_TX, SETUP, T_FIELD, KIND, EA, Toggles, DTOG_RX, DTOG_TX,
       EPTX_STAT, EPRX_STAT
  <1>3. After(o, r, now) = HwWrite(now, v)
    BY DEF After, v
  <1>4. EPTX_STAT \cup EPRX_STAT \cup DTOG_TX \cup DTOG_RX \subseteq Toggles
    BY DEF Toggles
  <1>5. QED
    BY <1>1, <1>2, <1>3, <1>4

LEMMA SameStatus ==
    ASSUME NEW r, NEW q
    PROVE  /\ r \cap EPTX_STAT = q \cap EPTX_STAT => TxStatus(r) = TxStatus(q)
           /\ r \cap EPRX_STAT = q \cap EPRX_STAT => RxStatus(r) = RxStatus(q)
  BY DEF TxStatus, RxStatus, EPTX_STAT, EPRX_STAT

(* The status accessors toggle the bits by which the status they want differs
   from the one they read. *)
LEMMA StatusToggled ==
    ASSUME NEW s \in Status, NEW r \in Register, NEW now \in Register
    PROVE  /\ TxStatus(After(SetTx(s), r, now)) = Xor(Xor(TxStatus(r), s), TxStatus(now))
           /\ RxStatus(After(SetRx(s), r, now)) = Xor(Xor(RxStatus(r), s), RxStatus(now))
  <1>1. /\ After(SetTx(s), r, now) = HwWrite(now, SetTxStatus(r, s))
        /\ After(SetRx(s), r, now) = HwWrite(now, SetRxStatus(r, s))
    BY DEF After, Written, SetTx, SetRx
  <1>2. /\ \A i \in {1, 2} : TxBit(i) \in SetTxStatus(r, s) <=> ~((TxBit(i) \in r) <=> (i \in s))
        /\ \A i \in {1, 2} : RxBit(i) \in SetRxStatus(r, s) <=> ~((RxBit(i) \in r) <=> (i \in s))
    BY StatusBits
       DEF Status, DIS, STALL, NAK, VALID, EPTX_STAT, EPRX_STAT, SetTxStatus, SetRxStatus, Xor, CTRs,
           USB_EPTX_DTOGMASK, USB_EPRX_DTOGMASK, USB_EPREG_MASK, CTR_RX, CTR_TX, SETUP, T_FIELD, KIND, EA
  <1>3. \A v : \A b \in EPTX_STAT \cup EPRX_STAT : b \in HwWrite(now, v) <=> ~((b \in now) <=> (b \in v))
    BY StatusBits
       DEF EPTX_STAT, EPRX_STAT, HwWrite, Xor, CTR_RX, CTR_TX, SETUP, T_FIELD, KIND, EA,
           Toggles, DTOG_RX, DTOG_TX
  <1>4. \A i \in {1, 2} : TxBit(i) \in EPTX_STAT /\ RxBit(i) \in EPRX_STAT
    BY DEF EPTX_STAT, EPRX_STAT
  <1>5. s \subseteq {1, 2}
    BY DEF Status, DIS, STALL, NAK, VALID
  <1>6. \A i \in {1, 2} : /\ TxBit(i) \in After(SetTx(s), r, now)
                                  <=> ~(TxBit(i) \in now <=> ~(TxBit(i) \in r <=> i \in s))
                          /\ RxBit(i) \in After(SetRx(s), r, now)
                                  <=> ~(RxBit(i) \in now <=> ~(RxBit(i) \in r <=> i \in s))
    BY <1>1, <1>2, <1>3, <1>4
  <1>7. QED
    BY <1>5, <1>6 DEF TxStatus, RxStatus, Xor

(* The CTR bits: what their own accessors clear, and that nothing sets them. *)
LEMMA AccessorEvents ==
    ASSUME NEW o \in AccessorOp, NEW r \in Register, NEW now \in Register
    PROVE  /\ o.op \notin {"ClearTxCTR", "ClearRxCTR", "SetType"}
                  => After(o, r, now) \cap CTRs = now \cap CTRs
           /\ o.op = "ClearTxCTR" => After(o, r, now) \cap CTRs = now \cap r \cap CTR_RX
           /\ o.op = "ClearRxCTR" => After(o, r, now) \cap CTRs = now \cap r \cap CTR_TX
           /\ o.op = "SetType" => After(o, r, now) \cap CTRs = now \cap r \cap CTRs
           /\ After(o, r, now) \cap CTRs \subseteq now
  <1> DEFINE w == After(o, r, now)
  <1>1. CASE o.op \notin {"ClearTxCTR", "ClearRxCTR", "SetType"}
    <2>1. Written(o, r) \in {SetTxStatus(r, o.status), SetRxStatus(r, o.status), SetStatusOut(r),
                             ClearStatusOut(r), ClearTxDTOG(r), ClearRxDTOG(r), SetAddress(r, {})}
      BY <1>1, WrittenValue
    <2>2. w \cap CTRs = now \cap CTRs
      BY <2>1, EventsSurvive DEF After
    <2>3. QED
      BY <1>1, <2>2
  <1>2. CASE o.op \in {"ClearTxCTR", "ClearRxCTR"}
    BY <1>2, WrittenValue, EventsSurvive DEF After, CTRs
  <1>3. CASE o.op = "SetType"
    <2>1. w = HwWrite(now, SetType(r, CTRL)) /\ CTRL \in SUBSET T_FIELD
      BY <1>3, WrittenValue DEF After, CTRL, T_FIELD
    <2>2. w \cap CTRs = now \cap r \cap CTRs
      BY <2>1, EventsSurvive
    <2>3. QED
      BY <1>3, <2>2
  <1>4. QED
    BY <1>1, <1>2, <1>3

-----------------------------------------------------------------------------
(* The points of a handler. *)

LEMMA ThenIs ==
    ASSUME NEW o \in Op, NEW list \in Seq(Op)
    PROVE  /\ Then(o, list) \in Seq(Op) /\ Then(o, list) # <<>>
           /\ Head(Then(o, list)) = o /\ Tail(Then(o, list)) = list
  <1>1. <<o>> \in Seq(Op) /\ Len(<<o>>) = 1
    OBVIOUS
  <1>2. Then(o, list) \in Seq(Op) /\ Len(Then(o, list)) = 1 + Len(list)
    BY <1>1, ConcatProperties DEF Then
  <1>3. Then(o, list)[1] = o /\ \A i \in 1 .. Len(list) : Then(o, list)[i + 1] = list[i]
    BY <1>1, ConcatProperties DEF Then
  <1>4. Then(o, list) # <<>> /\ Head(Then(o, list)) = o
    BY <1>2, <1>3
  <1>5. Tail(Then(o, list)) \in Seq(Op) /\ Len(Tail(Then(o, list))) = Len(list)
        /\ \A i \in 1 .. Len(list) : Tail(Then(o, list))[i] = Then(o, list)[i + 1]
    BY <1>2, <1>4, HeadTailProperties
  <1>6. Tail(Then(o, list)) = list
    BY <1>3, <1>5, SeqEqual
  <1>7. QED
    BY <1>2, <1>4, <1>6

LEMMA OpsTyped ==
    /\ \A name \in PlainAccessors \cup Calls : Do(name) \in Op /\ Do(name).op = name
    /\ \A name \in PlainAccessors : Do(name) \in AccessorOp
    /\ \A s \in Status : /\ SetRx(s) \in AccessorOp \cap Op /\ SetRx(s).op = "SetRxStatus" /\ SetRx(s).status = s
                         /\ SetTx(s) \in AccessorOp \cap Op /\ SetTx(s).op = "SetTxStatus" /\ SetTx(s).status = s
  BY DEF Do, SetRx, SetTx, Op, AccessorOp

\* "list" begins with a call or accessor without arguments, and "rest" follows.
Begins(list, name, rest) ==
    /\ list \in Seq(Op) /\ list # <<>> /\ Head(list) = Do(name) /\ Head(list).op = name /\ Tail(list) = rest

LEMMA ThenBegins ==
    ASSUME NEW name \in PlainAccessors \cup Calls, NEW rest \in Seq(Op)
    PROVE  Begins(Then(Do(name), rest), name, rest)
  BY ThenIs, OpsTyped DEF Begins

LEMMA NothingTyped == Nothing \in Seq(Op) /\ Nothing = <<>>
  BY DEF Nothing

LEMMA CallLists ==
    /\ Begins(Address, "ApplyAddress", Nothing)
    /\ Begins(InCall, "OnInTransferComplite", Address)
    /\ Begins(InList, "ClearTxCTR", InCall)
    /\ Begins(SetupCall, "OnSetupTransferComplite", Nothing)
    /\ Begins(SetupList, "ClearRxCTR", SetupCall)
    /\ Begins(OutCall, "OnOutTransferComplite", Nothing)
    /\ Begins(OutList, "ClearRxCTR", OutCall)
  <1>1. {"ApplyAddress", "OnInTransferComplite", "ClearTxCTR", "OnSetupTransferComplite", "ClearRxCTR",
         "OnOutTransferComplite"} \subseteq PlainAccessors \cup Calls
    BY DEF PlainAccessors, Calls
  <1>2. Begins(Address, "ApplyAddress", Nothing)
    BY <1>1, ThenBegins, NothingTyped DEF Address
  <1>3. Begins(InCall, "OnInTransferComplite", Address)
    BY <1>1, <1>2, ThenBegins DEF InCall, Begins
  <1>4. Begins(InList, "ClearTxCTR", InCall)
    BY <1>1, <1>3, ThenBegins DEF InList, Begins
  <1>5. Begins(SetupCall, "OnSetupTransferComplite", Nothing)
    BY <1>1, ThenBegins, NothingTyped DEF SetupCall
  <1>6. Begins(SetupList, "ClearRxCTR", SetupCall)
    BY <1>1, <1>5, ThenBegins DEF SetupList, Begins
  <1>7. Begins(OutCall, "OnOutTransferComplite", Nothing)
    BY <1>1, ThenBegins, NothingTyped DEF OutCall
  <1>8. Begins(OutList, "ClearRxCTR", OutCall)
    BY <1>1, <1>7, ThenBegins DEF OutList, Begins
  <1>9. QED
    BY <1>2, <1>3, <1>4, <1>5, <1>6, <1>7, <1>8

LEMMA ResetLists ==
    /\ Begins(Reset1, "EnableFunction", Nothing) /\ Begins(Reset2, "ResetMembers", Reset1)
    /\ Reset3 \in Seq(Op) /\ Reset3 # <<>> /\ Head(Reset3) = SetRx(VALID) /\ Tail(Reset3) = Reset2
    /\ Begins(Reset4, "ClearRxDTOG", Reset3)
    /\ Reset5 \in Seq(Op) /\ Reset5 # <<>> /\ Head(Reset5) = SetTx(NAK) /\ Tail(Reset5) = Reset4
    /\ Begins(Reset6, "ClearTxDTOG", Reset5) /\ Begins(Reset7, "SetAddress", Reset6)
    /\ Begins(Reset8, "SetType", Reset7)
  <1>1. {"EnableFunction", "ResetMembers", "ClearRxDTOG", "ClearTxDTOG", "SetAddress", "SetType"}
            \subseteq PlainAccessors \cup Calls
    BY DEF PlainAccessors, Calls
  <1>2. SetRx(VALID) \in Op /\ SetTx(NAK) \in Op
    BY OpsTyped DEF Status
  <1>3. Begins(Reset1, "EnableFunction", Nothing)
    BY <1>1, ThenBegins, NothingTyped DEF Reset1
  <1>4. Begins(Reset2, "ResetMembers", Reset1)
    BY <1>1, <1>3, ThenBegins DEF Reset2, Begins
  <1>5. Reset3 \in Seq(Op) /\ Reset3 # <<>> /\ Head(Reset3) = SetRx(VALID) /\ Tail(Reset3) = Reset2
    BY <1>2, <1>4, ThenIs DEF Reset3, Begins
  <1>6. Begins(Reset4, "ClearRxDTOG", Reset3)
    BY <1>1, <1>5, ThenBegins DEF Reset4
  <1>7. Reset5 \in Seq(Op) /\ Reset5 # <<>> /\ Head(Reset5) = SetTx(NAK) /\ Tail(Reset5) = Reset4
    BY <1>2, <1>6, ThenIs DEF Reset5, Begins
  <1>8. Begins(Reset6, "ClearTxDTOG", Reset5)
    BY <1>1, <1>7, ThenBegins DEF Reset6
  <1>9. Begins(Reset7, "SetAddress", Reset6)
    BY <1>1, <1>8, ThenBegins DEF Reset7, Begins
  <1>10. Begins(Reset8, "SetType", Reset7)
    BY <1>1, <1>9, ThenBegins DEF Reset8, Begins
  <1>11. QED
    BY <1>3, <1>4, <1>5, <1>6, <1>7, <1>8, <1>9, <1>10

LEMMA StageStatus ==
    ASSUME NEW s \in TransferStage
    PROVE  /\ StageRegisters[s][1] \in {STALL, NAK, VALID} /\ StageRegisters[s][2] \in {STALL, NAK, VALID}
           /\ {STALL, NAK, VALID} \subseteq Status
           /\ StageRegisters[s][2] = VALID <=> s \in {"DataIN", "DataINLast", "StatusIN"}
           /\ s \in {"DataIN", "DataINLast", "StatusIN"} => StageRegisters[s][1] # VALID
  BY DEF TransferStage, StageRegisters, STALL, NAK, VALID, Status

LEMMA StageLists ==
    ASSUME NEW s \in TransferStage, NEW rest \in Ends
    PROVE  /\ rest \in Seq(Op) /\ KindLeft(s, rest) \in Seq(Op)
           /\ s # "StatusOUT" => KindLeft(s, rest) = rest
           /\ s = "StatusOUT" => Begins(KindLeft(s, rest), "SetStatusOut", rest)
           /\ TxLeft(s, rest) \in Seq(Op) /\ TxLeft(s, rest) # <<>>
           /\ Head(TxLeft(s, rest)) = SetTx(StageRegisters[s][2]) /\ Tail(TxLeft(s, rest)) = KindLeft(s, rest)
           /\ RxLeft(s, rest) \in Seq(Op) /\ RxLeft(s, rest) # <<>>
           /\ Head(RxLeft(s, rest)) = SetRx(StageRegisters[s][1]) /\ Tail(RxLeft(s, rest)) = TxLeft(s, rest)
  <1>1. rest \in Seq(Op)
    BY CallLists, NothingTyped DEF Ends, Begins
  <1>2. SetRx(StageRegisters[s][1]) \in Op /\ SetTx(StageRegisters[s][2]) \in Op
    BY StageStatus, OpsTyped
  <1>3. /\ KindLeft(s, rest) \in Seq(Op)
        /\ s # "StatusOUT" => KindLeft(s, rest) = rest
        /\ s = "StatusOUT" => Begins(KindLeft(s, rest), "SetStatusOut", rest)
    BY <1>1, ThenBegins DEF KindLeft, PlainAccessors, Begins
  <1>4. /\ TxLeft(s, rest) \in Seq(Op) /\ TxLeft(s, rest) # <<>>
        /\ Head(TxLeft(s, rest)) = SetTx(StageRegisters[s][2]) /\ Tail(TxLeft(s, rest)) = KindLeft(s, rest)
    BY <1>2, <1>3, ThenIs DEF TxLeft
  <1>5. /\ RxLeft(s, rest) \in Seq(Op) /\ RxLeft(s, rest) # <<>>
        /\ Head(RxLeft(s, rest)) = SetRx(StageRegisters[s][1]) /\ Tail(RxLeft(s, rest)) = TxLeft(s, rest)
    BY <1>2, <1>4, ThenIs DEF RxLeft
  <1>6. QED
    BY <1>1, <1>3, <1>4, <1>5

(* What GoToStage leaves on the list. *)
LEMMA StageAccessesAre ==
    ASSUME NEW s \in TransferStage, NEW rest \in Ends
    PROVE  StageAccesses(s) \o rest = RxLeft(s, rest)
  <1> DEFINE a == SetRx(StageRegisters[s][1])
             b == SetTx(StageRegisters[s][2])
             c == Do("SetStatusOut")
  <1>1. rest \in Seq(Op) /\ a \in Op /\ b \in Op /\ c \in Op
    <2>1. rest \in Seq(Op)
      BY StageLists
    <2>2. a \in Op /\ b \in Op
      BY StageStatus, OpsTyped
    <2>3. c \in Op
      BY OpsTyped DEF PlainAccessors
    <2>4. QED
      BY <2>1, <2>2, <2>3
  <1>2. StageAccesses(s) = IF s = "StatusOUT" THEN <<a, b, c>> ELSE <<a, b>>
    BY DEF StageAccesses, StageRegisters, TransferStage
  <1> HIDE DEF a, b, c
  <1>3. <<a>> \in Seq(Op) /\ <<b>> \in Seq(Op) /\ <<c>> \in Seq(Op) /\ <<b>> \o <<c>> \in Seq(Op)
    BY <1>1
  <1>4. <<a, b>> = <<a>> \o <<b>> /\ <<a, b, c>> = <<a>> \o (<<b>> \o <<c>>)
    <2>1. \A x \in Op, t \in Seq(Op) : <<x>> \o t \in Seq(Op) /\ Len(<<x>> \o t) = 1 + Len(t)
                                       /\ \A i \in 1 .. 1 + Len(t) :
                                              (<<x>> \o t)[i] = IF i = 1 THEN x ELSE t[i - 1]
      <3>1. \A x \in Op : <<x>> \in Seq(Op) /\ Len(<<x>>) = 1 /\ <<x>>[1] = x
        OBVIOUS
      <3>2. QED
        BY <3>1, ConcatProperties
    <2>2. <<a, b>> \in Seq(Op) /\ <<b, c>> \in Seq(Op) /\ <<a, b, c>> \in Seq(Op)
      BY <1>1
    <2>3. ASSUME NEW x \in Op, NEW y \in Op PROVE <<x, y>> = <<x>> \o <<y>>
      <3>1. <<y>> \in Seq(Op) /\ Len(<<y>>) = 1 /\ <<y>>[1] = y
        OBVIOUS
      <3>2. <<x, y>> \in Seq(Op) /\ Len(<<x, y>>) = 2 /\ <<x, y>>[1] = x /\ <<x, y>>[2] = y
        OBVIOUS
      <3> DEFINE u == <<x>> \o <<y>>
                 v == <<x, y>>
      <3>3. u \in Seq(Op) /\ Len(u) = 2 /\ u[1] = x /\ u[2] = y
        BY <2>1, <3>1
      <3> HIDE DEF u
      <3>4. \A i \in 1 .. 2 : v[i] = u[i]
        BY <3>2, <3>3
      <3>5. QED
        BY <3>2, <3>3, <3>4, SeqEqual DEF u
    <2>4. <<a, b, c>> = <<a>> \o <<b, c>>
      BY <1>1, <2>1, <2>2, SeqEqual
    <2>5. QED
      BY <1>1, <2>3, <2>4
  <1>5. CASE s = "StatusOUT"
    <2>1. (<<a>> \o (<<b>> \o <<c>>)) \o rest = <<a>> \o ((<<b>> \o <<c>>) \o rest)
      BY <1>1, <1>3, ConcatAssociative
    <2>2. (<<b>> \o <<c>>) \o rest = <<b>> \o (<<c>> \o rest)
      BY <1>1, <1>3, ConcatAssociative
    <2>3. QED
      BY <1>2, <1>4, <1>5, <2>1, <2>2 DEF RxLeft, TxLeft, KindLeft, Then, a, b, c
  <1>6. CASE s # "StatusOUT"
    <2>1. (<<a>> \o <<b>>) \o rest = <<a>> \o (<<b>> \o rest)
      BY <1>1, <1>3, ConcatAssociative
    <2>2. QED
      BY <1>2, <1>4, <1>6, <2>1 DEF RxLeft, TxLeft, KindLeft, Then, a, b
  <1>7. QED
    BY <1>5, <1>6

LEMMA GoToStageList ==
    ASSUME NEW p \in Pipes, NEW s \in TransferStage, NEW rest \in Ends
    PROVE  /\ GoToStage(p, s, <<>>, rest) => todo' = RxLeft(s, rest)
           /\ \A o \in Op : GoToStage(p, s, <<o>>, rest) => todo' = Then(o, RxLeft(s, rest))
           /\ \A first : GoToStage(p, s, first, rest) =>
                  /\ stage' = s
                  /\ pipe'.m_remainLen = p.m_remainLen /\ pipe'.m_len = p.m_len /\ pipe'.m_data = p.m_data
  <1>1. StageAccesses(s) \in Seq(Op) /\ rest \in Seq(Op) /\ RxLeft(s, rest) \in Seq(Op)
    <2>1. StageAccesses(s) \in Seq(GoodOp) /\ GoodOp \subseteq Op
      BY StageAccessesGood DEF GoodOp
    <2>2. QED
      BY <2>1, StageLists, SeqMonotonic
  <1>2. ASSUME GoToStage(p, s, <<>>, rest) PROVE todo' = RxLeft(s, rest)
    BY <1>1, <1>2, StageAccessesAre, ConcatEmptySeq DEF GoToStage
  <1>3. ASSUME NEW o \in Op, GoToStage(p, s, <<o>>, rest) PROVE todo' = Then(o, RxLeft(s, rest))
    <2>1. <<o>> \in Seq(Op)
      OBVIOUS
    <2>2. (<<o>> \o StageAccesses(s)) \o rest = <<o>> \o (StageAccesses(s) \o rest)
      BY <1>1, <2>1, ConcatAssociative
    <2>3. QED
      BY <1>3, <2>2, StageAccessesAre DEF GoToStage, Then
  <1>4. ASSUME NEW first, GoToStage(p, s, first, rest)
        PROVE  /\ stage' = s
               /\ pipe'.m_remainLen = p.m_remainLen /\ pipe'.m_len = p.m_len /\ pipe'.m_data = p.m_data
    BY <1>4 DEF GoToStage, Pipes, stage
  <1>5. QED
    BY <1>2, <1>3, <1>4

(* The next access at each point, and the point that is reached when it is made. *)
LEMMA PointTails ==
    ASSUME stage \in TransferStage
    PROVE  /\ AtEnd /\ todo # <<>> => todo = Address /\ Head(todo).op = "ApplyAddress" /\ Tail(todo) = Nothing
           /\ todo = InList => Head(todo) = Do("ClearTxCTR") /\ Tail(todo) = InCall
           /\ todo = InCall => Head(todo).op = "OnInTransferComplite" /\ Tail(todo) = Address
           /\ todo = SetupList => Head(todo) = Do("ClearRxCTR") /\ Tail(todo) = SetupCall
           /\ todo = SetupCall => Head(todo).op = "OnSetupTransferComplite" /\ Tail(todo) = Nothing
           /\ todo = OutList => Head(todo) = Do("ClearRxCTR") /\ Tail(todo) = OutCall
           /\ todo = OutCall => Head(todo).op = "OnOutTransferComplite" /\ Tail(todo) = Nothing
           /\ AtLoad => Head(todo).op = "WritePMA" /\ \E rest \in Ends : Tail(todo) = RxLeft(stage, rest)
           /\ AtUnkind => Head(todo) = Do("ClearStatusOut") /\ Tail(todo) = RxLeft(stage, Nothing)
           /\ AtRx => Head(todo) = SetRx(StageRegisters[stage][1]) /\ \E rest \in Ends : Tail(todo) = TxLeft(stage, rest)
           /\ AtTx => Head(todo) = SetTx(StageRegisters[stage][2]) /\ \E rest \in Ends : Tail(todo) = KindLeft(stage, rest)
           /\ AtKind => Head(todo) = Do("SetStatusOut") /\ Tail(todo) \in Ends
  <1>1. AtEnd /\ todo # <<>> => todo = Address /\ Head(todo).op = "ApplyAddress" /\ Tail(todo) = Nothing
    BY CallLists, NothingTyped DEF AtEnd, Ends, Begins
  <1>2. /\ todo = InList => Head(todo) = Do("ClearTxCTR") /\ Tail(todo) = InCall
        /\ todo = InCall => Head(todo).op = "OnInTransferComplite" /\ Tail(todo) = Address
        /\ todo = SetupList => Head(todo) = Do("ClearRxCTR") /\ Tail(todo) = SetupCall
        /\ todo = SetupCall => Head(todo).op = "OnSetupTransferComplite" /\ Tail(todo) = Nothing
        /\ todo = OutList => Head(todo) = Do("ClearRxCTR") /\ Tail(todo) = OutCall
        /\ todo = OutCall => Head(todo).op = "OnOutTransferComplite" /\ Tail(todo) = Nothing
    BY CallLists DEF Begins
  <1>3. AtLoad => Head(todo).op = "WritePMA" /\ \E rest \in Ends : Tail(todo) = RxLeft(stage, rest)
    BY DEF AtLoad
  <1>4. AtUnkind => Head(todo) = Do("ClearStatusOut") /\ Tail(todo) = RxLeft(stage, Nothing)
    <2>1. RxLeft(stage, Nothing) \in Seq(Op) /\ Do("ClearStatusOut") \in Op
      BY StageLists, OpsTyped DEF Ends, PlainAccessors
    <2>2. QED
      BY <2>1, ThenIs DEF AtUnkind
  <1>5. AtRx => Head(todo) = SetRx(StageRegisters[stage][1]) /\ \E rest \in Ends : Tail(todo) = TxLeft(stage, rest)
    BY StageLists DEF AtRx
  <1>6. AtTx => Head(todo) = SetTx(StageRegisters[stage][2]) /\ \E rest \in Ends : Tail(todo) = KindLeft(stage, rest)
    BY StageLists DEF AtTx
  <1>7. AtKind => Head(todo) = Do("SetStatusOut") /\ Tail(todo) \in Ends
    <2>1. SUFFICES ASSUME stage = "StatusOUT", NEW rest \in Ends, todo = KindLeft(stage, rest)
                   PROVE  Head(todo) = Do("SetStatusOut") /\ Tail(todo) \in Ends
      BY DEF AtKind
    <2>2. Begins(KindLeft(stage, rest), "SetStatusOut", rest)
      BY <2>1, StageLists
    <2>3. QED
      BY <2>1, <2>2 DEF Begins
  <1>8. QED
    BY <1>1, <1>2, <1>3, <1>4, <1>5, <1>6, <1>7

\* The access at the head of the list is made and nothing else of the handler changes.
Advanced == todo # <<>> /\ todo' = Tail(todo) /\ pipe' = pipe

LEMMA PointAdvances ==
    ASSUME stage \in TransferStage, Advanced
    PROVE  /\ stage' = stage
           /\ AtEnd => todo' = Nothing
           /\ todo = InList => todo' = InCall
           /\ todo = SetupList => todo' = SetupCall
           /\ todo = OutList => todo' = OutCall
           /\ AtLoad => AtRx'
           /\ AtUnkind => AtRx'
           /\ AtRx => AtTx'
           /\ AtTx => AtKind' \/ AtEnd'
           /\ AtKind => AtEnd'
  <1>1. stage' = stage
    BY DEF Advanced, stage
  <1>2. Nothing \in Ends
    BY DEF Ends
  <1>3. AtTx => AtKind' \/ AtEnd'
    <2>1. SUFFICES ASSUME AtTx PROVE AtKind' \/ AtEnd'
      OBVIOUS
    <2>2. PICK rest \in Ends : Tail(todo) = KindLeft(stage, rest)
      BY <2>1, PointTails
    <2>3. todo' = KindLeft(stage', rest)
      BY <1>1, <2>2 DEF Advanced
    <2>4. CASE stage = "StatusOUT"
      BY <1>1, <2>3, <2>4 DEF AtKind
    <2>5. CASE stage # "StatusOUT"
      BY <1>1, <2>3, <2>5, StageLists DEF AtEnd
    <2>6. QED
      BY <2>4, <2>5
  <1>4. AtKind => AtEnd'
    BY PointTails DEF AtEnd, Advanced
  <1>5. (AtLoad \/ AtUnkind => AtRx') /\ (AtRx => AtTx')
    BY <1>1, <1>2, PointTails DEF AtRx, AtTx, Advanced
  <1>6. QED
    BY <1>1, <1>3, <1>4, <1>5, PointTails DEF Advanced

(* OnInTransferComplite loads a packet in a sending stage or goes to a stage that
   does not send, if it does anything. *)
LEMMA InTransferPoints ==
    ASSUME NEW p \in Pipes, RestOK(p), NEW rest \in Ends, OnInTransferComplite(p, rest)
    PROVE  \/ AtLoad'
           \/ AtRx' /\ stage' = "StatusOUT" /\ p.m_transferState = "DataINLast" /\ p.m_remainLen = 0
           \/ AtRx' /\ stage' = "Setup" /\ p.m_transferState = "StatusIN"
           \/ todo' = rest /\ pipe' = p /\ ~(p.m_transferState \in {"DataIN", "DataINLast", "StatusIN"})
  <1>1. ASSUME NEW q \in Pipes, NEW s \in {"DataIN", "DataINLast"}, NEW pkt \in Packet, GoodPacket(pkt),
               GoToStage(q, s, <<Load(pkt)>>, rest)
        PROVE  AtLoad'
    <2>1. Load(pkt) \in Op /\ Load(pkt).op = "WritePMA"
      BY DEF Load, Op
    <2>2. s \in TransferStage
      BY DEF TransferStage
    <2>3. RxLeft(s, rest) \in Seq(Op)
      BY <2>2, StageLists
    <2>4. todo' = Then(Load(pkt), RxLeft(s, rest)) /\ stage' = s
      BY <1>1, <2>1, <2>2, GoToStageList
    <2>5. todo' # Nothing /\ Head(todo') = Load(pkt) /\ Tail(todo') = RxLeft(s, rest)
      BY <2>1, <2>3, <2>4, ThenIs, NothingTyped
    <2>6. QED
      BY <2>1, <2>4, <2>5 DEF AtLoad, Sending
  <1>2. ASSUME NEW s \in {"Setup", "StatusOUT"}, GoToStage(p, s, <<>>, rest)
        PROVE  AtRx' /\ stage' = s
    <2>1. s \in TransferStage
      BY DEF TransferStage
    <2>2. todo' = RxLeft(s, rest) /\ stage' = s
      BY <1>2, <2>1, GoToStageList
    <2>3. QED
      BY <2>2 DEF AtRx
  <1>3. CASE /\ p.m_remainLen > MaxPacket
             /\ GoToStage(Advance(p), "DataIN", <<Load(Piece(p, MaxPacket))>>, rest)
    BY <1>1, <1>3, AdvanceGood, PieceGood, MaxPacketEven
  <1>4. CASE /\ p.m_remainLen \in 1 .. MaxPacket
             /\ GoToStage([p EXCEPT !.m_remainLen = 0],
                          IF p.m_len % MaxPacket # 0 THEN "DataINLast" ELSE "DataIN",
                          <<Load(Piece(p, p.m_remainLen))>>, rest)
    BY <1>1, <1>4, LastPieceGood, PieceGood
  <1>5. CASE GoToStage(p, "DataINLast", <<Load(ZLP)>>, rest)
    BY <1>1, <1>5, ZLPGood
  <1>6. QED
    BY <1>2, <1>3, <1>4, <1>5 DEF OnInTransferComplite

(* The three completion handlers. *)
LEMMA InCompletePoints ==
    ASSUME Inv, todo = InCall, InComplete
    PROVE  /\ latched' = latched /\ UNCHANGED <<g_devAddress, halted, hwVars>>
           /\ \/ AtLoad'
              \/ AtRx' /\ stage' = "StatusOUT" /\ stage = "DataINLast" /\ pipe.m_remainLen = 0
              \/ AtRx' /\ stage' = "Setup" /\ stage = "StatusIN"
              \/ todo' = Address /\ pipe' = pipe /\ ~Sending
  <1>1. PipeOK /\ stage \in TransferStage
    BY InvParts DEF PipeOK, Pipes, stage
  <1>2. Tail(todo) = Address /\ Address \in Ends
    BY <1>1, PointTails DEF Ends
  <1>3. OnInTransferComplite(pipe, Address) /\ pipe \in Pipes /\ RestOK(pipe)
    BY <1>1, <1>2 DEF InComplete, PipeOK
  <1>4. QED
    BY <1>2, <1>3, InTransferPoints DEF InComplete, Sending, stage

LEMMA OutCompletePoints ==
    ASSUME Inv, todo = OutCall, OutComplete
    PROVE  /\ latched' = latched /\ UNCHANGED <<g_devAddress, halted, hwVars>>
           /\ \/ stage = "StatusOUT" /\ AtUnkind'
              \/ stage # "StatusOUT" /\ todo' = Nothing /\ pipe' = pipe
  <1>1. PipeOK /\ stage \in TransferStage /\ pipe \in Pipes
    BY InvParts DEF PipeOK, Pipes, stage
  <1>2. Tail(todo) = Nothing /\ Nothing = <<>> /\ Nothing \in Ends
    BY <1>1, PointTails DEF Ends, Nothing
  <1>3. CASE stage = "StatusOUT"
    <2>1. GoToStage(pipe, "Setup", <<Do("ClearStatusOut")>>, Nothing)
      BY <1>2, <1>3 DEF OutComplete, stage
    <2>2. Do("ClearStatusOut") \in Op /\ "Setup" \in TransferStage
      BY OpsTyped DEF PlainAccessors, TransferStage
    <2>3. todo' = Then(Do("ClearStatusOut"), RxLeft("Setup", Nothing)) /\ stage' = "Setup"
      BY <1>1, <1>2, <2>1, <2>2, GoToStageList
    <2>4. QED
      BY <1>3, <2>3 DEF AtUnkind, OutComplete
  <1>4. CASE stage # "StatusOUT"
    BY <1>2, <1>4 DEF OutComplete, stage
  <1>5. QED
    BY <1>3, <1>4

LEMMA SendDataPoints ==
    ASSUME Inv, todo = SetupCall, NEW src \in Sources, NEW len \in uint16_t,
           src # Wild => len <= SourceSize(src),
           SendData(src, len)
    PROVE  AtLoad'
  <1> DEFINE p == [m_transferState |-> "DataIN", m_data |-> [src |-> src, off |-> 0],
                   m_len |-> len, m_remainLen |-> len]
  <1>1. p \in Pipes /\ RestOK(p)
    BY DEF Pipes, TransferStage, RestOK, uint16_t
  <1>2. stage \in TransferStage
    BY InvParts DEF PipeOK, Pipes, stage
  <1>3. Tail(todo) = Nothing /\ Nothing \in Ends
    BY <1>2, PointTails DEF Ends
  <1>4. OnInTransferComplite(p, Nothing)
    BY <1>3 DEF SendData
  <1>5. p.m_transferState = "DataIN" /\ p.m_remainLen = len
    OBVIOUS
  <1> HIDE DEF p
  <1>6. QED
    BY <1>1, <1>3, <1>4, <1>5, InTransferPoints

LEMMA SetupCompletePoints ==
    ASSUME Inv, todo = SetupCall, SetupComplete
    PROVE  /\ latched' = latched /\ UNCHANGED hwVars
           /\ \/ stage = "Setup" /\ AtLoad' /\ halted' = halted
              \/ todo' = Nothing /\ pipe' = pipe /\ halted' = halted /\ g_devAddress' = g_devAddress
              \/ halted'
  <1>1. PipeOK /\ HwOK /\ stage \in TransferStage /\ pipe \in Pipes
    BY InvParts DEF PipeOK, Pipes, stage
  <1>2. Tail(todo) = Nothing /\ Nothing = <<>> /\ Nothing \in Ends
    BY <1>1, PointTails DEF Ends, Nothing
  <1>3. CASE Ignore /\ UNCHANGED <<g_devAddress, halted>>
    BY <1>2, <1>3 DEF Ignore, SetupComplete
  <1>4. CASE stage = "Setup" /\ rx.kind = "GetDescriptor" /\ GetDescriptor(rx) /\ UNCHANGED <<g_devAddress, halted>>
    <2>1. PICK d \in Lookup(rx.desc) : IF d.len # 0 /\ rx.wLength # 0
                                       THEN SendData(d.src, Smaller(d.len, rx.wLength))
                                       ELSE Ignore
      BY <1>4 DEF GetDescriptor
    <2>2. CASE SendData(d.src, Smaller(d.len, rx.wLength))
      BY <1>1, <1>4, <2>2, LookupGood, SendDataPoints DEF HwOK, SetupComplete
    <2>3. QED
      BY <1>3, <1>4, <2>1, <2>2
  <1>5. CASE /\ stage = "Setup" /\ rx.kind = "SetAddress" /\ UNCHANGED halted
             /\ GoToStage(pipe, "StatusIN", <<Load(ZLP)>>, Tail(todo))
    <2>1. Load(ZLP) \in Op /\ Load(ZLP).op = "WritePMA" /\ "StatusIN" \in TransferStage
      BY ZLPGood DEF Load, Op, TransferStage
    <2>2. todo' = Then(Load(ZLP), RxLeft("StatusIN", Nothing)) /\ stage' = "StatusIN"
      BY <1>1, <1>2, <1>5, <2>1, GoToStageList
    <2>3. todo' # Nothing /\ Head(todo') = Load(ZLP) /\ Tail(todo') = RxLeft("StatusIN", Nothing)
      BY <1>2, <2>1, <2>2, StageLists, ThenIs
    <2>4. AtLoad'
      BY <1>2, <2>1, <2>2, <2>3 DEF AtLoad, Sending
    <2>5. QED
      BY <1>5, <2>4 DEF SetupComplete
  <1>6. CASE stage = "Setup" /\ rx.kind = "GetStatus" /\ SendData(Stack, 2) /\ UNCHANGED <<g_devAddress, halted>>
    <2>1. SourceSize(Stack) = 2 /\ Stack \in Sources /\ 2 \in uint16_t
      BY PipeAssumption DEF SourceSize, Sources, uint16_t
    <2>2. QED
      BY <1>6, <2>1, SendDataPoints DEF SetupComplete
  <1>7. CASE stage = "Setup" /\ rx.kind = "Unsupported" /\ Breakpoint /\ UNCHANGED g_devAddress
    BY <1>3, <1>7 DEF Breakpoint, SetupComplete
  <1>8. QED
    BY <1>3, <1>4, <1>5, <1>6, <1>7 DEF SetupComplete, OnDeviceRequest, stage

-----------------------------------------------------------------------------
(* What the peripheral does to each field of the register. *)

LEMMA HwSetupFields ==
    ASSUME NEW r \in Register
    PROVE  /\ TxStatus(HwSetup(r)) = NAK /\ RxStatus(HwSetup(r)) = NAK
           /\ CTR_RX \cup SETUP \cup DTOG_RX \cup DTOG_TX \subseteq HwSetup(r)
           /\ HwSetup(r) \cap CTR_TX = r \cap CTR_TX /\ HwSetup(r) \cap KIND = r \cap KIND
  BY StatusBits DEF HwSetup, TxStatus, RxStatus, NAK, CTR_RX, CTR_TX, SETUP, KIND, DTOG_RX, DTOG_TX,
     EPTX_STAT, EPRX_STAT

LEMMA HwInFields ==
    ASSUME NEW r \in Register
    PROVE  /\ TxStatus(HwIn(r)) = NAK /\ RxStatus(HwIn(r)) = RxStatus(r)
           /\ CTR_TX \subseteq HwIn(r) /\ HwIn(r) \cap CTR_RX = r \cap CTR_RX
           /\ HwIn(r) \cap DTOG_TX = DTOG_TX \ r /\ HwIn(r) \cap DTOG_RX = r \cap DTOG_RX
           /\ HwIn(r) \cap SETUP = r \cap SETUP /\ HwIn(r) \cap KIND = r \cap KIND
  BY StatusBits DEF HwIn, Xor, TxStatus, RxStatus, NAK, CTR_RX, CTR_TX, SETUP, KIND, DTOG_RX, DTOG_TX,
     EPTX_STAT, EPRX_STAT

LEMMA HwOutFields ==
    ASSUME NEW r \in Register
    PROVE  /\ TxStatus(HwOut(r)) = TxStatus(r) /\ RxStatus(HwOut(r)) = NAK
           /\ CTR_RX \subseteq HwOut(r) /\ HwOut(r) \cap CTR_TX = r \cap CTR_TX
           /\ HwOut(r) \cap DTOG_TX = r \cap DTOG_TX /\ HwOut(r) \cap DTOG_RX = DTOG_RX \ r
           /\ HwOut(r) \cap SETUP = {} /\ HwOut(r) \cap KIND = r \cap KIND
  BY StatusBits DEF HwOut, Xor, TxStatus, RxStatus, NAK, CTR_RX, CTR_TX, SETUP, KIND, DTOG_RX, DTOG_TX,
     EPTX_STAT, EPRX_STAT

LEMMA HwResetFields ==
    ASSUME NEW r
    PROVE  /\ TxStatus(HwReset(r)) = DIS /\ RxStatus(HwReset(r)) = DIS
           /\ HwReset(r) \cap CTRs = r \cap CTRs /\ HwReset(r) \cap SETUP = {} /\ HwReset(r) \cap KIND = {}
  BY StatusBits DEF HwReset, TxStatus, RxStatus, DIS, CTRs, CTR_RX, CTR_TX, SETUP, KIND

(* The statuses are four different things; toggling between two that are closed
   does not open. *)
LEMMA StatusDistinct == DIS # STALL /\ DIS # NAK /\ DIS # VALID /\ STALL # NAK /\ STALL # VALID /\ NAK # VALID
  BY DEF DIS, STALL, NAK, VALID

LEMMA ClosedToggled ==
    ASSUME NEW a \in {NAK, STALL}, NEW b \in {NAK, STALL}, NEW c \in {NAK, STALL}
    PROVE  Xor(Xor(a, b), c) \in {NAK, STALL}
  BY DEF Xor, NAK, STALL

LEMMA ToggledFrom ==
    ASSUME NEW a, NEW b
    PROVE  Xor(Xor(a, b), a) = b
  BY DEF Xor

-----------------------------------------------------------------------------
(* The transmitter: TxInv. *)

\* A handler other than that of the bus reset runs, or none.
InHandler == AtEnd \/ AtIn \/ AtSetup \/ AtOut \/ AtLoad \/ AtUnkind \/ AtRx \/ AtTx \/ AtKind

LEMMA StageTyped ==
    ASSUME Inv
    PROVE  stage \in TransferStage /\ epr \in Register /\ pipe \in Pipes
  BY InvParts DEF PipeOK, HwOK, Pipes, stage

LEMMA StageOps ==
    ASSUME NEW s \in TransferStage
    PROVE  /\ SetRx(StageRegisters[s][1]) \in AccessorOp /\ SetRx(StageRegisters[s][1]).op = "SetRxStatus"
           /\ SetTx(StageRegisters[s][2]) \in AccessorOp /\ SetTx(StageRegisters[s][2]).op = "SetTxStatus"
  BY StageStatus, OpsTyped

LEMMA HandlerOps ==
    ASSUME Inv, InHandler, todo # <<>>
    PROVE  Head(todo).op \notin {"ClearTxDTOG", "ClearRxDTOG", "SetType", "SetAddress", "ResetMembers",
                                 "EnableFunction"}
  <1>1. {"ClearTxCTR", "ClearRxCTR", "SetStatusOut", "ClearStatusOut"} \subseteq PlainAccessors
    BY DEF PlainAccessors
  <1>2. Head(todo).op \in {"ApplyAddress", "ClearTxCTR", "OnInTransferComplite", "ClearRxCTR",
                           "OnSetupTransferComplite", "OnOutTransferComplite", "WritePMA", "ClearStatusOut",
                           "SetRxStatus", "SetTxStatus", "SetStatusOut"}
    <2>1. CASE AtEnd \/ AtIn \/ AtSetup \/ AtOut
      BY <1>1, <2>1, StageTyped, PointTails, OpsTyped DEF AtIn, AtSetup, AtOut
    <2>2. CASE AtLoad \/ AtUnkind \/ AtKind
      BY <1>1, <2>2, StageTyped, PointTails, OpsTyped
    <2>3. CASE AtRx \/ AtTx
      BY <2>3, StageTyped, PointTails, StageOps
    <2>4. QED
      BY <2>1, <2>2, <2>3 DEF InHandler
  <1>3. QED
    BY <1>2

(* In such a handler an accessor always writes, so that its read changes nothing
   but what is latched. *)
LEMMA HandlerReads ==
    ASSUME Inv, InHandler, RegRead
    PROVE  latched' = {epr} /\ UNCHANGED <<pipe, g_devAddress, todo, halted, hwVars>>
  BY HandlerOps DEF RegRead, Writes

(* A write takes the handler to its next point; it is at none where a call is next. *)
LEMMA HandlerWrites ==
    ASSUME Inv, InHandler, RegWrite
    PROVE  /\ Head(todo) \in AccessorOp
           /\ \E r \in Register : latched = {r} /\ epr' = After(Head(todo), r, epr)
           /\ ~AtEnd /\ todo \notin {InCall, SetupCall, OutCall} /\ ~AtLoad
           /\ Advanced /\ latched' = {} /\ UNCHANGED <<g_devAddress, halted, daddr, istrReset, tx, rx>>
  <1> DEFINE o == Head(todo)
  <1>1. LatchOK
    BY InvParts
  <1>2. PICK r \in latched : epr' = HwWrite(epr, Written(o, r))
    BY DEF RegWrite
  <1>3. latched = {r} /\ r \in Register /\ o \in AccessorOp /\ todo # <<>>
    BY <1>1, <1>2 DEF LatchOK
  <1>4. Advanced /\ latched' = {} /\ UNCHANGED <<g_devAddress, halted, daddr, istrReset, tx, rx>>
    BY DEF RegWrite, Advanced
  <1>5. o.op \in PlainAccessors \cup {"SetRxStatus", "SetTxStatus"}
    BY <1>3 DEF AccessorOp
  <1>6. o.op \notin {"ApplyAddress", "OnInTransferComplite", "OnSetupTransferComplite", "OnOutTransferComplite",
                     "WritePMA"}
    BY <1>5 DEF PlainAccessors
  <1>7. ~AtEnd /\ todo \notin {InCall, SetupCall, OutCall} /\ ~AtLoad
    BY <1>3, <1>6, StageTyped, PointTails
  <1>8. QED
    BY <1>2, <1>3, <1>4, <1>7 DEF After

(* An accessor other than SetTxStatus leaves the transmitter as it is; none
   reports an event or a SETUP. *)
LEMMA AccessorTx ==
    ASSUME Inv, NEW o \in AccessorOp, NEW r \in Register, epr' = After(o, r, epr)
    PROVE  /\ Pending(CTR_TX)' => Pending(CTR_TX)
           /\ Pending(SETUP)' => Pending(SETUP)
           /\ o.op # "SetTxStatus" => TxStatus(epr') = TxStatus(epr)
           /\ o.op = "ClearTxCTR" => ~Pending(CTR_TX)'
  BY StageTyped, AccessorEvents, AccessorFrame, SameStatus DEF Pending, CTRs, CTR_TX, CTR_RX, SETUP

LEMMA TxWriteLive ==
    ASSUME Inv, TxLive, RegWrite
    PROVE  TxLive'
  <1> DEFINE o == Head(todo)
  <1>0. InHandler
    BY DEF TxLive, InHandler, AtIn
  <1>1. PICK r \in Register : latched = {r} /\ epr' = After(o, r, epr)
    BY <1>0, HandlerWrites
  <1>2. /\ o \in AccessorOp /\ Advanced /\ latched' = {} /\ UNCHANGED istrReset
        /\ ~AtEnd /\ todo \notin {InCall, SetupCall, OutCall} /\ ~AtLoad
    BY <1>0, HandlerWrites
  <1>3. /\ Pending(CTR_TX)' => Pending(CTR_TX)
        /\ o.op # "SetTxStatus" => TxStatus(epr') = TxStatus(epr)
        /\ o.op = "ClearTxCTR" => ~Pending(CTR_TX)'
    BY <1>1, <1>2, AccessorTx
  <1>4. stage' = stage /\ (Sending' <=> Sending) /\ ~istrReset'
    BY <1>2 DEF Advanced, stage, Sending, TxLive
  <1>5. o.op # "SetTxStatus" => (TxSettled => TxSettled') /\ (Closed(epr) => Closed(epr'))
    BY <1>3, <1>4 DEF TxSettled, Closed
  <1>6. CASE todo = InList /\ TxStatus(epr) = NAK
    <2>1. o.op = "ClearTxCTR" /\ todo' = InCall
      BY <1>2, <1>6, StageTyped, PointTails, PointAdvances DEF Do
    <2>2. QED
      BY <1>3, <1>4, <1>6, <2>1 DEF TxLive
  <1>7. CASE (AtSetup \/ AtOut) /\ TxSettled
    <2>1. todo \in {SetupList, OutList}
      BY <1>2, <1>7 DEF AtSetup, AtOut
    <2>2. o.op = "ClearRxCTR" /\ todo' \in {SetupCall, OutCall}
      BY <1>2, <2>1, StageTyped, PointTails, PointAdvances DEF Do
    <2>3. QED
      BY <1>4, <1>5, <1>7, <2>2 DEF TxLive, AtSetup, AtOut
  <1>8. CASE AtKind /\ TxSettled
    <2>1. o.op = "SetStatusOut" /\ AtEnd'
      BY <1>2, <1>8, StageTyped, PointTails, PointAdvances DEF Do
    <2>2. QED
      BY <1>4, <1>5, <1>8, <2>1 DEF TxLive
  <1>9. CASE AtUnkind /\ TxSettled
    <2>1. o.op = "ClearStatusOut" /\ AtRx'
      BY <1>2, <1>9, StageTyped, PointTails, PointAdvances DEF Do
    <2>2. ~Sending
      BY <1>9 DEF AtUnkind, Sending
    <2>3. QED
      BY <1>4, <1>5, <1>9, <2>1, <2>2 DEF TxLive, TxSettled
  <1>10. CASE AtRx /\ Closed(epr) /\ ~Pending(CTR_TX)
    <2>1. o.op = "SetRxStatus" /\ AtTx'
      BY <1>2, <1>10, StageTyped, PointTails, PointAdvances, StageOps
    <2>2. QED
      BY <1>2, <1>3, <1>4, <1>5, <1>10, <2>1 DEF TxLive
  <1>11. CASE AtTx /\ Closed(epr) /\ ~Pending(CTR_TX) /\ \A q \in latched : Closed(q)
    <2>1. AtEnd' \/ AtKind'
      BY <1>2, <1>11, StageTyped, PointAdvances
    <2>2. ~Sending => Closed(epr')
      <3> DEFINE s == StageRegisters[stage][2]
      <3>1. SUFFICES ASSUME ~Sending PROVE Closed(epr')
        OBVIOUS
      <3>2. s \in {NAK, STALL} /\ s \in Status
        BY <3>1, StageTyped, StageStatus DEF Sending
      <3>3. o = SetTx(s)
        BY <1>11, StageTyped, PointTails
      <3>4. TxStatus(epr') = Xor(Xor(TxStatus(r), s), TxStatus(epr))
        BY <1>1, <3>2, <3>3, StageTyped, StatusToggled
      <3>5. TxStatus(r) \in {NAK, STALL} /\ TxStatus(epr) \in {NAK, STALL}
        BY <1>1, <1>11 DEF Closed
      <3> HIDE DEF s
      <3>6. QED
        BY <3>2, <3>4, <3>5, ClosedToggled DEF Closed
    <2>3. TxSettled'
      BY <1>3, <1>4, <1>11, <2>2 DEF TxSettled, Closed
    <2>4. QED
      BY <1>4, <2>1, <2>3 DEF TxLive
  <1>12. QED
    BY <1>2, <1>6, <1>7, <1>8, <1>9, <1>10, <1>11 DEF TxLive

LEMMA TxWriteInterrupted ==
    ASSUME Inv, TxInterrupted, RegWrite, UNCHANGED host
    PROVE  TxInterrupted'
  <1> DEFINE o == Head(todo)
  <1>0. InHandler
    BY DEF TxInterrupted, InHandler, AtIn
  <1>1. PICK r \in Register : latched = {r} /\ epr' = After(o, r, epr)
    BY <1>0, HandlerWrites
  <1>2. /\ o \in AccessorOp /\ Advanced /\ latched' = {} /\ UNCHANGED istrReset
        /\ ~AtEnd /\ todo \notin {InCall, SetupCall, OutCall} /\ ~AtLoad
    BY <1>0, HandlerWrites
  <1>3. /\ Pending(CTR_TX)' => Pending(CTR_TX)
        /\ Pending(SETUP)' => Pending(SETUP)
        /\ o.op # "SetTxStatus" => TxStatus(epr') = TxStatus(epr)
        /\ o.op = "ClearTxCTR" => ~Pending(CTR_TX)'
    BY <1>1, <1>2, AccessorTx
  <1>4. stage' = stage /\ (Sending' <=> Sending) /\ istrReset' /\ host'.phase = "Reset" /\ ~Pending(SETUP)'
    BY <1>2, <1>3 DEF Advanced, stage, Sending, TxInterrupted
  <1>5. o.op # "SetTxStatus" => (Pending(CTR_TX)' => Sending' /\ TxStatus(epr') = DIS)
    BY <1>3, <1>4 DEF TxInterrupted
  <1>6. CASE todo = InList /\ TxStatus(epr) = DIS
    <2>1. o.op = "ClearTxCTR" /\ todo' = InCall
      BY <1>2, <1>6, StageTyped, PointTails, PointAdvances DEF Do
    <2>2. QED
      BY <1>3, <1>4, <1>6, <2>1 DEF TxInterrupted
  <1>7. CASE AtSetup /\ (stage = "Setup" => TxStatus(epr) = DIS)
    <2>1. todo = SetupList
      BY <1>2, <1>7 DEF AtSetup
    <2>2. o.op = "ClearRxCTR" /\ todo' = SetupCall
      BY <1>2, <2>1, StageTyped, PointTails, PointAdvances DEF Do
    <2>3. QED
      BY <1>3, <1>4, <1>5, <1>7, <2>2 DEF TxInterrupted, AtSetup
  <1>8. CASE AtOut
    <2>1. todo = OutList
      BY <1>2, <1>8 DEF AtOut
    <2>2. o.op = "ClearRxCTR" /\ todo' = OutCall
      BY <1>2, <2>1, StageTyped, PointTails, PointAdvances DEF Do
    <2>3. QED
      BY <1>4, <1>5, <2>2 DEF TxInterrupted, AtOut
  <1>9. CASE AtKind
    <2>1. o.op = "SetStatusOut" /\ AtEnd'
      BY <1>2, <1>9, StageTyped, PointTails, PointAdvances DEF Do
    <2>2. QED
      BY <1>4, <1>5, <2>1 DEF TxInterrupted
  <1>10. CASE AtUnkind
    <2>1. o.op = "ClearStatusOut" /\ AtRx'
      BY <1>2, <1>10, StageTyped, PointTails, PointAdvances DEF Do
    <2>2. ~Sending
      BY <1>10 DEF AtUnkind, Sending
    <2>3. QED
      BY <1>4, <1>5, <2>1, <2>2 DEF TxInterrupted
  <1>11. CASE (AtRx \/ AtTx) /\ ~Pending(CTR_TX)
    <2>1. AtTx' \/ AtEnd' \/ AtKind'
      BY <1>2, <1>11, StageTyped, PointAdvances
    <2>2. QED
      BY <1>3, <1>4, <1>11, <2>1 DEF TxInterrupted
  <1>12. QED
    BY <1>2, <1>6, <1>7, <1>8, <1>9, <1>10, <1>11 DEF TxInterrupted

(* The handler of the reset makes its accesses undisturbed. *)
LEMMA TxReset ==
    ASSUME Inv, InReset, Firmware, UNCHANGED host
    PROVE  InReset' \/ (TxLive' /\ AtEnd' /\ ~Sending' /\ (epr \cap CTRs)' = {})
  <1> DEFINE o == Head(todo)
  <1>1. /\ todo \in {Reset8, Reset7, Reset6, Reset5, Reset4, Reset3, Reset2, Reset1} /\ todo # <<>>
        /\ o.op \in {"SetType", "SetAddress", "ClearTxDTOG", "SetTxStatus", "ClearRxDTOG", "SetRxStatus",
                     "ResetMembers", "EnableFunction"}
        /\ todo \in {Reset8, Reset7, Reset6, Reset5, Reset4, Reset3} => o \in AccessorOp
    <2>1. todo \in {Reset8, Reset7, Reset6, Reset5, Reset4, Reset3, Reset2, Reset1}
      BY DEF InReset
    <2>2. VALID \in Status /\ NAK \in Status
      BY DEF Status
    <2>3. {"SetType", "SetAddress", "ClearTxDTOG", "ClearRxDTOG"} \subseteq PlainAccessors
      BY DEF PlainAccessors
    <2>4. QED
      BY <2>1, <2>2, <2>3, ResetLists, OpsTyped DEF Begins
  <1>2. RegRead \/ RegWrite \/ ResetMembers \/ EnableFunction
    BY <1>1 DEF Firmware, WritePMA, InComplete, OutComplete, SetupComplete, ApplyAddress, Running,
                DispatchIn, DispatchSetup, DispatchOut, DispatchReset, Ready
  <1>3. ~istrReset /\ host.phase = "Reset" /\ epr \cap CTRs = {} /\ latched \subseteq {epr} /\ epr \in Register
    BY StageTyped DEF InReset
  <1>4. CASE RegRead /\ todo' = todo
    <2>1. latched' = {epr} /\ UNCHANGED <<todo, pipe, epr, istrReset>>
      BY <1>1, <1>4, ResetLists DEF RegRead, hwVars, Begins
    <2>2. QED
      BY <1>3, <2>1 DEF InReset, stage
  <1>5. ASSUME todo' = Tail(todo), UNCHANGED <<pipe, istrReset>>, latched' \subseteq {epr'},
               epr' \cap CTRs = {},
               o.op \notin {"SetTxStatus", "ResetMembers", "EnableFunction"},
               TxStatus(epr') = TxStatus(epr)
        PROVE  InReset'
    <2>1. SetTx(NAK).op = "SetTxStatus"
      BY OpsTyped DEF Status
    <2>2. todo \in {Reset8, Reset7, Reset6, Reset4, Reset3}
      BY <1>1, <1>5, <2>1, ResetLists DEF Begins
    <2>3. CASE todo \in {Reset8, Reset7, Reset6}
      <3>1. todo' \in {Reset7, Reset6, Reset5}
        BY <1>5, <2>3, ResetLists DEF Begins
      <3>2. QED
        BY <1>3, <1>5, <3>1 DEF InReset
    <2>4. CASE todo \in {Reset4, Reset3}
      <3>1. todo' \in {Reset3, Reset2}
        BY <1>5, <2>4, ResetLists DEF Begins
      <3>2. VALID \in Status /\ NAK \in Status
        BY DEF Status
      <3>3. todo \notin {Reset8, Reset7, Reset6, Reset5, Reset1}
        BY <2>4, <3>2, ResetLists, OpsTyped DEF Begins
      <3>4. TxStatus(epr) = NAK
        BY <3>3 DEF InReset
      <3>5. QED
        BY <1>3, <1>5, <3>1, <3>4 DEF InReset
    <2>5. QED
      BY <2>2, <2>3, <2>4
  <1>6. CASE RegRead /\ todo' # todo
    <2>1. todo' = Tail(todo) /\ UNCHANGED <<pipe, istrReset, latched, epr>> /\ o.op \in {"ClearTxDTOG", "ClearRxDTOG"}
      BY <1>6 DEF RegRead, Writes, hwVars
    <2>2. latched' = {} /\ epr' \cap CTRs = {} /\ TxStatus(epr') = TxStatus(epr)
      BY <1>3, <1>6, <2>1 DEF RegRead
    <2>3. QED
      BY <1>5, <2>1, <2>2
  <1>7. CASE RegWrite
    <2>1. o \in AccessorOp /\ epr' = After(o, epr, epr) /\ todo' = Tail(todo) /\ latched' = {}
          /\ UNCHANGED <<pipe, istrReset>>
      <3>1. latched # {} /\ o \in AccessorOp
        BY <1>7, InvParts DEF RegWrite, LatchOK
      <3>2. QED
        BY <1>3, <1>7, <3>1 DEF RegWrite, After
    <2>2. epr' \cap CTRs = {}
      BY <1>3, <2>1, AccessorEvents
    <2>3. CASE o.op # "SetTxStatus"
      <3>1. TxStatus(epr') = TxStatus(epr)
        BY <1>3, <2>1, <2>3, AccessorTx
      <3>2. o.op \notin {"ResetMembers", "EnableFunction"}
        BY <2>1 DEF AccessorOp, PlainAccessors
      <3>3. QED
        BY <1>5, <2>1, <2>2, <2>3, <3>1, <3>2
    <2>4. CASE o.op = "SetTxStatus"
      <3>1. todo = Reset5 /\ o = SetTx(NAK) /\ todo' = Reset4 /\ NAK \in Status
        BY <1>1, <2>1, <2>4, ResetLists, OpsTyped DEF Begins, Status
      <3>2. TxStatus(epr') = Xor(Xor(TxStatus(epr), NAK), TxStatus(epr))
        BY <1>3, <2>1, <3>1, StatusToggled
      <3>3. TxStatus(epr') = NAK
        BY <3>2, ToggledFrom
      <3>4. QED
        BY <1>3, <2>1, <2>2, <3>1, <3>3 DEF InReset
    <2>5. QED
      BY <2>3, <2>4
  <1>8. CASE ResetMembers
    <2>1. todo = Reset2 /\ todo' = Reset1
      BY <1>1, <1>8, ResetLists, OpsTyped DEF ResetMembers, Running, Begins, Status
    <2>2. stage' = "Setup" /\ UNCHANGED <<latched, epr, istrReset>>
      BY <1>8 DEF ResetMembers, NoTransfer, stage, hwVars
    <2>3. Reset2 \notin {Reset8, Reset7, Reset6, Reset5, Reset1}
      BY ResetLists, OpsTyped DEF Begins, Status
    <2>4. TxStatus(epr) = NAK
      BY <2>1, <2>3 DEF InReset
    <2>5. QED
      BY <1>3, <2>1, <2>2, <2>4 DEF InReset
  <1>9. CASE EnableFunction
    <2>1. todo = Reset1 /\ todo' = Nothing
      BY <1>1, <1>9, ResetLists, OpsTyped DEF EnableFunction, Running, Begins, Status
    <2>2. UNCHANGED <<pipe, latched, epr, istrReset>>
      BY <1>9 DEF EnableFunction
    <2>3. Reset1 \notin {Reset8, Reset7, Reset6, Reset5, Reset4, Reset3, Reset2}
      BY ResetLists, OpsTyped DEF Begins, Status
    <2>4. TxStatus(epr) = NAK /\ stage = "Setup"
      BY <2>1, <2>3 DEF InReset
    <2>5. Closed(epr') /\ ~Pending(CTR_TX)' /\ ~Sending' /\ AtEnd' /\ ~istrReset' /\ epr' \cap CTRs = {}
      BY <1>3, <2>1, <2>2, <2>4 DEF Closed, Pending, CTRs, CTR_TX, Sending, stage, AtEnd, Ends
    <2>6. QED
      BY <2>5 DEF TxLive, TxSettled
  <1>10. QED
    BY <1>2, <1>4, <1>6, <1>7, <1>8, <1>9

(* Which call or accessor is next tells the points apart. *)
LEMMA PointOps ==
    ASSUME Inv
    PROVE  /\ todo = <<>> => AtEnd /\ ~AtIn /\ ~AtSetup /\ ~AtOut /\ ~AtLoad /\ ~AtUnkind /\ ~AtRx /\ ~AtTx /\ ~AtKind
           /\ AtEnd /\ todo # <<>> => todo = Address /\ Head(todo).op = "ApplyAddress"
           /\ todo = InList => Head(todo).op = "ClearTxCTR"
           /\ todo = InCall => Head(todo).op = "OnInTransferComplite"
           /\ todo = SetupList => Head(todo).op = "ClearRxCTR"
           /\ todo = SetupCall => Head(todo).op = "OnSetupTransferComplite"
           /\ todo = OutList => Head(todo).op = "ClearRxCTR"
           /\ todo = OutCall => Head(todo).op = "OnOutTransferComplite"
           /\ AtLoad => Head(todo).op = "WritePMA"
           /\ AtUnkind => Head(todo).op = "ClearStatusOut"
           /\ AtRx => Head(todo).op = "SetRxStatus"
           /\ AtTx => Head(todo).op = "SetTxStatus"
           /\ AtKind => Head(todo).op = "SetStatusOut"
  <1>1. todo = <<>> => AtEnd /\ ~AtIn /\ ~AtSetup /\ ~AtOut /\ ~AtLoad /\ ~AtUnkind /\ ~AtRx /\ ~AtTx /\ ~AtKind
    <2>1. SUFFICES ASSUME todo = <<>>
                   PROVE  AtEnd /\ ~AtIn /\ ~AtSetup /\ ~AtOut /\ ~AtLoad /\ ~AtUnkind /\ ~AtRx /\ ~AtTx /\ ~AtKind
      OBVIOUS
    <2>2. AtEnd
      BY <2>1 DEF AtEnd, Ends, Nothing
    <2>3. ~AtIn /\ ~AtSetup /\ ~AtOut
      BY <2>1, CallLists DEF AtIn, AtSetup, AtOut, Begins
    <2>4. ~AtLoad
      BY <2>1 DEF AtLoad, Nothing
    <2>5. ~AtRx /\ ~AtTx
      BY <2>1, StageTyped, StageLists DEF AtRx, AtTx
    <2>6. ~AtUnkind
      <3>1. RxLeft(stage, Nothing) \in Seq(Op) /\ Do("ClearStatusOut") \in Op
        BY StageTyped, StageLists, OpsTyped DEF Ends, PlainAccessors
      <3>2. QED
        BY <2>1, <3>1, ThenIs DEF AtUnkind
    <2>7. ~AtKind
      <3>1. SUFFICES ASSUME stage = "StatusOUT", NEW rest \in Ends PROVE KindLeft(stage, rest) # <<>>
        BY <2>1 DEF AtKind
      <3>2. Begins(KindLeft(stage, rest), "SetStatusOut", rest)
        BY <3>1, StageTyped, StageLists
      <3>3. QED
        BY <3>2 DEF Begins
    <2>8. QED
      BY <2>2, <2>3, <2>4, <2>5, <2>6, <2>7
  <1>2. \A name : Do(name).op = name
    BY DEF Do
  <1>3. /\ AtRx => Head(todo).op = "SetRxStatus"
        /\ AtTx => Head(todo).op = "SetTxStatus"
    BY StageTyped, PointTails, StageOps
  <1>4. QED
    BY <1>1, <1>2, <1>3, StageTyped, PointTails

(* A list is its first access and the list of those after it. *)
LEMMA Grows ==
    ASSUME NEW o \in Op, NEW list \in Seq(Op), NEW whole \in Seq(Op), Len(whole) = Len(list) + 1,
           whole[1] = o, \A i \in 1 .. Len(list) : whole[i + 1] = list[i]
    PROVE  whole = Then(o, list)
  <1>1. <<o>> \in Seq(Op) /\ Len(<<o>>) = 1 /\ <<o>>[1] = o
    OBVIOUS
  <1>2. Then(o, list) \in Seq(Op) /\ Len(Then(o, list)) = 1 + Len(list)
    BY <1>1, ConcatProperties DEF Then
  <1>3. Len(list) \in Nat
    OBVIOUS
  <1>4. \A i \in 1 .. 1 + Len(list) : Then(o, list)[i] = IF i = 1 THEN o ELSE list[i - 1]
    BY <1>1, <1>3, ConcatProperties DEF Then
  <1>5. \A i \in 1 .. Len(whole) : whole[i] = Then(o, list)[i]
    <2>1. SUFFICES ASSUME NEW i \in 1 .. Len(whole) PROVE whole[i] = Then(o, list)[i]
      OBVIOUS
    <2>2. CASE i = 1
      BY <1>3, <1>4, <2>2
    <2>3. CASE i # 1
      <3>1. i - 1 \in 1 .. Len(list) /\ (i - 1) + 1 = i
        BY <1>3, <2>3
      <3>2. whole[i] = list[i - 1]
        BY <3>1
      <3>3. QED
        BY <1>3, <1>4, <2>3, <3>2
    <2>4. QED
      BY <2>2, <2>3
  <1>6. QED
    BY <1>2, <1>5, SeqEqual

LEMMA SplitList ==
    ASSUME NEW whole \in Seq(Op), whole # <<>>
    PROVE  whole = Then(Head(whole), Tail(whole))
  <1>1. Head(whole) \in Op /\ Tail(whole) \in Seq(Op) /\ Len(Tail(whole)) = Len(whole) - 1
        /\ \A i \in 1 .. Len(Tail(whole)) : Tail(whole)[i] = whole[i + 1]
    BY HeadTailProperties
  <1>2. Len(whole) = Len(Tail(whole)) + 1 /\ whole[1] = Head(whole)
    BY <1>1
  <1>3. QED
    BY <1>1, <1>2, Grows

LEMMA ShortLists ==
    ASSUME NEW a \in Op, NEW b \in Op, NEW c \in Op
    PROVE  /\ <<a>> = Then(a, Nothing)
           /\ <<a, b>> = Then(a, <<b>>)
           /\ <<a, b, c>> = Then(a, <<b, c>>)
  <1>1. ASSUME NEW x \in Op PROVE <<x>> = Then(x, Nothing)
    <2>1. <<x>> \in Seq(Op) /\ <<x>> # <<>> /\ Head(<<x>>) = x /\ Tail(<<x>>) = <<>>
      OBVIOUS
    <2>2. QED
      BY <2>1, SplitList, NothingTyped
  <1>2. ASSUME NEW x \in Op, NEW y \in Op PROVE <<x, y>> = Then(x, <<y>>)
    <2>1. <<x, y>> \in Seq(Op) /\ <<x, y>> # <<>> /\ Head(<<x, y>>) = x /\ Tail(<<x, y>>) = <<y>>
      OBVIOUS
    <2>2. QED
      BY <2>1, SplitList
  <1>3. ASSUME NEW x \in Op, NEW y \in Op, NEW z \in Op PROVE <<x, y, z>> = Then(x, <<y, z>>)
    <2>1. <<x, y, z>> \in Seq(Op) /\ <<x, y, z>> # <<>> /\ Head(<<x, y, z>>) = x
          /\ Tail(<<x, y, z>>) = <<y, z>>
      OBVIOUS
    <2>2. QED
      BY <2>1, SplitList
  <1>4. QED
    BY <1>1, <1>2, <1>3

LEMMA ResetTuple ==
    <<Do("SetType"), Do("SetAddress"), Do("ClearTxDTOG"), SetTx(NAK),
      Do("ClearRxDTOG"), SetRx(VALID), Do("ResetMembers"), Do("EnableFunction")>> = Reset8
  <1> DEFINE a == Do("SetType")
             b == Do("SetAddress")
             c == Do("ClearTxDTOG")
             d == SetTx(NAK)
             e == Do("ClearRxDTOG")
             f == SetRx(VALID)
             g == Do("ResetMembers")
             h == Do("EnableFunction")
  <1>1. a \in Op /\ b \in Op /\ c \in Op /\ d \in Op /\ e \in Op /\ f \in Op /\ g \in Op /\ h \in Op
    <2>1. {"SetType", "SetAddress", "ClearTxDTOG", "ClearRxDTOG", "ResetMembers", "EnableFunction"}
              \subseteq PlainAccessors \cup Calls
      BY DEF PlainAccessors, Calls
    <2>2. SetTx(NAK) \in Op /\ SetRx(VALID) \in Op
      BY OpsTyped DEF Status
    <2>3. QED
      BY <2>1, <2>2, OpsTyped
  <1>2. Reset8 = Then(a, Then(b, Then(c, Then(d, Then(e, Then(f, Then(g, Then(h, Nothing))))))))
    BY DEF Reset8, Reset7, Reset6, Reset5, Reset4, Reset3, Reset2, Reset1
  <1> HIDE DEF a, b, c, d, e, f, g, h
  <1>3. <<h>> = Then(h, Nothing) /\ <<g, h>> = Then(g, <<h>>) /\ <<f, g, h>> = Then(f, <<g, h>>)
    BY <1>1, ShortLists
  <1>4. <<e, f, g, h>> = Then(e, <<f, g, h>>)
    <2>1. /\ <<e, f, g, h>> \in Seq(Op) /\ <<e, f, g, h>> # <<>>
          /\ Head(<<e, f, g, h>>) = e /\ Tail(<<e, f, g, h>>) = <<f, g, h>>
      BY <1>1
    <2>2. QED
      BY <2>1, SplitList
  <1>5. <<d, e, f, g, h>> = Then(d, <<e, f, g, h>>)
    <2>1. /\ <<d, e, f, g, h>> \in Seq(Op) /\ <<d, e, f, g, h>> # <<>>
          /\ Head(<<d, e, f, g, h>>) = d /\ Tail(<<d, e, f, g, h>>) = <<e, f, g, h>>
      BY <1>1
    <2>2. QED
      BY <2>1, SplitList
  <1>6. <<c, d, e, f, g, h>> = Then(c, <<d, e, f, g, h>>)
    <2>1. /\ <<c, d, e, f, g, h>> \in Seq(Op) /\ <<c, d, e, f, g, h>> # <<>>
          /\ Head(<<c, d, e, f, g, h>>) = c /\ Tail(<<c, d, e, f, g, h>>) = <<d, e, f, g, h>>
      BY <1>1
    <2>2. QED
      BY <2>1, SplitList
  <1>7. <<b, c, d, e, f, g, h>> = Then(b, <<c, d, e, f, g, h>>)
    <2>1. /\ <<b, c, d, e, f, g, h>> \in Seq(Op) /\ <<b, c, d, e, f, g, h>> # <<>>
          /\ Head(<<b, c, d, e, f, g, h>>) = b /\ Tail(<<b, c, d, e, f, g, h>>) = <<c, d, e, f, g, h>>
      BY <1>1
    <2>2. QED
      BY <2>1, SplitList
  <1>8. <<a, b, c, d, e, f, g, h>> = Then(a, <<b, c, d, e, f, g, h>>)
    <2>1. /\ <<a, b, c, d, e, f, g, h>> \in Seq(Op) /\ <<a, b, c, d, e, f, g, h>> # <<>>
          /\ Head(<<a, b, c, d, e, f, g, h>>) = a /\ Tail(<<a, b, c, d, e, f, g, h>>) = <<b, c, d, e, f, g, h>>
      BY <1>1
    <2>2. QED
      BY <2>1, SplitList
  <1>9. <<a, b, c, d, e, f, g, h>> = Reset8
    BY <1>3, <1>4, <1>5, <1>6, <1>7, <1>8, <1>2
  <1>10. QED
    BY <1>9 DEF a, b, c, d, e, f, g, h

(* What an interrupt handler starts with. *)
LEMMA DispatchLists ==
    /\ DispatchIn => todo' = InList
    /\ DispatchSetup => todo' = SetupList
    /\ DispatchOut => todo' = OutList
    /\ DispatchReset => todo' = Reset8
  <1>1. \A name \in PlainAccessors \cup Calls : Do(name) \in Op
    BY OpsTyped
  <1>2. {"ClearTxCTR", "ClearRxCTR", "OnInTransferComplite", "OnOutTransferComplite",
         "OnSetupTransferComplite", "ApplyAddress"} \subseteq PlainAccessors \cup Calls
    BY DEF PlainAccessors, Calls
  <1>3. DispatchIn => todo' = InList
    <2>1. <<Do("ClearTxCTR"), Do("OnInTransferComplite"), Do("ApplyAddress")>> = InList
      <3> DEFINE a == Do("ClearTxCTR")
                 b == Do("OnInTransferComplite")
                 c == Do("ApplyAddress")
      <3>1. a \in Op /\ b \in Op /\ c \in Op
        BY <1>1, <1>2
      <3>2. InList = Then(a, Then(b, Then(c, Nothing)))
        BY DEF InList, InCall, Address
      <3> HIDE DEF a, b, c
      <3>3. <<c>> = Then(c, Nothing) /\ <<b, c>> = Then(b, <<c>>) /\ <<a, b, c>> = Then(a, <<b, c>>)
        BY <3>1, ShortLists
      <3>4. <<a, b, c>> = InList
        BY <3>2, <3>3
      <3>5. QED
        BY <3>4 DEF a, b, c
    <2>2. QED
      BY <2>1 DEF DispatchIn
  <1>4. DispatchSetup => todo' = SetupList
    <2>1. <<Do("ClearRxCTR"), Do("OnSetupTransferComplite")>> = SetupList
      <3> DEFINE a == Do("ClearRxCTR")
                 b == Do("OnSetupTransferComplite")
      <3>1. a \in Op /\ b \in Op
        BY <1>1, <1>2
      <3>2. SetupList = Then(a, Then(b, Nothing))
        BY DEF SetupList, SetupCall
      <3> HIDE DEF a, b
      <3>3. <<b>> = Then(b, Nothing) /\ <<a, b>> = Then(a, <<b>>)
        BY <3>1, ShortLists
      <3>4. <<a, b>> = SetupList
        BY <3>2, <3>3
      <3>5. QED
        BY <3>4 DEF a, b
    <2>2. QED
      BY <2>1 DEF DispatchSetup
  <1>5. DispatchOut => todo' = OutList
    <2>1. <<Do("ClearRxCTR"), Do("OnOutTransferComplite")>> = OutList
      <3> DEFINE a == Do("ClearRxCTR")
                 b == Do("OnOutTransferComplite")
      <3>1. a \in Op /\ b \in Op
        BY <1>1, <1>2
      <3>2. OutList = Then(a, Then(b, Nothing))
        BY DEF OutList, OutCall
      <3> HIDE DEF a, b
      <3>3. <<b>> = Then(b, Nothing) /\ <<a, b>> = Then(a, <<b>>)
        BY <3>1, ShortLists
      <3>4. <<a, b>> = OutList
        BY <3>2, <3>3
      <3>5. QED
        BY <3>4 DEF a, b
    <2>2. QED
      BY <2>1 DEF DispatchOut
  <1>6. DispatchReset => todo' = Reset8
    BY ResetTuple DEF DispatchReset
  <1>7. QED
    BY <1>3, <1>4, <1>5, <1>6

(* The point at which a handler is, from the access it makes next. *)
LEMMA OpPoints ==
    ASSUME Inv, InHandler, todo # <<>>
    PROVE  /\ Head(todo).op = "WritePMA" => AtLoad
           /\ Head(todo).op = "OnInTransferComplite" => todo = InCall
           /\ Head(todo).op = "OnSetupTransferComplite" => todo = SetupCall
           /\ Head(todo).op = "OnOutTransferComplite" => todo = OutCall
           /\ Head(todo).op = "ApplyAddress" => todo = Address /\ AtEnd
  BY PointOps DEF InHandler, AtIn, AtSetup, AtOut

(* While the list and the members of the pipe stay, so does the point. *)
LEMMA PointsSame ==
    ASSUME UNCHANGED <<todo, pipe>>
    PROVE  /\ stage' = stage /\ (Sending' <=> Sending)
           /\ (AtEnd' <=> AtEnd) /\ (AtIn' <=> AtIn) /\ (AtSetup' <=> AtSetup) /\ (AtOut' <=> AtOut)
           /\ (AtLoad' <=> AtLoad) /\ (AtUnkind' <=> AtUnkind) /\ (AtRx' <=> AtRx) /\ (AtTx' <=> AtTx)
           /\ (AtKind' <=> AtKind)
  BY DEF stage, Sending, AtEnd, AtIn, AtSetup, AtOut, AtLoad, AtUnkind, AtRx, AtTx, AtKind

(* The accesses that only a handler of the reset makes are not in another's list. *)
LEMMA HandlerSteps ==
    ASSUME Inv, InHandler, Firmware
    PROVE  \/ RegRead \/ RegWrite
           \/ WritePMA /\ AtLoad /\ AtRx'
           \/ InComplete /\ todo = InCall
           \/ OutComplete /\ todo = OutCall
           \/ SetupComplete /\ todo = SetupCall
           \/ ApplyAddress /\ todo = Address /\ AtEnd /\ todo' = Nothing /\ AtEnd'
           \/ DispatchIn /\ todo = <<>> /\ todo' = InList /\ AtIn'
           \/ DispatchSetup /\ todo = <<>> /\ todo' = SetupList /\ AtSetup'
           \/ DispatchOut /\ todo = <<>> /\ todo' = OutList /\ AtOut'
           \/ DispatchReset /\ todo = <<>> /\ todo' = Reset8
  <1>1. CASE WritePMA
    <2>1. AtLoad /\ Advanced
      BY <1>1, OpPoints DEF WritePMA, Running, Advanced
    <2>2. QED
      BY <1>1, <2>1, StageTyped, PointAdvances
  <1>2. CASE InComplete \/ OutComplete \/ SetupComplete
    BY <1>2, OpPoints DEF InComplete, OutComplete, SetupComplete, Running
  <1>3. CASE ApplyAddress
    <2>1. todo = Address /\ AtEnd /\ Advanced
      BY <1>3, OpPoints DEF ApplyAddress, Running, Advanced
    <2>2. todo' = Nothing
      BY <2>1, StageTyped, PointAdvances
    <2>3. QED
      BY <1>3, <2>1, <2>2 DEF AtEnd, Ends
  <1>4. CASE DispatchIn \/ DispatchSetup \/ DispatchOut \/ DispatchReset
    <2>1. todo = <<>>
      BY <1>4 DEF DispatchIn, DispatchSetup, DispatchOut, DispatchReset, Ready
    <2>2. QED
      BY <1>4, <2>1, DispatchLists DEF AtIn, AtSetup, AtOut
  <1>5. CASE ResetMembers \/ EnableFunction
    BY <1>5, HandlerOps DEF ResetMembers, EnableFunction, Running
  <1>6. QED
    BY <1>1, <1>2, <1>3, <1>4, <1>5 DEF Firmware

LEMMA TxStepLive ==
    ASSUME Inv, TxLive, Firmware
    PROVE  halted' \/ TxLive'
  <1>0. InHandler /\ ~istrReset
    BY DEF TxLive, InHandler, AtIn
  <1>1. CASE RegRead
    <2>1. latched' = {epr} /\ UNCHANGED <<pipe, todo, epr, istrReset>>
      BY <1>0, <1>1, HandlerReads DEF hwVars
    <2>2. TxSettled' <=> TxSettled
      BY <2>1, PointsSame DEF TxSettled, Pending, Closed
    <2>3. QED
      BY <2>1, <2>2, PointsSame DEF TxLive, Closed, Pending
  <1>2. CASE RegWrite
    BY <1>2, TxWriteLive
  <1>3. CASE WritePMA /\ AtLoad /\ AtRx'
    <2>1. Closed(epr) /\ ~Pending(CTR_TX)
      BY <1>3, PointOps DEF TxLive, AtSetup, AtOut, WritePMA, Running
    <2>2. UNCHANGED <<epr, istrReset>>
      BY <1>3 DEF WritePMA
    <2>3. QED
      BY <1>0, <1>3, <2>1, <2>2 DEF TxLive, Pending
  <1>4. CASE InComplete /\ todo = InCall
    <2>1. TxStatus(epr) = NAK /\ ~Pending(CTR_TX)
      <3>1. todo # <<>> /\ Head(todo).op = "OnInTransferComplite"
        BY <1>4, PointOps DEF InComplete, Running
      <3>2. QED
        BY <3>1, PointOps DEF TxLive, AtSetup, AtOut
    <2>2. UNCHANGED <<epr, istrReset>>
      BY <1>4, InCompletePoints DEF hwVars
    <2>3. AtLoad' \/ AtRx' \/ (AtEnd' /\ ~Sending')
      BY <1>4, InCompletePoints DEF AtEnd, Ends, Sending, stage
    <2>4. QED
      BY <1>0, <2>1, <2>2, <2>3 DEF TxLive, TxSettled, Closed, Pending
  <1>5. CASE OutComplete /\ todo = OutCall
    <2>1. TxSettled
      <3>1. todo # <<>> /\ Head(todo).op = "OnOutTransferComplite"
        BY <1>5, PointOps DEF OutComplete, Running
      <3>2. QED
        BY <3>1, PointOps DEF TxLive
    <2>2. UNCHANGED <<epr, istrReset>>
      BY <1>5, OutCompletePoints DEF hwVars
    <2>3. CASE stage = "StatusOUT" /\ AtUnkind'
      <3>1. ~Sending /\ ~Sending'
        BY <2>3 DEF Sending, AtUnkind
      <3>2. QED
        BY <1>0, <2>1, <2>2, <2>3, <3>1 DEF TxLive, TxSettled, Closed, Pending
    <2>4. CASE todo' = Nothing /\ pipe' = pipe
      <3>1. AtEnd' /\ (Sending' <=> Sending)
        BY <2>4 DEF AtEnd, Ends, Sending, stage
      <3>2. QED
        BY <1>0, <2>1, <2>2, <3>1 DEF TxLive, TxSettled, Closed, Pending
    <2>5. QED
      BY <1>5, <2>3, <2>4, OutCompletePoints
  <1>6. CASE SetupComplete /\ todo = SetupCall
    <2>1. TxSettled
      <3>1. todo # <<>> /\ Head(todo).op = "OnSetupTransferComplite"
        BY <1>6, PointOps DEF SetupComplete, Running
      <3>2. QED
        BY <3>1, PointOps DEF TxLive
    <2>2. UNCHANGED <<epr, istrReset>>
      BY <1>6, SetupCompletePoints DEF hwVars
    <2>3. CASE stage = "Setup" /\ AtLoad'
      <3>1. ~Sending
        BY <2>3 DEF Sending
      <3>2. QED
        BY <1>0, <2>1, <2>2, <2>3, <3>1 DEF TxLive, TxSettled, Closed, Pending
    <2>4. CASE todo' = Nothing /\ pipe' = pipe
      <3>1. AtEnd' /\ (Sending' <=> Sending)
        BY <2>4 DEF AtEnd, Ends, Sending, stage
      <3>2. QED
        BY <1>0, <2>1, <2>2, <3>1 DEF TxLive, TxSettled, Closed, Pending
    <2>5. QED
      BY <1>6, <2>3, <2>4, SetupCompletePoints
  <1>7. CASE ApplyAddress /\ AtEnd /\ AtEnd'
    <2>1. UNCHANGED <<pipe, epr, istrReset>> /\ Head(todo).op = "ApplyAddress" /\ todo # <<>>
      BY <1>7 DEF ApplyAddress, Running
    <2>2. TxSettled /\ (Sending' <=> Sending)
      BY <2>1, PointOps DEF TxLive, Sending, stage
    <2>3. QED
      BY <1>0, <1>7, <2>1, <2>2 DEF TxLive, TxSettled, Closed, Pending
  <1>8. CASE (DispatchIn \/ DispatchSetup \/ DispatchOut) /\ todo = <<>>
    <2>1. UNCHANGED <<pipe, epr, istrReset>>
      BY <1>8 DEF DispatchIn, DispatchSetup, DispatchOut, hwVars
    <2>2. TxSettled /\ (Sending' <=> Sending)
      BY <1>8, <2>1, CallLists, PointOps DEF TxLive, Sending, stage, Begins
    <2>3. TxSettled'
      BY <2>1, <2>2 DEF TxSettled, Closed, Pending
    <2>4. CASE DispatchIn
      <3>1. todo' = InList /\ Pending(CTR_TX)
        BY <2>4, DispatchLists DEF DispatchIn
      <3>2. TxStatus(epr) = NAK
        BY <2>2, <3>1 DEF TxSettled
      <3>3. QED
        BY <1>0, <2>1, <2>3, <3>1, <3>2 DEF TxLive
    <2>5. CASE DispatchSetup \/ DispatchOut
      <3>1. AtSetup' \/ AtOut'
        BY <2>5, DispatchLists DEF AtSetup, AtOut
      <3>2. QED
        BY <1>0, <2>1, <2>3, <3>1 DEF TxLive
    <2>6. QED
      BY <1>8, <2>4, <2>5
  <1>9. ~DispatchReset
    BY <1>0 DEF DispatchReset
  <1>10. QED
    BY <1>0, <1>1, <1>2, <1>3, <1>4, <1>5, <1>6, <1>7, <1>8, <1>9, HandlerSteps

LEMMA TxStepInterrupted ==
    ASSUME Inv, TxInterrupted, Firmware, UNCHANGED host
    PROVE  halted' \/ TxInterrupted' \/ InReset'
  <1>0. InHandler /\ istrReset /\ host'.phase = "Reset" /\ host.phase = "Reset" /\ ~Pending(SETUP)
        /\ (Pending(CTR_TX) => Sending /\ TxStatus(epr) = DIS)
    BY DEF TxInterrupted, InHandler, AtIn
  <1>1. CASE RegRead
    <2>1. UNCHANGED <<pipe, todo, epr, istrReset>>
      BY <1>0, <1>1, HandlerReads DEF hwVars
    <2>2. QED
      BY <2>1, PointsSame DEF TxInterrupted, Pending
  <1>2. CASE RegWrite
    BY <1>2, TxWriteInterrupted
  <1>3. CASE WritePMA /\ AtLoad /\ AtRx'
    <2>1. TxStatus(epr) = DIS /\ ~Pending(CTR_TX)
      BY <1>3, PointOps DEF TxInterrupted, AtSetup, AtOut, WritePMA, Running
    <2>2. UNCHANGED <<epr, istrReset>>
      BY <1>3 DEF WritePMA
    <2>3. QED
      BY <1>0, <1>3, <2>1, <2>2 DEF TxInterrupted, Pending
  <1>4. CASE InComplete /\ todo = InCall
    <2>1. TxStatus(epr) = DIS /\ ~Pending(CTR_TX)
      <3>1. todo # <<>> /\ Head(todo).op = "OnInTransferComplite"
        BY <1>4, PointOps DEF InComplete, Running
      <3>2. QED
        BY <3>1, PointOps DEF TxInterrupted, AtSetup, AtOut
    <2>2. UNCHANGED <<epr, istrReset>>
      BY <1>4, InCompletePoints DEF hwVars
    <2>3. AtLoad' \/ AtRx' \/ AtEnd'
      BY <1>4, InCompletePoints DEF AtEnd, Ends
    <2>4. QED
      BY <1>0, <2>1, <2>2, <2>3 DEF TxInterrupted, Pending
  <1>5. CASE OutComplete /\ todo = OutCall
    <2>1. UNCHANGED <<epr, istrReset>>
      BY <1>5, OutCompletePoints DEF hwVars
    <2>2. CASE stage = "StatusOUT" /\ AtUnkind'
      <3>1. ~Sending
        BY <2>2 DEF Sending
      <3>2. QED
        BY <1>0, <2>1, <2>2, <3>1 DEF TxInterrupted, Pending
    <2>3. CASE todo' = Nothing /\ pipe' = pipe
      <3>1. AtEnd' /\ (Sending' <=> Sending)
        BY <2>3 DEF AtEnd, Ends, Sending, stage
      <3>2. QED
        BY <1>0, <2>1, <3>1 DEF TxInterrupted, Pending
    <2>4. QED
      BY <1>5, <2>2, <2>3, OutCompletePoints
  <1>6. CASE SetupComplete /\ todo = SetupCall
    <2>1. stage = "Setup" => TxStatus(epr) = DIS
      <3>1. todo # <<>> /\ Head(todo).op = "OnSetupTransferComplite"
        BY <1>6, PointOps DEF SetupComplete, Running
      <3>2. QED
        BY <3>1, PointOps DEF TxInterrupted, AtOut
    <2>2. UNCHANGED <<epr, istrReset>>
      BY <1>6, SetupCompletePoints DEF hwVars
    <2>3. CASE stage = "Setup" /\ AtLoad'
      <3>1. ~Sending
        BY <2>3 DEF Sending
      <3>2. QED
        BY <1>0, <2>1, <2>2, <2>3, <3>1 DEF TxInterrupted, Pending
    <2>4. CASE todo' = Nothing /\ pipe' = pipe
      <3>1. AtEnd' /\ (Sending' <=> Sending)
        BY <2>4 DEF AtEnd, Ends, Sending, stage
      <3>2. QED
        BY <1>0, <2>2, <3>1 DEF TxInterrupted, Pending
    <2>5. QED
      BY <1>6, <2>3, <2>4, SetupCompletePoints
  <1>7. CASE ApplyAddress /\ AtEnd'
    <2>1. UNCHANGED <<pipe, epr, istrReset>>
      BY <1>7 DEF ApplyAddress
    <2>2. QED
      BY <1>0, <1>7, <2>1 DEF TxInterrupted, Pending, Sending, stage
  <1>8. CASE DispatchIn \/ DispatchOut
    <2>1. UNCHANGED <<pipe, epr, istrReset>> /\ (Sending' <=> Sending)
      BY <1>8 DEF DispatchIn, DispatchOut, hwVars, Sending, stage
    <2>2. CASE DispatchIn
      <3>1. todo' = InList /\ Pending(CTR_TX)
        BY <2>2, DispatchLists DEF DispatchIn
      <3>2. QED
        BY <1>0, <2>1, <3>1 DEF TxInterrupted, Pending
    <2>3. CASE DispatchOut
      <3>1. AtOut'
        BY <2>3, DispatchLists DEF AtOut
      <3>2. QED
        BY <1>0, <2>1, <3>1 DEF TxInterrupted, Pending
    <2>4. QED
      BY <1>8, <2>2, <2>3
  <1>9. ~DispatchSetup
    BY <1>0 DEF DispatchSetup
  <1>10. CASE DispatchReset
    <2>1. todo = <<>> /\ ~Pending(CTR_RX) /\ ~Pending(CTR_TX) /\ UNCHANGED <<latched, epr>> /\ ~istrReset'
      BY <1>10 DEF DispatchReset, Ready
    <2>2. latched = {}
      BY <2>1, InvParts DEF LatchOK
    <2>3. epr \cap CTRs = {}
      BY <2>1 DEF Pending, CTRs, CTR_RX, CTR_TX
    <2>4. QED
      BY <1>0, <1>10, <2>1, <2>2, <2>3, DispatchLists DEF InReset
  <1>11. QED
    BY <1>0, <1>1, <1>2, <1>3, <1>4, <1>5, <1>6, <1>7, <1>8, <1>9, <1>10, HandlerSteps

LEMMA TxFirmware ==
    ASSUME Inv, TxInv, ~halted, Firmware, UNCHANGED host
    PROVE  TxInv'
  <1>1. CASE Cold
    BY <1>1 DEF Cold, Nothing, Firmware, RegRead, RegWrite, WritePMA, InComplete, OutComplete, SetupComplete,
                DispatchIn, DispatchSetup, DispatchOut, DispatchReset, ApplyAddress, ResetMembers,
                EnableFunction, Running, Pending, CTR_RX, CTR_TX
  <1>2. QED
    BY <1>1, TxStepLive, TxStepInterrupted, TxReset DEF TxInv

-----------------------------------------------------------------------------
(* The steps of the host, while the pipe runs. *)

\* What an action of the host leaves alone but for the reset.
HostMoves == UNCHANGED <<pipeVars, daddr, istrReset, tx>>

(* Of a handler that is at work, the peripheral disturbs only the receiver and
   what is closed anyway. *)
LEMMA TxHostLive ==
    ASSUME Inv, TxLive, HostMoves,
           \/ epr' = epr
           \/ epr' = HwSetup(epr)
           \/ epr' = HwOut(epr)
           \/ TxStatus(epr) = VALID /\ epr' = HwIn(epr)
    PROVE  TxLive'
  <1>1. UNCHANGED <<pipe, todo, istrReset, latched>>
    BY DEF HostMoves, pipeVars
  <1>2. epr \in Register
    BY StageTyped
  <1>3. CASE epr' = epr
    <2>1. TxSettled' <=> TxSettled
      BY <1>1, <1>3, PointsSame DEF TxSettled, Pending, Closed
    <2>2. QED
      BY <1>1, <1>3, <2>1, PointsSame DEF TxLive, Closed, Pending
  <1>4. CASE epr' = HwSetup(epr)
    <2>1. TxStatus(epr') = NAK /\ (Pending(CTR_TX)' <=> Pending(CTR_TX))
      BY <1>2, <1>4, HwSetupFields DEF Pending, CTR_TX
    <2>2. Closed(epr') /\ (TxSettled => TxSettled')
      BY <1>1, <2>1, PointsSame DEF TxSettled, Closed
    <2>3. QED
      BY <1>1, <2>1, <2>2, PointsSame DEF TxLive
  <1>5. CASE epr' = HwOut(epr)
    <2>1. TxStatus(epr') = TxStatus(epr) /\ (Pending(CTR_TX)' <=> Pending(CTR_TX))
      BY <1>2, <1>5, HwOutFields DEF Pending, CTR_TX
    <2>2. (Closed(epr') <=> Closed(epr)) /\ (TxSettled' <=> TxSettled)
      BY <1>1, <2>1, PointsSame DEF TxSettled, Closed
    <2>3. QED
      BY <1>1, <2>1, <2>2, PointsSame DEF TxLive
  <1>6. CASE TxStatus(epr) = VALID /\ epr' = HwIn(epr)
    <2>1. TxStatus(epr') = NAK
      BY <1>2, <1>6, HwInFields
    <2>2. ~Closed(epr) /\ TxStatus(epr) # NAK
      BY <1>6, StatusDistinct DEF Closed
    <2>3. (AtEnd \/ AtSetup \/ AtOut \/ AtKind \/ AtUnkind) /\ TxSettled
      BY <2>2 DEF TxLive
    <2>4. Sending
      BY <2>2, <2>3 DEF TxSettled
    <2>5. TxSettled'
      BY <1>1, <2>1, <2>4, PointsSame DEF TxSettled
    <2>6. QED
      BY <1>1, <2>3, <2>5, PointsSame DEF TxLive
  <1>7. QED
    BY <1>3, <1>4, <1>5, <1>6

(* After a bus reset and before its handler has returned, the bus is silent. *)
LEMMA SilentWhileReset ==
    ASSUME Inv, ~halted, TxInterrupted \/ InReset
    PROVE  ~(HostSetup \/ HostAbort \/ Transaction \/ HostInLostAck \/ HostStalled \/ HostTimeout \/ HostReset)
  <1>1. host.phase = "Reset"
    BY DEF TxInterrupted, InReset
  <1>2. ~Quiet
    BY ResetLists DEF Quiet, TxInterrupted, InReset, Begins
  <1>3. QED
    BY <1>1, <1>2 DEF HostSetup, HostAbort, Transaction, HostIn, HostStatusIn, HostStatusOut, HostInLostAck,
                      HostStalled, HostTimeout, HostReset, Free

LEMMA TxHostReset ==
    ASSUME Inv, Cold \/ TxLive, HostReset
    PROVE  TxInterrupted'
  <1>1. UNCHANGED <<pipe, todo, latched>> /\ istrReset' /\ host'.phase = "Reset" /\ epr' = HwReset(epr)
    BY InvParts DEF HostReset, pipeVars, HostOK, Hosts
  <1>2. /\ TxStatus(epr') = DIS /\ ~Pending(SETUP)'
        /\ (Pending(CTR_TX)' <=> Pending(CTR_TX))
    BY <1>1, HwResetFields DEF Pending, SETUP, CTR_TX, CTRs
  <1>3. Pending(CTR_TX) => Sending
    BY DEF Cold, TxLive, TxSettled, Pending, CTR_TX
  <1>4. CASE Cold
    BY <1>1, <1>2, <1>3, <1>4, PointsSame DEF Cold, TxInterrupted, AtEnd, Ends
  <1>5. CASE TxLive
    BY <1>1, <1>2, <1>3, <1>5, PointsSame DEF TxLive, TxInterrupted
  <1>6. QED
    BY <1>4, <1>5

LEMMA TxHost ==
    ASSUME Inv, TxInv, ~halted,
           HostSetup \/ HostAbort \/ Transaction \/ HostInLostAck \/ HostStalled \/ HostTimeout \/ HostReset
    PROVE  TxInv'
  <1>1. Cold \/ TxLive
    BY SilentWhileReset DEF TxInv
  <1>2. CASE HostReset
    BY <1>1, <1>2, TxHostReset DEF TxInv
  <1>3. ASSUME HostSetup \/ HostAbort \/ Transaction \/ HostInLostAck \/ HostStalled \/ HostTimeout
        PROVE  TxLive
    BY <1>1, <1>3 DEF Cold, HostSetup, HostAbort, SendSetup, AcceptsSetup, Transaction, HostIn, HostStatusIn,
                      HostStatusOut, HostInLostAck, HostStalled, HostTimeout, Free, Reached
  <1>4. CASE HostSetup \/ HostAbort
    BY <1>3, <1>4, TxHostLive DEF HostSetup, HostAbort, SendSetup, HostMoves, TxInv, pipeVars
  <1>5. CASE HostIn \/ HostStatusIn
    BY <1>3, <1>5, TxHostLive DEF HostIn, HostStatusIn, InToken, HostMoves, TxInv, Transaction
  <1>6. CASE HostStatusOut
    BY <1>3, <1>6, TxHostLive DEF HostStatusOut, HostMoves, TxInv, Transaction
  <1>7. CASE HostInLostAck \/ HostStalled \/ HostTimeout
    BY <1>3, <1>7, TxHostLive DEF HostInLostAck, HostStalled, HostTimeout, hwVars, HostMoves, TxInv
  <1>8. QED
    BY <1>2, <1>4, <1>5, <1>6, <1>7 DEF Transaction

-----------------------------------------------------------------------------

LEMMA TxInvInit == Init => TxInv
  BY DEF Init, PipeInit, NoTransfer, TxInv, Cold, stage, Nothing

LEMMA HaltedStays == [Next]_vars => (halted => halted')
  <1>1. Firmware => ~halted
    BY DEF Firmware, RegRead, RegWrite, WritePMA, InComplete, OutComplete, SetupComplete, DispatchIn,
           DispatchSetup, DispatchOut, DispatchReset, ApplyAddress, ResetMembers, EnableFunction, Running, Ready
  <1>2. HostSetup \/ HostAbort \/ Transaction \/ HostInLostAck \/ HostStalled \/ HostTimeout \/ HostReset
            => halted' = halted
    BY DEF HostSetup, HostAbort, SendSetup, Transaction, HostIn, HostStatusIn, HostStatusOut, HostInLostAck,
           HostStalled, HostTimeout, HostReset, pipeVars
  <1>3. QED
    BY <1>1, <1>2 DEF Next, vars, pipeVars

LEMMA TxInvNext == Inv /\ TxInv /\ [Next]_vars => TxInv'
  <1> SUFFICES ASSUME Inv, TxInv, [Next]_vars PROVE TxInv'
    OBVIOUS
  <1>1. CASE halted
    BY <1>1, HaltedStays DEF TxInv
  <1>2. CASE ~halted /\ Firmware /\ UNCHANGED <<host, budget>>
    BY <1>2, TxFirmware
  <1>3. CASE ~halted /\ (HostSetup \/ HostAbort \/ Transaction \/ HostInLostAck \/ HostStalled
                             \/ HostTimeout \/ HostReset)
    BY <1>3, TxHost
  <1>4. CASE UNCHANGED vars
    <2>1. UNCHANGED <<pipe, todo, latched, halted, epr, daddr, istrReset, host>>
      BY <1>4 DEF vars, pipeVars, hwVars
    <2>2. (Cold' <=> Cold) /\ (InReset' <=> InReset)
      BY <2>1, PointsSame DEF Cold, InReset
    <2>3. (TxInterrupted' <=> TxInterrupted)
      BY <2>1, PointsSame DEF TxInterrupted, Pending
    <2>4. (TxSettled' <=> TxSettled)
      BY <2>1, PointsSame DEF TxSettled, Pending, Closed
    <2>5. (TxLive' <=> TxLive)
      BY <2>1, <2>4, PointsSame DEF TxLive, Pending, Closed
    <2>6. QED
      BY <2>1, <2>2, <2>3, <2>5 DEF TxInv
  <1>5. QED
    BY <1>1, <1>2, <1>3, <1>4 DEF Next

(* At every point of a handler the transmitter is closed, unless the handler has
   left it to the peripheral on purpose -- with resets, aborted transfers, lost
   handshakes and back-to-back transfers in any number. *)
THEOREM TxInvHolds == Spec => []TxInv
  BY InvInit, InvNext, TxInvInit, TxInvNext, PTL DEF Spec

(* The packet buffer is written only while the peripheral does not own it: when
   WritePMA is next, TxInv has the handler at AtLoad. *)
THEOREM TxBufferKept == Spec => TxBufferStable
  <1>1. ASSUME Inv, TxInv, [Next]_vars PROVE [tx' # tx => TxStatus(epr) # VALID]_vars
    <2>1. SUFFICES ASSUME tx' # tx PROVE TxStatus(epr) # VALID
      OBVIOUS
    <2>2. WritePMA
      BY <1>1, <2>1 DEF Next, Firmware, RegRead, RegWrite, InComplete, OutComplete, SetupComplete, DispatchIn,
           DispatchSetup, DispatchOut, DispatchReset, ApplyAddress, ResetMembers, EnableFunction, HostSetup,
           HostAbort, SendSetup, Transaction, HostIn, HostStatusIn, HostStatusOut, HostInLostAck,
           HostStalled, HostTimeout, HostReset, vars, pipeVars, hwVars
    <2>3. ~halted /\ todo # <<>> /\ Head(todo).op = "WritePMA"
      BY <2>2 DEF WritePMA, Running
    <2>4. ~Cold
      BY <2>3 DEF Cold, Nothing
    <2>5. ~InReset
      <3>1. ASSUME InReset
            PROVE  Head(todo).op \in {"SetType", "SetAddress", "ClearTxDTOG", "SetTxStatus", "ClearRxDTOG",
                                      "SetRxStatus", "ResetMembers", "EnableFunction"}
        BY <3>1, ResetLists, OpsTyped DEF InReset, Begins, Status
      <3>2. QED
        BY <2>3, <3>1
    <2>6. CASE TxLive
      <3>1. Closed(epr)
        BY <1>1, <2>3, <2>6, PointOps DEF TxLive, AtSetup, AtOut
      <3>2. QED
        BY <3>1, StatusDistinct DEF Closed
    <2>7. CASE TxInterrupted
      <3>1. TxStatus(epr) = DIS
        BY <1>1, <2>3, <2>7, PointOps DEF TxInterrupted, AtSetup, AtOut
      <3>2. QED
        BY <3>1, StatusDistinct
    <2>8. QED
      BY <1>1, <2>3, <2>4, <2>5, <2>6, <2>7 DEF TxInv
  <1>2. Spec => [](Inv /\ TxInv)
    BY InvInit, InvNext, TxInvInit, TxInvNext, PTL DEF Spec
  <1>3. QED
    BY <1>1, <1>2, PTL DEF Spec, TxBufferStable

-----------------------------------------------------------------------------
(* The notices of completed transfers: CalmInv. *)

NoList == todo \notin {InList, SetupList, OutList}

Elsewhere == AtEnd \/ AtLoad \/ AtUnkind \/ AtRx \/ AtTx \/ AtKind \/ todo \in {InCall, SetupCall, OutCall}

LEMMA NotAtList == Inv /\ Elsewhere => NoList
  <1>1. InList # <<>> /\ SetupList # <<>> /\ OutList # <<>>
    BY CallLists DEF Begins
  <1>2. QED
    BY <1>1, PointOps DEF NoList, Elsewhere

(* An access of a handler changes one direction's events only by acknowledging. *)
LEMMA AccessorCalm ==
    ASSUME Inv, NEW o \in AccessorOp, NEW r \in Register, epr' = After(o, r, epr), o.op # "SetType"
    PROVE  /\ o.op # "SetRxStatus" => RxStatus(epr') = RxStatus(epr)
           /\ o.op # "SetTxStatus" => TxStatus(epr') = TxStatus(epr)
           /\ Pending(SETUP)' <=> Pending(SETUP)
           /\ Pending(CTR_TX)' => Pending(CTR_TX) /\ o.op # "ClearTxCTR"
           /\ Pending(CTR_RX)' => Pending(CTR_RX) /\ o.op # "ClearRxCTR"
           /\ o.op = "ClearTxCTR" /\ CTR_RX \subseteq r => (Pending(CTR_RX)' <=> Pending(CTR_RX))
           /\ o.op = "ClearRxCTR" /\ CTR_TX \subseteq r => (Pending(CTR_TX)' <=> Pending(CTR_TX))
           /\ o.op \notin {"ClearTxCTR", "ClearRxCTR"} =>
                  (Pending(CTR_RX)' <=> Pending(CTR_RX)) /\ (Pending(CTR_TX)' <=> Pending(CTR_TX))
  <1>1. epr \in Register
    BY StageTyped
  <1>2. /\ o.op # "SetRxStatus" => RxStatus(epr') = RxStatus(epr)
        /\ o.op # "SetTxStatus" => TxStatus(epr') = TxStatus(epr)
        /\ Pending(SETUP)' <=> Pending(SETUP)
    BY <1>1, AccessorFrame, SameStatus DEF Pending, SETUP
  <1>3. QED
    BY <1>1, <1>2, AccessorEvents, StatusBits DEF Pending, CTRs, CTR_TX, CTR_RX

LEMMA CalmWriteLive ==
    ASSUME Inv, TxLive, CalmLive, RegWrite, UNCHANGED host
    PROVE  CalmLive'
  <1> DEFINE o == Head(todo)
  <1>0. InHandler
    BY DEF TxLive, InHandler, AtIn
  <1>1. PICK r \in Register : latched = {r} /\ epr' = After(o, r, epr)
    BY <1>0, HandlerWrites
  <1>2. /\ o \in AccessorOp /\ Advanced /\ latched' = {} /\ UNCHANGED istrReset
        /\ ~AtEnd /\ todo \notin {InCall, SetupCall, OutCall} /\ ~AtLoad
    BY <1>0, HandlerWrites
  <1>3. o.op # "SetType"
    BY <1>0, <1>2, HandlerOps DEF Advanced
  <1>4. /\ o.op # "SetRxStatus" => RxStatus(epr') = RxStatus(epr)
        /\ o.op # "SetTxStatus" => TxStatus(epr') = TxStatus(epr)
        /\ Pending(SETUP)' <=> Pending(SETUP)
        /\ Pending(CTR_TX)' => Pending(CTR_TX) /\ o.op # "ClearTxCTR"
        /\ Pending(CTR_RX)' => Pending(CTR_RX) /\ o.op # "ClearRxCTR"
    BY <1>1, <1>2, <1>3, AccessorCalm
  <1>5. stage' = stage /\ (Sending' <=> Sending) /\ ~istrReset' /\ host' = host
    BY <1>2 DEF Advanced, stage, Sending, CalmLive
  <1>6. CASE todo = InList /\ Pending(CTR_TX) /\ ~Pending(CTR_RX) /\ Shut
    <2>1. o.op = "ClearTxCTR" /\ todo' = InCall
      BY <1>2, <1>6, StageTyped, PointTails, PointAdvances DEF Do
    <2>2. QED
      BY <1>4, <1>5, <1>6, <2>1 DEF CalmLive, NoEvent, Shut
  <1>7. CASE /\ todo \in {SetupList, OutList} /\ Pending(CTR_RX) /\ ~Pending(CTR_TX) /\ Shut
             /\ IF todo = SetupList THEN TxStatus(epr) = NAK ELSE host.phase = "Idle"
    <2>1. o.op = "ClearRxCTR" /\ (todo = SetupList => todo' = SetupCall) /\ (todo = OutList => todo' = OutCall)
      BY <1>2, <1>7, StageTyped, PointTails, PointAdvances DEF Do
    <2>2. QED
      BY <1>4, <1>5, <1>7, <2>1 DEF CalmLive, NoEvent, Shut
  <1>8. CASE AtUnkind /\ NoEvent /\ Shut
    <2>1. o.op = "ClearStatusOut" /\ AtRx'
      BY <1>2, <1>8, StageTyped, PointTails, PointAdvances DEF Do
    <2>2. QED
      BY <1>2, <1>4, <1>5, <1>8, <2>1 DEF CalmLive, NoEvent, Shut
  <1>9. CASE AtKind /\ CalmEnd /\ (Pending(CTR_RX) => ~Sending /\ ~Pending(SETUP))
    <2>1. o.op = "SetStatusOut" /\ AtEnd'
      BY <1>2, <1>9, StageTyped, PointTails, PointAdvances DEF Do
    <2>2. QED
      BY <1>4, <1>5, <1>9, <2>1 DEF CalmLive, CalmEnd, Shut
  <1>10. CASE AtRx /\ NoEvent /\ \A q \in latched : RxStatus(q) = RxStatus(epr)
    <2> DEFINE s == StageRegisters[stage][1]
    <2>1. o = SetRx(s) /\ AtTx'
      BY <1>2, <1>10, StageTyped, PointTails, PointAdvances
    <2>2. s \in Status /\ (Sending => s # VALID)
      BY StageTyped, StageStatus DEF Sending
    <2>3. RxStatus(epr') = s
      <3>1. RxStatus(epr') = Xor(Xor(RxStatus(r), s), RxStatus(epr))
        BY <1>1, <2>1, <2>2, StageTyped, StatusToggled
      <3>2. RxStatus(r) = RxStatus(epr)
        BY <1>1, <1>10
      <3>3. QED
        BY <3>1, <3>2, ToggledFrom
    <2>4. ~Pending(CTR_RX)' /\ ~Pending(CTR_TX)'
      BY <1>4, <1>10 DEF NoEvent
    <2>5. CalmEnd'
      BY <1>5, <2>2, <2>3, <2>4 DEF CalmEnd, Shut
    <2>6. QED
      BY <1>5, <2>1, <2>4, <2>5 DEF CalmLive
  <1>11. CASE AtTx /\ CalmEnd /\ (Pending(CTR_RX) => ~Sending /\ ~Pending(SETUP))
    <2>1. o.op = "SetTxStatus" /\ (AtEnd' \/ AtKind')
      BY <1>2, <1>11, StageTyped, PointTails, PointAdvances, StageOps
    <2>2. CalmEnd'
      BY <1>4, <1>5, <1>11, <2>1 DEF CalmEnd, Shut
    <2>3. QED
      BY <1>4, <1>5, <1>11, <2>1, <2>2 DEF CalmLive
  <1>12. QED
    BY <1>2, <1>6, <1>7, <1>8, <1>9, <1>10, <1>11 DEF CalmLive

LEMMA CalmStepLive ==
    ASSUME Inv, TxLive, CalmLive, Firmware, UNCHANGED host
    PROVE  halted' \/ CalmLive'
  <1>0. InHandler /\ ~istrReset
    BY DEF TxLive, InHandler, AtIn
  <1>1. CASE RegRead
    <2>1. latched' = {epr} /\ UNCHANGED <<pipe, todo, epr, istrReset>>
      BY <1>0, <1>1, HandlerReads DEF hwVars
    <2>2. (CalmEnd' <=> CalmEnd) /\ (NoEvent' <=> NoEvent) /\ (Shut' <=> Shut)
      BY <2>1, PointsSame DEF CalmEnd, NoEvent, Pending, Shut
    <2>3. QED
      BY <2>1, <2>2, PointsSame DEF CalmLive, Pending
  <1>2. CASE RegWrite
    BY <1>2, CalmWriteLive
  <1>3. ASSUME UNCHANGED <<epr, istrReset>>
        PROVE  /\ (NoEvent' <=> NoEvent) /\ (Shut' <=> Shut) /\ ~istrReset'
               /\ CalmEnd /\ (Sending' => Sending \/ Shut) => CalmEnd'
    BY <1>0, <1>3 DEF NoEvent, Shut, CalmEnd, Pending
  <1>4. CASE WritePMA /\ AtLoad /\ AtRx'
    <2>1. NoEvent /\ Shut
      BY <1>4, PointOps DEF CalmLive, WritePMA, Running
    <2>2. latched' = {} /\ UNCHANGED <<epr, istrReset>>
      BY <1>4, InvParts, NothingLatched DEF WritePMA
    <2>3. QED
      BY <1>3, <1>4, <2>1, <2>2 DEF CalmLive
  <1>5. CASE InComplete /\ todo = InCall
    <2>1. NoEvent /\ Shut
      <3>1. todo # <<>> /\ Head(todo).op = "OnInTransferComplite"
        BY <1>5, PointOps DEF InComplete, Running
      <3>2. QED
        BY <3>1, PointOps DEF CalmLive
    <2>2. latched' = {} /\ UNCHANGED <<epr, istrReset>>
      BY <1>5, InvParts, NothingLatched DEF InComplete, Calls, hwVars
    <2>3. AtLoad' \/ AtRx' \/ (AtEnd' /\ ~Sending')
      BY <1>5, InCompletePoints DEF AtEnd, Ends, Sending, stage
    <2>4. QED
      BY <1>3, <2>1, <2>2, <2>3 DEF CalmLive, CalmEnd, NoEvent
  <1>6. CASE OutComplete /\ todo = OutCall
    <2>1. NoEvent /\ Shut
      <3>1. todo # <<>> /\ Head(todo).op = "OnOutTransferComplite"
        BY <1>6, PointOps DEF OutComplete, Running
      <3>2. QED
        BY <3>1, PointOps DEF CalmLive
    <2>2. UNCHANGED <<epr, istrReset>>
      BY <1>6 DEF OutComplete, hwVars
    <2>3. AtUnkind' \/ AtEnd'
      BY <1>6, OutCompletePoints DEF AtEnd, Ends
    <2>4. QED
      BY <1>3, <2>1, <2>2, <2>3 DEF CalmLive, CalmEnd, NoEvent
  <1>7. CASE SetupComplete /\ todo = SetupCall
    <2>1. NoEvent /\ Shut
      <3>1. todo # <<>> /\ Head(todo).op = "OnSetupTransferComplite"
        BY <1>7, PointOps DEF SetupComplete, Running
      <3>2. QED
        BY <3>1, PointOps DEF CalmLive
    <2>2. UNCHANGED <<epr, istrReset>>
      BY <1>7 DEF SetupComplete, hwVars
    <2>3. halted' \/ AtLoad' \/ AtEnd'
      BY <1>7, SetupCompletePoints DEF AtEnd, Ends
    <2>4. QED
      BY <1>3, <2>1, <2>2, <2>3 DEF CalmLive, CalmEnd, NoEvent
  <1>8. CASE ApplyAddress /\ AtEnd /\ AtEnd'
    <2>1. UNCHANGED <<pipe, epr, istrReset>> /\ Head(todo).op = "ApplyAddress" /\ todo # <<>>
      BY <1>8 DEF ApplyAddress, Running
    <2>2. CalmEnd /\ (Sending' <=> Sending)
      BY <2>1, PointOps DEF CalmLive, Sending, stage
    <2>3. QED
      BY <1>3, <1>8, <2>1, <2>2 DEF CalmLive
  <1>9. CASE (DispatchIn \/ DispatchSetup \/ DispatchOut) /\ todo = <<>>
    <2>1. UNCHANGED <<pipe, epr, istrReset>> /\ latched' = {}
      BY <1>9, InvParts DEF DispatchIn, DispatchSetup, DispatchOut, hwVars, LatchOK
    <2>2. CalmEnd /\ TxSettled
      BY <1>9, CallLists, PointOps DEF TxLive, CalmLive, Begins
    <2>3. (Pending(CTR_RX)' <=> Pending(CTR_RX)) /\ (Pending(CTR_TX)' <=> Pending(CTR_TX))
      BY <2>1 DEF Pending
    <2>4. CASE DispatchIn
      <3>1. todo' = InList /\ Pending(CTR_TX) /\ ~Pending(CTR_RX)
        BY <2>4, DispatchLists DEF DispatchIn
      <3>2. Shut
        BY <2>2, <3>1 DEF TxSettled, CalmEnd
      <3>3. QED
        BY <1>3, <2>1, <2>3, <3>1, <3>2 DEF CalmLive
    <2>5. CASE DispatchSetup
      <3>1. todo' = SetupList /\ Pending(CTR_RX) /\ Pending(SETUP)
        BY <2>5, DispatchLists DEF DispatchSetup
      <3>2. Shut /\ ~Pending(CTR_TX) /\ TxStatus(epr) = NAK
        BY <2>2, <3>1, StatusDistinct DEF CalmEnd, Shut
      <3>3. QED
        BY <1>3, <2>1, <2>3, <3>1, <3>2 DEF CalmLive
    <2>6. CASE DispatchOut
      <3>1. todo' = OutList /\ Pending(CTR_RX) /\ ~Pending(SETUP)
        BY <2>6, DispatchLists DEF DispatchOut
      <3>2. Shut /\ ~Pending(CTR_TX) /\ host'.phase = "Idle"
        BY <2>2, <3>1, StatusDistinct DEF CalmEnd, Shut
      <3>3. OutList # SetupList
        BY CallLists, OpsTyped DEF Begins, Calls, Do
      <3>4. QED
        BY <1>3, <2>1, <2>3, <3>1, <3>2, <3>3 DEF CalmLive
    <2>7. QED
      BY <1>9, <2>4, <2>5, <2>6
  <1>10. ~DispatchReset
    BY <1>0 DEF DispatchReset
  <1>11. QED
    BY <1>0, <1>1, <1>2, <1>4, <1>5, <1>6, <1>7, <1>8, <1>9, <1>10, HandlerSteps

LEMMA CalmStepInterrupted ==
    ASSUME Inv, Inv', TxInterrupted, CalmInterrupted, Firmware, UNCHANGED host
    PROVE  halted' \/ CalmInterrupted' \/ InReset'
  <1>0. InHandler /\ istrReset
    BY DEF TxInterrupted, InHandler, AtIn
  <1>1. AtEnd' \/ AtLoad' \/ AtUnkind' \/ AtRx' \/ AtTx' \/ AtKind' \/ todo' \in {InCall, SetupCall, OutCall}
            => NoList'
    <2>1. Elsewhere' => NoList'
      BY NotAtList, PTL
    <2>2. QED
      BY <2>1 DEF Elsewhere
  <1>2. CASE RegRead
    <2>1. latched' = {epr} /\ UNCHANGED <<todo, epr, istrReset>>
      BY <1>0, <1>2, HandlerReads DEF hwVars
    <2>2. QED
      BY <2>1 DEF CalmInterrupted, Pending
  <1>3. CASE RegWrite
    <2> DEFINE o == Head(todo)
    <2>1. PICK r \in Register : latched = {r} /\ epr' = After(o, r, epr)
      BY <1>0, <1>3, HandlerWrites
    <2>2. /\ o \in AccessorOp /\ Advanced /\ UNCHANGED istrReset
          /\ ~AtEnd /\ todo \notin {InCall, SetupCall, OutCall} /\ ~AtLoad
      BY <1>0, <1>3, HandlerWrites
    <2>3. o.op # "SetType"
      BY <1>0, <2>2, HandlerOps DEF Advanced
    <2>4. (Pending(CTR_TX)' => Pending(CTR_TX)) /\ (Pending(CTR_RX)' => Pending(CTR_RX))
      BY <2>1, <2>2, <2>3, AccessorCalm
    <2>5. NoList'
      BY <1>0, <1>1, <2>2, StageTyped, PointAdvances DEF InHandler, AtIn, AtSetup, AtOut
    <2>6. QED
      BY <1>0, <2>2, <2>4, <2>5 DEF CalmInterrupted, NoList
  <1>4. ASSUME UNCHANGED <<epr, istrReset>>, NoList'
        PROVE  CalmInterrupted'
    BY <1>4 DEF CalmInterrupted, Pending, NoList
  <1>5. CASE WritePMA /\ AtLoad /\ AtRx'
    BY <1>1, <1>4, <1>5 DEF WritePMA
  <1>6. CASE InComplete /\ todo = InCall
    <2>1. AtLoad' \/ AtRx' \/ AtEnd'
      BY <1>6, InCompletePoints DEF AtEnd, Ends
    <2>2. QED
      BY <1>1, <1>4, <1>6, <2>1 DEF InComplete, hwVars
  <1>7. CASE OutComplete /\ todo = OutCall
    <2>1. AtUnkind' \/ AtEnd'
      BY <1>7, OutCompletePoints DEF AtEnd, Ends
    <2>2. QED
      BY <1>1, <1>4, <1>7, <2>1 DEF OutComplete, hwVars
  <1>8. CASE SetupComplete /\ todo = SetupCall
    <2>1. halted' \/ AtLoad' \/ AtEnd'
      BY <1>8, SetupCompletePoints DEF AtEnd, Ends
    <2>2. QED
      BY <1>1, <1>4, <1>8, <2>1 DEF SetupComplete, hwVars
  <1>9. CASE ApplyAddress /\ AtEnd'
    BY <1>1, <1>4, <1>9 DEF ApplyAddress
  <1>10. CASE DispatchIn \/ DispatchOut \/ DispatchSetup
    <2>1. UNCHANGED <<epr, istrReset>> /\ latched' = {}
      BY <1>10, InvParts DEF DispatchIn, DispatchSetup, DispatchOut, hwVars, LatchOK, Ready
    <2>2. \/ todo' = InList /\ Pending(CTR_TX)
          \/ todo' \in {SetupList, OutList} /\ Pending(CTR_RX)
      BY <1>10, DispatchLists DEF DispatchIn, DispatchOut, DispatchSetup
    <2>3. InList \notin {SetupList, OutList}
      BY CallLists DEF Begins
    <2>4. QED
      BY <2>1, <2>2, <2>3 DEF CalmInterrupted, Pending
  <1>11. CASE DispatchReset
    <2>1. ~TxInterrupted'
      BY <1>11 DEF DispatchReset, TxInterrupted
    <2>2. halted' = halted /\ ~halted
      BY <1>11 DEF DispatchReset, Ready
    <2>3. QED
      BY <2>1, <2>2, TxStepInterrupted
  <1>12. QED
    BY <1>0, <1>2, <1>3, <1>5, <1>6, <1>7, <1>8, <1>9, <1>10, <1>11, HandlerSteps

LEMMA CalmFirmware ==
    ASSUME Inv, Inv', CalmInv, ~halted, Firmware, UNCHANGED host
    PROVE  CalmInv'
  <1>1. CASE Cold
    BY <1>1 DEF Cold, Nothing, Firmware, RegRead, RegWrite, WritePMA, InComplete, OutComplete, SetupComplete,
                DispatchIn, DispatchSetup, DispatchOut, DispatchReset, ApplyAddress, ResetMembers,
                EnableFunction, Running, Pending, CTR_RX, CTR_TX
  <1>2. CASE TxLive /\ CalmLive
    BY <1>2, TxStepLive, CalmStepLive DEF CalmInv
  <1>3. CASE TxInterrupted /\ CalmInterrupted
    BY <1>3, TxStepInterrupted, CalmStepInterrupted DEF CalmInv
  <1>4. CASE InReset
    <2>1. ASSUME TxLive', AtEnd', ~Sending', (epr \cap CTRs)' = {}
          PROVE  CalmLive'
      BY <2>1 DEF TxLive, CalmLive, CalmEnd, Pending, CTRs, CTR_RX, CTR_TX
    <2>2. QED
      BY <1>4, <2>1, TxReset DEF CalmInv
  <1>5. QED
    BY <1>1, <1>2, <1>3, <1>4 DEF CalmInv

\* The host finishes its transfers and leaves the handler the time it needs.
Calm == BackToBack = FALSE /\ MaxAborts = 0

(* When the host begins a transfer, nothing is under way. *)
LEMMA CalmSetup ==
    ASSUME Calm, Inv, ~halted, HostSetup \/ HostAbort
    PROVE  HostSetup /\ todo = <<>> /\ NoEvent /\ ~istrReset
  <1>1. ~HostAbort
    BY InvParts DEF Calm, HostAbort, HostOK
  <1>2. QED
    BY <1>1 DEF Calm, HostSetup, Quiet, NoEvent

LEMMA CalmHostLive ==
    ASSUME Calm, Inv, TxLive, CalmLive, ~halted, HostMoves,
           \/ epr' = epr /\ host.phase # "Idle"
           \/ HostSetup /\ epr' = HwSetup(epr)
           \/ RxStatus(epr) = VALID /\ epr' = HwOut(epr) /\ host'.phase = "Idle"
           \/ RxStatus(epr) = VALID /\ epr' = epr /\ host'.phase = "Idle"
           \/ TxStatus(epr) = VALID /\ epr' = HwIn(epr) /\ host.phase # "Idle"
    PROVE  CalmLive'
  <1>1. UNCHANGED <<pipe, todo, istrReset, latched>> /\ ~istrReset /\ epr \in Register
    BY StageTyped DEF HostMoves, pipeVars, CalmLive
  <1>2. CASE epr' = epr /\ (host.phase # "Idle" \/ host'.phase = "Idle")
    <2>1. (NoEvent' <=> NoEvent) /\ (Shut' <=> Shut) /\ (Pending(CTR_RX)' <=> Pending(CTR_RX))
          /\ (Pending(CTR_TX)' <=> Pending(CTR_TX)) /\ (Pending(SETUP)' <=> Pending(SETUP))
      BY <1>2 DEF NoEvent, Pending, Shut
    <2>2. CalmEnd => CalmEnd'
      BY <1>1, <1>2, <2>1, PointsSame DEF CalmEnd
    <2>3. QED
      BY <1>1, <1>2, <2>1, <2>2, PointsSame DEF CalmLive
  <1>3. CASE HostSetup /\ epr' = HwSetup(epr)
    <2>1. todo = <<>> /\ NoEvent
      BY <1>3, CalmSetup
    <2>2. /\ TxStatus(epr') = NAK /\ RxStatus(epr') = NAK /\ Pending(SETUP)' /\ ~Pending(CTR_TX)'
      BY <1>1, <1>3, <2>1, HwSetupFields DEF NoEvent, Pending, CTR_TX, SETUP
    <2>3. CalmEnd' /\ AtEnd'
      BY <1>1, <2>1, <2>2, StatusDistinct, PointsSame, PointOps DEF CalmEnd, Shut
    <2>4. QED
      BY <1>1, <2>3 DEF CalmLive
  <1>4. CASE RxStatus(epr) = VALID /\ epr' = HwOut(epr) /\ host'.phase = "Idle"
    <2>1. /\ TxStatus(epr') = TxStatus(epr) /\ RxStatus(epr') = NAK /\ ~Pending(SETUP)'
          /\ (Pending(CTR_TX)' <=> Pending(CTR_TX))
      BY <1>1, <1>4, HwOutFields DEF Pending, CTR_TX, SETUP
    <2>2. ~Shut
      BY <1>4 DEF Shut
    <2>3. (AtEnd \/ AtKind \/ AtTx) /\ CalmEnd
      BY <2>2 DEF CalmLive
    <2>4. ~Sending /\ ~Sending'
      BY <1>1, <2>2, <2>3, PointsSame DEF CalmEnd
    <2>5. ~Pending(CTR_TX)
      BY <2>3, <2>4, PointOps DEF TxLive, TxSettled, AtSetup, AtOut
    <2>6. CalmEnd'
      BY <1>4, <2>1, <2>4, <2>5 DEF CalmEnd
    <2>7. QED
      BY <1>1, <2>1, <2>3, <2>4, <2>6, PointsSame DEF CalmLive
  <1>5. CASE TxStatus(epr) = VALID /\ epr' = HwIn(epr) /\ host.phase # "Idle"
    <2>1. TxStatus(epr') = NAK /\ RxStatus(epr') = RxStatus(epr) /\ (Pending(CTR_RX)' <=> Pending(CTR_RX))
          /\ (Pending(SETUP)' <=> Pending(SETUP))
      BY <1>1, <1>5, HwInFields DEF Pending, CTR_RX, SETUP
    <2>2. ~Closed(epr) /\ TxStatus(epr) # NAK
      BY <1>5, StatusDistinct DEF Closed
    <2>3. (AtEnd \/ AtSetup \/ AtOut \/ AtKind \/ AtUnkind) /\ TxSettled
      BY <2>2 DEF TxLive
    <2>4. Sending
      BY <2>2, <2>3 DEF TxSettled
    <2>5. AtEnd /\ CalmEnd
      <3>1. ~AtUnkind /\ ~AtKind
        BY <2>4 DEF AtUnkind, AtKind, Sending
      <3>2. ~AtSetup /\ ~AtOut
        <4>1. ASSUME AtSetup \/ AtOut PROVE FALSE
          <5>1. todo # <<>> /\ ~AtEnd /\ ~AtTx /\ ~AtRx /\ ~AtLoad /\ todo # InList /\ todo # InCall
            BY <4>1, CallLists, PointOps DEF AtSetup, AtOut, Begins
          <5>2. /\ todo \in {SetupCall, SetupList, OutCall, OutList}
                /\ SetupCall \notin {OutCall, SetupList, OutList} /\ SetupList \notin {OutCall, OutList}
                /\ OutList # OutCall
            <6>1. Tail(SetupList) # Tail(OutList)
              BY CallLists, OpsTyped DEF Begins
            <6>2. QED
              BY <4>1, <6>1, CallLists, OpsTyped DEF AtSetup, AtOut, Begins
          <5>3. QED
            BY <1>5, <2>2, <3>1, <5>1, <5>2 DEF CalmLive
        <4>2. QED
          BY <4>1
      <3>3. AtEnd
        BY <2>3, <3>1, <3>2
      <3>4. QED
        BY <3>1, <3>2, <3>3, PointOps, CallLists DEF CalmLive, AtSetup, AtOut, Begins
    <2>6. ~Pending(CTR_RX)
      BY <1>5, <2>2, <2>5 DEF CalmEnd
    <2>7. CalmEnd'
      BY <1>1, <2>1, <2>4, <2>5, <2>6, PointsSame DEF CalmEnd, Shut
    <2>8. QED
      BY <1>1, <2>5, <2>7, PointsSame DEF CalmLive
  <1>6. QED
    BY <1>2, <1>3, <1>4, <1>5

LEMMA CalmHostReset ==
    ASSUME Inv, Cold \/ (TxLive /\ CalmLive), HostReset
    PROVE  CalmInterrupted'
  <1>1. UNCHANGED <<pipe, todo, latched>> /\ istrReset' /\ epr' = HwReset(epr)
    BY DEF HostReset, pipeVars
  <1>2. (Pending(CTR_RX)' <=> Pending(CTR_RX)) /\ (Pending(CTR_TX)' <=> Pending(CTR_TX))
    BY <1>1, HwResetFields DEF Pending, CTR_TX, CTR_RX, CTRs
  <1>3. CASE Cold
    <2>1. NoEvent /\ NoList
      BY <1>3, CallLists DEF Cold, NoEvent, Pending, CTR_RX, CTR_TX, NoList, Begins, Nothing
    <2>2. QED
      BY <1>1, <1>2, <2>1 DEF CalmInterrupted, NoEvent, NoList
  <1>4. CASE TxLive /\ CalmLive
    <2>1. CASE Elsewhere
      <3>1. NoList
        BY <2>1, NotAtList
      <3>2. ~(Pending(CTR_RX) /\ Pending(CTR_TX))
        BY <1>4, <3>1 DEF CalmLive, CalmEnd, NoEvent, NoList
      <3>3. QED
        BY <1>1, <1>2, <3>1, <3>2 DEF CalmInterrupted, NoList
    <2>2. CASE ~Elsewhere
      BY <1>1, <1>2, <1>4, <2>2, CallLists DEF CalmLive, Elsewhere, CalmInterrupted, Begins
    <2>3. QED
      BY <2>1, <2>2
  <1>5. QED
    BY <1>3, <1>4

LEMMA CalmHost ==
    ASSUME Calm, Inv, CalmInv, ~halted,
           HostSetup \/ HostAbort \/ Transaction \/ HostInLostAck \/ HostStalled \/ HostTimeout \/ HostReset
    PROVE  CalmInv'
  <1>1. Cold \/ (TxLive /\ CalmLive)
    BY SilentWhileReset DEF CalmInv
  <1>2. TxInv
    BY <1>1 DEF TxInv
  <1>3. CASE HostReset
    BY <1>1, <1>3, TxHostReset, CalmHostReset DEF CalmInv
  <1>4. ASSUME HostSetup \/ HostAbort \/ Transaction \/ HostInLostAck \/ HostStalled \/ HostTimeout
        PROVE  TxLive /\ CalmLive
    BY <1>1, <1>4 DEF Cold, HostSetup, HostAbort, SendSetup, AcceptsSetup, Transaction, HostIn, HostStatusIn,
                      HostStatusOut, HostInLostAck, HostStalled, HostTimeout, Free, Reached
  <1>5. ASSUME TxLive', CalmLive' PROVE CalmInv'
    BY <1>5 DEF CalmInv
  <1>6. CASE HostSetup \/ HostAbort
    <2>1. HostSetup
      BY <1>6, CalmSetup
    <2>2. HostMoves /\ epr' = HwSetup(epr)
      BY <2>1 DEF HostSetup, SendSetup, HostMoves
    <2>3. QED
      BY <1>4, <1>5, <2>1, <2>2, TxHostLive, CalmHostLive
  <1>7. CASE HostIn \/ HostStatusIn
    <2>1. HostMoves /\ TxStatus(epr) = VALID /\ epr' = HwIn(epr) /\ host.phase # "Idle"
      BY <1>7 DEF HostIn, HostStatusIn, HostMoves, InToken
    <2>2. QED
      BY <1>4, <1>5, <1>7, <2>1, TxHostLive, CalmHostLive DEF Transaction
  <1>8. CASE HostStatusOut
    <2>1. HostMoves /\ RxStatus(epr) = VALID /\ epr' \in {HwOut(epr), epr} /\ host'.phase = "Idle"
      BY <1>8, InvParts DEF HostStatusOut, HostMoves, HostOK, Hosts
    <2>2. QED
      BY <1>4, <1>5, <1>8, <2>1, TxHostLive, CalmHostLive DEF Transaction
  <1>9. CASE HostInLostAck \/ HostStalled \/ HostTimeout
    <2>1. HostMoves /\ epr' = epr /\ host.phase # "Idle"
      BY <1>9 DEF HostInLostAck, HostStalled, HostTimeout, HostMoves, hwVars, Free
    <2>2. QED
      BY <1>4, <1>5, <1>9, <2>1, TxHostLive, CalmHostLive
  <1>10. QED
    BY <1>3, <1>6, <1>7, <1>8, <1>9 DEF Transaction

LEMMA CalmInvInit == Init => CalmInv
  BY DEF Init, PipeInit, NoTransfer, CalmInv, Cold, stage, Nothing

LEMMA CalmInvNext ==
    ASSUME Calm, Inv, Inv', CalmInv, [Next]_vars
    PROVE  CalmInv'
  <1>1. CASE halted
    BY <1>1, HaltedStays DEF CalmInv
  <1>2. CASE ~halted /\ Firmware /\ UNCHANGED <<host, budget>>
    BY <1>2, CalmFirmware
  <1>3. CASE ~halted /\ (HostSetup \/ HostAbort \/ Transaction \/ HostInLostAck \/ HostStalled
                             \/ HostTimeout \/ HostReset)
    BY <1>3, CalmHost
  <1>4. CASE UNCHANGED vars
    <2>1. UNCHANGED <<pipe, todo, latched, halted, epr, daddr, istrReset, host>>
      BY <1>4 DEF vars, pipeVars, hwVars
    <2>2. (Cold' <=> Cold) /\ (InReset' <=> InReset)
      BY <2>1, PointsSame DEF Cold, InReset
    <2>3. (TxInterrupted' <=> TxInterrupted) /\ (CalmInterrupted' <=> CalmInterrupted)
      BY <2>1, PointsSame DEF TxInterrupted, CalmInterrupted, Pending
    <2>4. (TxSettled' <=> TxSettled)
      BY <2>1, PointsSame DEF TxSettled, Pending, Closed
    <2>5. (TxLive' <=> TxLive)
      BY <2>1, <2>4, PointsSame DEF TxLive, Pending, Closed
    <2>6. (NoEvent' <=> NoEvent) /\ (Shut' <=> Shut) /\ (CalmEnd' <=> CalmEnd)
      BY <2>1, PointsSame DEF NoEvent, Shut, CalmEnd, Pending
    <2>7. (CalmLive' <=> CalmLive)
      BY <2>1, <2>6, PointsSame DEF CalmLive, Pending
    <2>8. QED
      BY <2>1, <2>2, <2>3, <2>5, <2>7 DEF CalmInv
  <1>5. QED
    BY <1>1, <1>2, <1>3, <1>4 DEF Next

(* While the host gives the handler the time it needs and aborts nothing, the
   handler acknowledges one notice at a time, the one it has read, and the
   receiver is closed while it works on an IN packet. *)
THEOREM CalmInvHolds ==
    ASSUME BackToBack = FALSE, MaxAborts = 0
    PROVE  Spec => []CalmInv
  <1>1. Calm
    BY DEF Calm
  <1>2. Inv /\ Inv' /\ CalmInv /\ [Next]_vars => CalmInv'
    BY <1>1, CalmInvNext
  <1>3. QED
    BY <1>2, InvInit, InvNext, CalmInvInit, PTL DEF Spec

(* What a step of the firmware may clear. *)
LEMMA ClearedKnowingly ==
    ASSUME Inv, CalmInv, RegWrite, NEW b \in (CTR_RX \cup CTR_TX) \cap (epr \ epr')
    PROVE  /\ Head(todo).op = (IF b = "CTR_RX" THEN "ClearRxCTR" ELSE "ClearTxCTR")
           /\ latched # {} /\ \A r \in latched : b \in r
  <1> DEFINE o == Head(todo)
  <1>1. ~halted /\ todo # <<>> /\ latched # {}
    BY DEF RegWrite
  <1>2. ~Cold
    BY <1>1 DEF Cold, Nothing
  <1>3. ~InReset
    <2>1. ASSUME InReset PROVE FALSE
      <3>1. PICK r \in latched : epr' = HwWrite(epr, Written(o, r))
        BY DEF RegWrite
      <3>2. o \in AccessorOp /\ r \in Register /\ epr \in Register /\ epr \cap CTRs = {}
        BY <2>1, <3>1, InvParts, StageTyped DEF LatchOK, InReset
      <3>3. QED
        BY <3>2 DEF CTRs
    <2>2. QED
      BY <2>1
  <1>4. InHandler
    BY <1>1, <1>2, <1>3 DEF CalmInv, TxLive, TxInterrupted, InHandler, AtIn
  <1>5. PICK r \in Register : latched = {r} /\ epr' = After(o, r, epr)
    BY <1>4, HandlerWrites
  <1>6. o \in AccessorOp /\ o.op # "SetType"
    BY <1>1, <1>4, HandlerWrites, HandlerOps
  <1>7. CTR_RX = {"CTR_RX"} /\ CTR_TX = {"CTR_TX"} /\ b \in {"CTR_RX", "CTR_TX"} /\ b \in epr /\ b \notin epr'
    BY DEF CTR_RX, CTR_TX
  <1>8. o.op \in {"ClearTxCTR", "ClearRxCTR"}
    BY <1>5, <1>6, <1>7, AccessorCalm DEF Pending
  <1>9. /\ o.op = "ClearTxCTR" => todo = InList
        /\ o.op = "ClearRxCTR" => todo \in {SetupList, OutList}
    BY <1>1, <1>4, PointOps DEF InHandler, AtIn, AtSetup, AtOut
  <1>10. /\ todo = InList => /\ Pending(CTR_TX) /\ ~Pending(CTR_RX) /\ CTR_TX \subseteq r
         /\ todo \in {SetupList, OutList} => /\ Pending(CTR_RX) /\ ~Pending(CTR_TX) /\ CTR_RX \subseteq r
    <2>1. CASE CalmLive
      <3>1. ~Elsewhere
        BY <1>9, <1>8, NotAtList DEF NoList
      <3>2. InList \notin {SetupList, OutList}
        BY CallLists DEF Begins
      <3>3. QED
        BY <1>5, <1>8, <1>9, <2>1, <3>1, <3>2 DEF CalmLive, Elsewhere
    <2>2. CASE CalmInterrupted
      BY <1>5, <2>2 DEF CalmInterrupted
    <2>3. QED
      BY <1>1, <1>2, <1>3, <2>1, <2>2 DEF CalmInv
  <1>11. QED
    BY <1>1, <1>5, <1>7, <1>8, <1>9, <1>10 DEF Pending

(* No notice of a completed transfer is dropped unseen, with bus resets and lost
   handshakes in any number; the hypotheses are needed, since a SETUP that comes
   while a handler works may be reported between the read and the write of the
   accessor that clears the other notice. *)
THEOREM NoticesKept ==
    ASSUME BackToBack = FALSE, MaxAborts = 0
    PROVE  Spec => NoEventLost
  <1> DEFINE Seen(b) == /\ Head(todo).op = (IF b = "CTR_RX" THEN "ClearRxCTR" ELSE "ClearTxCTR")
                        /\ latched # {} /\ \A r \in latched : b \in r
  <1>1. ASSUME Inv, CalmInv, [Next]_vars
        PROVE  [\A b \in (CTR_RX \cup CTR_TX) \cap (epr \ epr') : Seen(b)]_vars
    <2>1. SUFFICES ASSUME NEW b \in (CTR_RX \cup CTR_TX) \cap (epr \ epr') PROVE Seen(b)
      OBVIOUS
    <2>2. epr \in Register /\ epr' # epr
      BY <1>1, StageTyped
    <2>3. /\ ~(CTR_RX \cup CTR_TX) \cap (epr \ HwSetup(epr)) # {}
          /\ ~(CTR_RX \cup CTR_TX) \cap (epr \ HwIn(epr)) # {}
          /\ ~(CTR_RX \cup CTR_TX) \cap (epr \ HwOut(epr)) # {}
          /\ ~(CTR_RX \cup CTR_TX) \cap (epr \ HwReset(epr)) # {}
      BY DEF HwSetup, HwIn, HwOut, HwReset, Xor, CTR_RX, CTR_TX, DTOG_RX, DTOG_TX, EPRX_STAT, EPTX_STAT,
             SETUP, TxBit, RxBit
    <2>4. RegWrite
      BY <1>1, <2>1, <2>2, <2>3
         DEF Next, Firmware, RegRead, WritePMA, InComplete, OutComplete, SetupComplete, DispatchIn,
           DispatchSetup, DispatchOut, DispatchReset, ApplyAddress, ResetMembers, EnableFunction, HostSetup,
           HostAbort, SendSetup, Transaction, HostIn, HostStatusIn, HostStatusOut, HostInLostAck,
           HostStalled, HostTimeout, HostReset, vars, hwVars
    <2>5. QED
      BY <1>1, <2>1, <2>4, ClearedKnowingly
  <1>2. Spec => [](Inv /\ CalmInv)
    BY CalmInvHolds, InvInit, InvNext, PTL DEF Spec
  <1>3. QED
    BY <1>1, <1>2, PTL DEF Spec, NoEventLost

-----------------------------------------------------------------------------
(* The address: AddressInv.                                                *)

(* The last access of a list decides whether the handler takes over the address. *)
LEMMA LastIs ==
    ASSUME NEW a \in Seq(Op), NEW b \in Seq(Op), b # <<>>
    PROVE  a \o b # <<>> /\ (a \o b)[Len(a \o b)] = b[Len(b)]
  <1>1. Len(a) \in Nat /\ Len(b) \in Nat /\ Len(b) >= 1
    OBVIOUS
  <1>2. Len(a \o b) = Len(a) + Len(b) /\ \A i \in 1 .. Len(b) : (a \o b)[Len(a) + i] = b[i]
    BY ConcatProperties
  <1>3. a \o b \in Seq(Op)
    BY ConcatProperties
  <1>4. QED
    BY <1>1, <1>2, <1>3

LEMMA LastOfThen ==
    ASSUME NEW o \in Op, NEW list \in Seq(Op)
    PROVE  /\ list # <<>> => Then(o, list)[Len(Then(o, list))] = list[Len(list)]
           /\ list = <<>> => Then(o, list)[Len(Then(o, list))] = o
  <1>1. <<o>> \in Seq(Op)
    OBVIOUS
  <1>2. list # <<>> => Then(o, list)[Len(Then(o, list))] = list[Len(list)]
    BY <1>1, LastIs DEF Then
  <1>3. list = <<>> => Then(o, list) = <<o>>
    BY <1>1, ConcatEmptySeq DEF Then
  <1>4. QED
    BY <1>2, <1>3

LEMMA LastOfCalls ==
    /\ Address[Len(Address)] = Do("ApplyAddress") /\ InCall[Len(InCall)] = Do("ApplyAddress")
    /\ InList[Len(InList)] = Do("ApplyAddress")
    /\ SetupCall[Len(SetupCall)] = Do("OnSetupTransferComplite")
    /\ SetupList[Len(SetupList)] = Do("OnSetupTransferComplite")
    /\ OutCall[Len(OutCall)] = Do("OnOutTransferComplite")
    /\ OutList[Len(OutList)] = Do("OnOutTransferComplite")
  <1>1. \A name \in {"ApplyAddress", "OnInTransferComplite", "ClearTxCTR", "OnSetupTransferComplite", "ClearRxCTR",
                     "OnOutTransferComplite"} : Do(name) \in Op
    BY OpsTyped DEF PlainAccessors, Calls
  <1>2. /\ Address[Len(Address)] = Do("ApplyAddress")
        /\ SetupCall[Len(SetupCall)] = Do("OnSetupTransferComplite")
        /\ OutCall[Len(OutCall)] = Do("OnOutTransferComplite")
    BY <1>1, LastOfThen, NothingTyped DEF Address, SetupCall, OutCall
  <1>3. InCall[Len(InCall)] = Do("ApplyAddress")
    BY <1>1, <1>2, LastOfThen, CallLists DEF InCall, Begins
  <1>4. InList[Len(InList)] = Do("ApplyAddress")
    BY <1>1, <1>3, LastOfThen, CallLists DEF InList, Begins
  <1>5. SetupList[Len(SetupList)] = Do("OnSetupTransferComplite")
    BY <1>1, <1>2, LastOfThen, CallLists DEF SetupList, Begins
  <1>6. OutList[Len(OutList)] = Do("OnOutTransferComplite")
    BY <1>1, <1>2, LastOfThen, CallLists DEF OutList, Begins
  <1>7. QED
    BY <1>2, <1>3, <1>4, <1>5, <1>6

(* Only the handler of an IN packet, whole or in part, applies an address. *)
LEMMA AppliesWhere ==
    /\ todo = InList \/ todo = InCall \/ todo = Address => Applies
    /\ AtSetup \/ AtOut \/ todo = Nothing => ~Applies
  BY LastOfCalls, CallLists, NothingTyped, OpsTyped DEF Applies, AtSetup, AtOut, Begins, Calls

(* What a handler has done does not change how it ends. *)
LEMMA AppliesStill ==
    ASSUME todo \in Seq(Op), todo # <<>>, todo' = Tail(todo)
    PROVE  /\ Applies' => Applies
           /\ Applies => Applies' \/ Head(todo).op = "ApplyAddress"
  <1> DEFINE rest == Tail(todo)
  <1>1. todo = Then(Head(todo), rest) /\ Head(todo) \in Op /\ rest \in Seq(Op)
    BY SplitList, HeadTailProperties
  <1>2. CASE rest = <<>>
    <2>1. todo[Len(todo)] = Head(todo) /\ ~Applies'
      BY <1>1, <1>2, LastOfThen DEF Applies
    <2>2. QED
      BY <2>1 DEF Applies, Do
  <1>3. CASE rest # <<>>
    <2>1. todo[Len(todo)] = rest[Len(rest)]
      BY <1>1, <1>3, LastOfThen
    <2>2. QED
      BY <1>3, <2>1 DEF Applies
  <1>4. QED
    BY <1>2, <1>3

(* Whatever OnInTransferComplite does, its handler goes on to the address. *)
LEMMA InCompleteApplies ==
    ASSUME Inv, todo = InCall, InComplete
    PROVE  Applies'
  <1>1. Tail(todo) = Address /\ Address \in Seq(Op) /\ Address # <<>>
    BY CallLists DEF Begins
  <1>2. pipe \in Pipes /\ RestOK(pipe)
    BY InvParts DEF PipeOK
  <1>3. ASSUME NEW p, NEW s \in TransferStage, NEW first \in Seq(Op), GoToStage(p, s, first, Address)
        PROVE  Applies'
    <2>1. StageAccesses(s) \in Seq(Op)
      <3>1. StageAccesses(s) \in Seq(GoodOp) /\ GoodOp \subseteq Op
        BY StageAccessesGood DEF GoodOp
      <3>2. QED
        BY <3>1, SeqMonotonic
    <2>2. first \o StageAccesses(s) \in Seq(Op)
      BY <1>3, <2>1, ConcatProperties
    <2>3. todo' = (first \o StageAccesses(s)) \o Address
      BY <1>3 DEF GoToStage
    <2>4. QED
      BY <1>1, <2>2, <2>3, LastIs, LastOfCalls DEF Applies
  <1>4. \A pkt \in Packet : <<Load(pkt)>> \in Seq(Op)
    <2>1. \A pkt \in Packet : Load(pkt) \in Op
      BY DEF Load, Op
    <2>2. QED
      BY <2>1
  <1>5. <<>> \in Seq(Op) /\ {"DataIN", "DataINLast", "StatusOUT", "Setup"} \subseteq TransferStage
    BY DEF TransferStage
  <1>6. \A n \in 0 .. MaxPacket : Piece(pipe, n) \in Packet
    BY <1>2, MaxPacketEven DEF Piece, Pipes, Packet
  <1>7. OnInTransferComplite(pipe, Address)
    BY <1>1 DEF InComplete
  <1>8. CASE GoToStage(Advance(pipe), "DataIN", <<Load(Piece(pipe, MaxPacket))>>, Address)
    BY <1>3, <1>4, <1>5, <1>6, <1>8, MaxPacketEven
  <1>9. CASE /\ pipe.m_remainLen \in 1 .. MaxPacket
             /\ GoToStage([pipe EXCEPT !.m_remainLen = 0],
                          IF pipe.m_len % MaxPacket # 0 THEN "DataINLast" ELSE "DataIN",
                          <<Load(Piece(pipe, pipe.m_remainLen))>>, Address)
    <2> DEFINE p == [pipe EXCEPT !.m_remainLen = 0]
               s == IF pipe.m_len % MaxPacket # 0 THEN "DataINLast" ELSE "DataIN"
               first == <<Load(Piece(pipe, pipe.m_remainLen))>>
    <2>1. s \in TransferStage
      BY <1>5
    <2>2. first \in Seq(Op)
      BY <1>4, <1>6, <1>9, MaxPacketEven
    <2>3. GoToStage(p, s, first, Address)
      BY <1>9
    <2> HIDE DEF p, s, first
    <2>4. QED
      BY <1>3, <2>1, <2>2, <2>3
  <1>10. CASE GoToStage(pipe, "DataINLast", <<Load(ZLP)>>, Address)
    BY <1>3, <1>4, <1>5, <1>10, ZLPGood
  <1>11. CASE GoToStage(pipe, "StatusOUT", <<>>, Address) \/ GoToStage(pipe, "Setup", <<>>, Address)
    BY <1>3, <1>5, <1>11
  <1>12. CASE todo' = Address
    BY <1>12, <1>1, LastOfCalls DEF Applies
  <1>13. QED
    BY <1>7, <1>8, <1>9, <1>10, <1>11, <1>12 DEF OnInTransferComplite

(* SET_ADDRESS: the device remembers the address and makes ready for the status stage. *)
LEMMA AddressTold ==
    ASSUME Inv, todo = SetupCall, SetupComplete, stage = "Setup", rx.kind = "SetAddress"
    PROVE  AtLoad' /\ Sending' /\ ~Applies' /\ g_devAddress' = rx.addr /\ halted' = halted
  <1>1. Tail(todo) = <<>> /\ pipe \in Pipes
    BY InvParts, CallLists, NothingTyped DEF PipeOK, Begins
  <1>2. g_devAddress' = rx.addr /\ halted' = halted /\ GoToStage(pipe, "StatusIN", <<Load(ZLP)>>, <<>>)
    BY <1>1 DEF SetupComplete, OnDeviceRequest, stage
  <1>3. Load(ZLP) \in Op /\ Load(ZLP).op = "WritePMA" /\ "StatusIN" \in TransferStage /\ <<>> \in Ends
    BY ZLPGood, NothingTyped DEF Load, Op, TransferStage, Ends
  <1>4. todo' = Then(Load(ZLP), RxLeft("StatusIN", <<>>)) /\ stage' = "StatusIN"
    BY <1>1, <1>2, <1>3, GoToStageList
  <1>5. todo' # <<>> /\ Head(todo') = Load(ZLP) /\ Tail(todo') = RxLeft("StatusIN", <<>>)
    BY <1>3, <1>4, StageLists, ThenIs
  <1>6. AtLoad' /\ Sending'
    BY <1>3, <1>4, <1>5, NothingTyped DEF AtLoad, Sending
  <1>7. ~Applies'
    <2> DEFINE x == SetRx(STALL)
               y == SetTx(VALID)
    <2>1. x \in Op /\ y \in Op /\ y # Do("ApplyAddress")
      BY OpsTyped DEF Status, Calls
    <2>2. RxLeft("StatusIN", <<>>) = Then(x, Then(y, <<>>))
      BY DEF RxLeft, TxLeft, KindLeft, StageRegisters
    <2> HIDE DEF x, y
    <2>3. Then(y, <<>>) \in Seq(Op) /\ Then(y, <<>>) # <<>> /\ Then(y, <<>>)[Len(Then(y, <<>>))] = y
      BY <2>1, ThenIs, LastOfThen, NothingTyped
    <2> DEFINE one == Then(y, <<>>)
               two == Then(x, one)
    <2> HIDE DEF one
    <2>4. two \in Seq(Op) /\ two # <<>> /\ two[Len(two)] = y
      BY <2>1, <2>3, ThenIs, LastOfThen DEF one
    <2>5. todo' = Then(Load(ZLP), two)
      BY <1>4, <2>2 DEF one
    <2> HIDE DEF two
    <2>6. todo'[Len(todo')] = y
      BY <1>3, <2>4, <2>5, LastOfThen
    <2>7. QED
      BY <2>1, <2>6 DEF Applies
  <1>8. QED
    BY <1>2, <1>6, <1>7

(* Once the reset is over, the handlers of CalmLive run. *)
LEMMA LiveIs ==
    ASSUME Inv, CalmInv, Live
    PROVE  TxLive /\ CalmLive /\ InHandler /\ ~istrReset
  <1>1. TxLive /\ CalmLive
    BY DEF CalmInv, Live, Cold, TxInterrupted, InReset
  <1>2. QED
    BY <1>1 DEF TxLive, InHandler, AtIn

(* What CalmLive says where the lists tell the points apart. *)
LEMMA CalmAt ==
    ASSUME Inv, CalmLive
    PROVE  /\ AtEnd => CalmEnd
           /\ AtSetup => TxStatus(epr) = NAK /\ ~Pending(CTR_TX) /\ Shut
           /\ todo = SetupCall => NoEvent
           /\ todo \in {InCall, OutCall} \/ AtLoad \/ AtUnkind \/ AtRx => NoEvent
           /\ AtTx \/ AtKind => (Pending(CTR_RX) => ~Pending(SETUP))
           /\ AtOut \/ AtIn => Shut
  <1>1. /\ InList # InCall /\ InList # SetupList /\ InList # SetupCall /\ InList # OutList /\ InList # OutCall
        /\ InCall # SetupList /\ InCall # SetupCall /\ InCall # OutList /\ InCall # OutCall
        /\ SetupList # SetupCall /\ SetupList # OutList /\ SetupList # OutCall
        /\ SetupCall # OutList /\ SetupCall # OutCall /\ OutList # OutCall
    <2>1. Tail(SetupList) # Tail(OutList)
      BY CallLists, OpsTyped DEF Begins
    <2>2. QED
      BY <2>1, CallLists DEF Begins
  <1>2. AtEnd => CalmEnd
    <2>1. SUFFICES ASSUME AtEnd PROVE CalmEnd
      OBVIOUS
    <2>2. Elsewhere /\ todo \notin {InCall, SetupCall, OutCall}
      BY <2>1, PointOps, CallLists DEF Elsewhere, Begins
    <2>3. ~AtTx /\ ~AtKind /\ ~AtRx /\ ~AtLoad /\ ~AtUnkind
      BY <2>1, PointOps
    <2>4. QED
      BY <2>1, <2>2, <2>3, NotAtList DEF CalmLive, NoList
  <1>3. AtSetup => TxStatus(epr) = NAK /\ ~Pending(CTR_TX) /\ Shut
    <2>1. SUFFICES ASSUME AtSetup PROVE TxStatus(epr) = NAK /\ ~Pending(CTR_TX) /\ Shut
      OBVIOUS
    <2>2. ~AtEnd /\ ~AtTx /\ ~AtKind /\ ~AtRx /\ ~AtLoad /\ ~AtUnkind
      BY <2>1, PointOps, CallLists DEF AtSetup, Begins
    <2>3. QED
      BY <1>1, <2>1, <2>2 DEF AtSetup, CalmLive, NoEvent
  <1>4. todo \in {InCall, OutCall, SetupCall} => NoEvent /\ Shut
    <2>1. SUFFICES ASSUME todo \in {InCall, OutCall, SetupCall} PROVE NoEvent /\ Shut
      OBVIOUS
    <2>2. ~AtEnd /\ ~AtTx /\ ~AtKind /\ ~AtRx /\ ~AtLoad /\ ~AtUnkind
      BY <2>1, PointOps, CallLists DEF Begins
    <2>3. QED
      BY <1>1, <2>1, <2>2 DEF CalmLive
  <1>5. AtLoad \/ AtUnkind \/ AtRx => NoEvent
    <2>1. SUFFICES ASSUME AtLoad \/ AtUnkind \/ AtRx PROVE NoEvent
      OBVIOUS
    <2>2. ~AtEnd /\ ~AtTx /\ ~AtKind /\ NoList
      BY <2>1, PointOps, NotAtList DEF Elsewhere
    <2>3. QED
      BY <2>1, <2>2 DEF CalmLive, NoList
  <1>6. AtTx \/ AtKind => (Pending(CTR_RX) => ~Pending(SETUP))
    <2>1. SUFFICES ASSUME AtTx \/ AtKind PROVE Pending(CTR_RX) => ~Pending(SETUP)
      OBVIOUS
    <2>2. ~AtEnd /\ NoList
      BY <2>1, PointOps, NotAtList DEF Elsewhere
    <2>3. QED
      BY <2>1, <2>2 DEF CalmLive, NoList, NoEvent
  <1>7. todo \in {OutList, InList} => Shut
    <2>1. SUFFICES ASSUME todo \in {OutList, InList} PROVE Shut
      OBVIOUS
    <2>2. ~AtEnd /\ ~AtTx /\ ~AtKind /\ ~AtRx /\ ~AtLoad /\ ~AtUnkind
      BY <2>1, PointOps, CallLists DEF Begins
    <2>3. QED
      BY <1>1, <2>1, <2>2 DEF CalmLive
  <1>8. QED
    BY <1>2, <1>3, <1>4, <1>5, <1>6, <1>7 DEF AtIn, AtOut

LEMMA UnservedWaits ==
    ASSUME Inv, CalmLive, Unserved
    PROVE  TxStatus(epr) = NAK /\ ~Pending(CTR_TX) /\ Shut
  <1>1. CASE AtSetup
    BY <1>1, CalmAt
  <1>2. CASE AtEnd /\ Pending(CTR_RX) /\ Pending(SETUP)
    BY <1>2, CalmAt, StatusDistinct DEF CalmEnd, Shut
  <1>3. QED
    BY <1>1, <1>2 DEF Unserved

(* No access of a handler sets a bit that reports something. *)
LEMMA EventsFall ==
    ASSUME Inv, InHandler, Firmware
    PROVE  /\ Pending(CTR_RX)' => Pending(CTR_RX)
           /\ Pending(CTR_TX)' => Pending(CTR_TX)
           /\ Pending(SETUP)' <=> Pending(SETUP)
           /\ ~Running("EnableFunction")
  <1>1. CASE RegWrite
    <2>1. PICK r \in Register : latched = {r} /\ epr' = After(Head(todo), r, epr)
      BY <1>1, HandlerWrites
    <2>2. Head(todo) \in AccessorOp /\ todo # <<>>
      BY <1>1, HandlerWrites DEF Advanced
    <2>3. Head(todo).op \notin {"SetType", "EnableFunction"}
      BY <2>2, HandlerOps
    <2>4. QED
      BY <2>1, <2>2, <2>3, AccessorCalm DEF Running
  <1>2. CASE ~RegWrite
    <2>1. epr' = epr
      BY <1>2 DEF Firmware, RegRead, WritePMA, InComplete, OutComplete, SetupComplete, DispatchIn, DispatchSetup,
                  DispatchOut, DispatchReset, ApplyAddress, ResetMembers, EnableFunction, hwVars
    <2>2. QED
      BY <2>1, HandlerOps DEF Pending, Running
  <1>3. QED
    BY <1>1, <1>2

OnlySetup == ~AtEnd /\ ~AtLoad /\ ~AtRx /\ ~AtTx /\ ~AtKind /\ ~AtUnkind

LEMMA SetupApart == Inv /\ AtSetup => OnlySetup
  BY PointOps, CallLists DEF AtSetup, Begins, OnlySetup

(* No step of the firmware puts a SETUP before the handlers that was not there. *)
LEMMA UnservedBefore ==
    ASSUME Inv, Inv', TxLive, CalmLive, InHandler, Firmware, Unserved', ~halted'
    PROVE  Unserved
  <1>1. Pending(CTR_RX)' => Pending(CTR_RX)
    BY EventsFall
  <1>2. Pending(SETUP)' => Pending(SETUP)
    BY EventsFall
  <1>3. AtEnd' => NoList'
    <2>1. Elsewhere' => NoList'
      BY NotAtList, PTL
    <2>2. QED
      BY <2>1 DEF Elsewhere
  <1>4. AtSetup' => ~AtEnd' /\ ~AtLoad' /\ ~AtRx' /\ ~AtTx' /\ ~AtKind' /\ ~AtUnkind'
    <2>1. AtSetup' => OnlySetup'
      BY SetupApart, PTL
    <2>2. QED
      BY <2>1 DEF OnlySetup
  <1>5. CASE RegRead
    <2>1. UNCHANGED <<pipe, todo, epr>>
      BY <1>5, HandlerReads DEF hwVars
    <2>2. QED
      BY <2>1 DEF Unserved, AtEnd, AtSetup, Pending
  <1>6. CASE RegWrite
    <2>1. Advanced /\ ~AtEnd /\ todo \notin {InCall, SetupCall, OutCall} /\ ~AtLoad
      BY <1>6, HandlerWrites
    <2>2. CASE AtSetup
      BY <2>2 DEF Unserved
    <2>3. CASE todo \in {InList, OutList}
      <3>1. todo' \in {InCall, OutCall}
        BY <2>1, <2>3, StageTyped, PointAdvances
      <3>2. ~AtSetup' /\ ~AtEnd'
        <4>1. ~AtSetup'
          BY <3>1, CallLists DEF AtSetup, Begins
        <4>2. ~AtEnd'
          BY <3>1, CallLists DEF AtEnd, Ends, Begins, Nothing
        <4>3. QED
          BY <4>1, <4>2
      <3>3. QED
        BY <3>2 DEF Unserved
    <2>4. CASE AtUnkind \/ AtRx
      <3>1. ~Pending(CTR_RX)
        BY <2>4, CalmAt DEF NoEvent
      <3>2. AtRx' \/ AtTx'
        BY <2>1, <2>4, StageTyped, PointAdvances
      <3>3. QED
        BY <1>1, <1>4, <3>1, <3>2 DEF Unserved
    <2>5. CASE AtTx \/ AtKind
      <3>1. AtEnd' \/ AtKind'
        BY <2>1, <2>5, StageTyped, PointAdvances
      <3>2. QED
        BY <1>1, <1>2, <1>4, <2>5, <3>1, CalmAt DEF Unserved
    <2>6. QED
      BY <2>1, <2>2, <2>3, <2>4, <2>5 DEF InHandler, AtIn, AtOut
  <1>7. CASE WritePMA /\ AtLoad /\ AtRx'
    BY <1>1, <1>4, <1>7, CalmAt DEF Unserved, NoEvent
  <1>8. CASE InComplete /\ todo = InCall
    <2>1. AtLoad' \/ AtRx' \/ AtEnd'
      BY <1>8, InCompletePoints DEF AtEnd, Ends
    <2>2. QED
      BY <1>1, <1>4, <1>8, <2>1, CalmAt DEF Unserved, NoEvent
  <1>9. CASE OutComplete /\ todo = OutCall
    <2>1. AtUnkind' \/ AtEnd'
      BY <1>9, OutCompletePoints DEF AtEnd, Ends
    <2>2. QED
      BY <1>1, <1>4, <1>9, <2>1, CalmAt DEF Unserved, NoEvent
  <1>10. CASE SetupComplete /\ todo = SetupCall
    BY <1>10 DEF Unserved, AtSetup
  <1>11. CASE ApplyAddress /\ AtEnd /\ AtEnd'
    BY <1>1, <1>2, <1>4, <1>11 DEF Unserved
  <1>12. CASE (DispatchIn \/ DispatchSetup \/ DispatchOut) /\ todo = <<>>
    <2>1. CASE DispatchSetup
      BY <1>12, <2>1, PointOps DEF DispatchSetup, Unserved
    <2>2. CASE DispatchIn \/ DispatchOut
      <3>1. todo' = InList \/ todo' = OutList
        BY <2>2, DispatchLists
      <3>2. ~AtSetup' /\ ~AtEnd'
        <4>1. Tail(SetupList) # Tail(OutList)
          BY CallLists, OpsTyped DEF Begins
        <4>2. ~AtSetup'
          BY <3>1, <4>1, CallLists DEF AtSetup, Begins
        <4>3. ~AtEnd'
          BY <1>3, <3>1 DEF NoList
        <4>4. QED
          BY <4>2, <4>3
      <3>3. QED
        BY <3>2 DEF Unserved
    <2>3. QED
      BY <1>12, <2>1, <2>2
  <1>13. ~DispatchReset
    BY DEF DispatchReset, TxLive
  <1>14. QED
    BY <1>5, <1>6, <1>7, <1>8, <1>9, <1>10, <1>11, <1>12, <1>13, HandlerSteps

(* Two calls move the address: ApplyAddress takes over what the request for it left. *)
LEMMA AddressMoves ==
    ASSUME Inv, InHandler, Firmware
    PROVE  \/ UNCHANGED <<g_devAddress, daddr>>
           \/ ApplyAddress /\ todo = Address /\ todo' = Nothing
                  /\ daddr' = [ef |-> TRUE, add |-> g_devAddress] /\ g_devAddress # 0 /\ g_devAddress' = 0
           \/ SetupComplete /\ todo = SetupCall /\ stage = "Setup" /\ rx.kind = "SetAddress"
                  /\ g_devAddress' = rx.addr /\ daddr' = daddr
  <1>1. CASE SetupComplete /\ todo = SetupCall
    BY <1>1 DEF SetupComplete, OnDeviceRequest, stage, hwVars
  <1>2. CASE ApplyAddress /\ todo = Address /\ todo' = Nothing
    BY <1>2 DEF ApplyAddress
  <1>3. CASE RegRead \/ RegWrite \/ WritePMA \/ InComplete \/ OutComplete \/ DispatchIn \/ DispatchSetup
             \/ DispatchOut \/ DispatchReset
    BY <1>3 DEF RegRead, RegWrite, WritePMA, InComplete, OutComplete, DispatchIn, DispatchSetup, DispatchOut,
                DispatchReset, hwVars
  <1>4. QED
    BY <1>1, <1>2, <1>3, HandlerSteps

(* A handler that has nothing to do and nothing to serve stays. *)
LEMMA NothingToDo ==
    ASSUME Inv, ~istrReset, NoEvent, todo = Nothing
    PROVE  ~Firmware
  BY HandlerSteps, PointOps DEF NoEvent, Nothing, InHandler, AtIn, RegRead, RegWrite, WritePMA, InComplete,
     OutComplete, SetupComplete, DispatchIn, DispatchSetup, DispatchOut, DispatchReset, ApplyAddress,
     ResetMembers, EnableFunction, Running, Firmware

(* A request for an address waits unserved with the transmitter closed. *)
LEMMA WaitingUnserved ==
    ASSUME Inv, Inv', TxLive, CalmLive, InHandler, Firmware, UNCHANGED host, Unserved, ~halted',
           ~(todo = SetupCall /\ stage = "Setup" /\ SetupComplete)
    PROVE  TxStatus(epr') = NAK /\ (Unserved' \/ (todo' = Nothing /\ NoEvent'))
  <1>1. TxStatus(epr) = NAK /\ ~Pending(CTR_TX)
    BY UnservedWaits
  <1>2. /\ Pending(CTR_RX)' => Pending(CTR_RX)
        /\ Pending(CTR_TX)' => Pending(CTR_TX)
    BY EventsFall
  <1>3. CASE todo = SetupCall
    <2>1. NoEvent /\ ~AtEnd /\ ~AtLoad
      BY <1>3, CalmAt, PointOps, CallLists DEF Begins
    <2>2. CASE SetupComplete
      <3>1. todo' = Nothing /\ epr' = epr
        BY <1>3, <2>2, CallLists DEF SetupComplete, Ignore, stage, hwVars, Begins
      <3>2. QED
        BY <1>1, <1>2, <2>1, <3>1 DEF NoEvent
    <2>3. CASE RegRead
      BY <1>1, <1>3, <2>3, HandlerReads DEF hwVars, Unserved, AtSetup
    <2>4. QED
      BY <1>3, <2>1, <2>2, <2>3, HandlerSteps, HandlerWrites, CallLists DEF Begins
  <1>4. CASE todo = SetupList
    <2>1. ~AtEnd /\ ~AtLoad
      BY <1>4, PointOps, CallLists DEF Begins
    <2>2. CASE RegRead
      BY <1>1, <1>4, <2>2, HandlerReads DEF hwVars, Unserved, AtSetup
    <2>3. CASE RegWrite
      <3>1. PICK r \in Register : latched = {r} /\ epr' = After(Head(todo), r, epr)
        BY <2>3, HandlerWrites
      <3>2. Advanced /\ Head(todo) \in AccessorOp /\ Head(todo).op = "ClearRxCTR"
        BY <1>4, <2>3, HandlerWrites, PointOps
      <3>3. TxStatus(epr') = NAK
        BY <1>1, <3>1, <3>2, AccessorCalm
      <3>4. todo' = SetupCall
        BY <1>4, <3>2, StageTyped, PointAdvances
      <3>5. QED
        BY <3>3, <3>4 DEF Unserved, AtSetup
    <2>4. QED
      BY <1>4, <2>1, <2>2, <2>3, HandlerSteps, CallLists DEF Begins
  <1>5. CASE AtEnd /\ Pending(CTR_RX) /\ Pending(SETUP)
    <2>1. CASE todo = <<>>
      <3>1. DispatchSetup
        BY <1>5, <2>1, HandlerSteps, CallLists
           DEF Begins, RegRead, RegWrite, WritePMA, Running, DispatchIn, DispatchOut, DispatchReset
      <3>2. todo' = SetupList /\ epr' = epr
        BY <3>1, DispatchLists DEF DispatchSetup, hwVars
      <3>3. QED
        BY <1>1, <3>2 DEF Unserved, AtSetup
    <2>2. CASE todo # <<>>
      <3>1. Head(todo).op = "ApplyAddress" /\ Head(todo) = Do("ApplyAddress") /\ todo = Address
        BY <1>5, <2>2, PointOps, CallLists DEF Begins
      <3>2. ~RegRead /\ ~RegWrite /\ ~AtLoad
        <4>1. ~AtLoad
          BY <1>5, <3>1, PointOps
        <4>2. Head(todo) \notin AccessorOp
          BY <3>1 DEF AccessorOp, PlainAccessors
        <4>3. QED
          BY <4>1, <4>2, HandlerWrites DEF RegRead
      <3>3. ApplyAddress /\ todo' = Nothing
        BY <2>2, <3>1, <3>2, HandlerSteps, CallLists DEF Begins
      <3>4. epr' = epr /\ todo' = Nothing
        BY <3>3 DEF ApplyAddress
      <3>5. QED
        BY <1>1, <1>5, <3>4 DEF Unserved, AtEnd, Ends, Pending
    <2>3. QED
      BY <2>1, <2>2
  <1>6. QED
    BY <1>3, <1>4, <1>5 DEF Unserved, AtSetup

LEMMA AgreedStep ==
    ASSUME Inv, Inv', CalmInv, Live, Agreed, Firmware, UNCHANGED host
    PROVE  \/ halted' /\ g_devAddress' = 0 /\ daddr'.add = host'.addr /\ TxStatus(epr') # VALID
           \/ Live' /\ (Agreed' \/ Told')
  <1>1. TxLive /\ CalmLive /\ InHandler /\ ~istrReset /\ ~halted
    BY LiveIs DEF Live
  <1>2. CASE halted'
    <2>1. SetupComplete /\ todo = SetupCall /\ rx.kind = "Unsupported"
      <3>1. SetupComplete
        BY <1>1, <1>2 DEF Firmware, RegRead, RegWrite, WritePMA, InComplete, OutComplete, DispatchIn,
             DispatchSetup, DispatchOut, DispatchReset, ApplyAddress, ResetMembers, EnableFunction
      <3>2. QED
        BY <1>1, <1>2, <3>1, OpPoints DEF SetupComplete, Running, OnDeviceRequest
    <2>2. UNCHANGED <<g_devAddress, daddr, epr>>
      BY <2>1 DEF SetupComplete, OnDeviceRequest, hwVars
    <2>3. TxStatus(epr) = NAK
      BY <1>1, <2>1, CalmAt DEF AtSetup
    <2>4. QED
      BY <1>2, <2>2, <2>3, StatusDistinct DEF Agreed
  <1>3. CASE ~halted' /\ SetupComplete /\ todo = SetupCall /\ stage = "Setup" /\ rx.kind = "SetAddress"
    <2>1. Unserved /\ rx = host.req /\ host.phase = "StatusIN" /\ host.addr = 0
      BY <1>3 DEF Agreed, Unserved, AtSetup, FirstPhase
    <2>2. AtLoad' /\ Sending' /\ ~Applies' /\ g_devAddress' = host.req.addr /\ UNCHANGED <<epr, daddr>>
      BY <1>3, <2>1, AddressTold DEF SetupComplete, hwVars
    <2>3. NoEvent' /\ TxStatus(epr') = NAK
      BY <1>1, <1>3, <2>2, CalmAt DEF NoEvent, Pending, AtSetup
    <2>4. Live' /\ daddr'.add = 0
      BY <1>3, <2>1, <2>2 DEF Live, Agreed
    <2>5. CASE host.req.addr # 0
      <3>1. Assigning' /\ g_devAddress' = host'.req.addr /\ host'.addr = 0
        BY <1>3, <2>1, <2>2, <2>5 DEF Assigning
      <3>2. Told'
        BY <2>2, <2>3, <2>4, <3>1 DEF Told
      <3>3. QED
        BY <2>4, <3>2
    <2>6. CASE host.req.addr = 0
      <3>1. Unserved' => Unserved
        BY <1>1, <1>3, UnservedBefore
      <3>2. rx' = rx
        BY <1>3 DEF SetupComplete, hwVars
      <3>3. Agreed'
        BY <2>1, <2>2, <2>4, <2>6, <3>2 DEF Agreed, Assigning, FirstPhase
      <3>4. QED
        BY <2>4, <3>3
    <2>7. QED
      BY <2>5, <2>6
  <1>4. CASE ~halted' /\ ~(SetupComplete /\ todo = SetupCall /\ stage = "Setup" /\ rx.kind = "SetAddress")
    <2>1. UNCHANGED <<g_devAddress, daddr>>
      BY <1>1, <1>4, AddressMoves DEF Agreed
    <2>2. Live'
      BY <1>4, <2>1 DEF Live
    <2>3. rx' = rx /\ (Unserved' => Unserved)
      <3>1. rx' = rx
        BY DEF Firmware, RegRead, RegWrite, WritePMA, InComplete, OutComplete, SetupComplete, DispatchIn,
               DispatchSetup, DispatchOut, DispatchReset, ApplyAddress, ResetMembers, EnableFunction, hwVars
      <3>2. QED
        BY <1>1, <1>4, <3>1, UnservedBefore
    <2>4. Assigning => TxStatus(epr') = NAK /\ (Unserved' \/ (todo' = Nothing /\ NoEvent'))
      <3>1. SUFFICES ASSUME Assigning
                     PROVE  TxStatus(epr') = NAK /\ (Unserved' \/ (todo' = Nothing /\ NoEvent'))
        OBVIOUS
      <3>2. Unserved
        BY <1>1, <3>1, NothingToDo DEF Agreed
      <3>3. ~(todo = SetupCall /\ stage = "Setup" /\ SetupComplete)
        BY <1>4, <3>1, <3>2 DEF Agreed, Assigning
      <3>4. QED
        BY <1>1, <1>4, <3>2, <3>3, WaitingUnserved
    <2>5. Agreed'
      BY <2>1, <2>3, <2>4 DEF Agreed, Assigning
    <2>6. QED
      BY <2>2, <2>5
  <1>5. QED
    BY <1>2, <1>3, <1>4

LEMMA ToldStep ==
    ASSUME Inv, CalmInv, Live, Told, Firmware, UNCHANGED host
    PROVE  Live' /\ Told'
  <1>1. TxLive /\ CalmLive /\ InHandler /\ ~istrReset /\ ~halted /\ todo \in Seq(Op)
    BY LiveIs DEF Live, Inv, TypeOK
  <1>2. todo # Nothing /\ (AtLoad \/ AtRx \/ AtTx) /\ ~Applies /\ TxStatus(epr) = NAK
    BY <1>1, NothingToDo DEF Told
  <1>3. ~AtEnd /\ ~AtIn /\ ~AtSetup /\ ~AtOut
    BY <1>2, PointOps, CallLists DEF AtIn, AtSetup, AtOut, Begins
  <1>4. RegRead \/ RegWrite \/ (WritePMA /\ AtLoad /\ AtRx')
    BY <1>1, <1>3, PointOps, HandlerSteps DEF AtIn, AtSetup, AtOut
  <1>5. UNCHANGED <<g_devAddress, halted, daddr, pipe>>
    BY <1>4 DEF RegRead, RegWrite, WritePMA, hwVars
  <1>6. Live' /\ (Sending' <=> Sending) /\ NoEvent' /\ (Assigning' <=> Assigning)
    BY <1>1, <1>5, EventsFall DEF Live, Sending, stage, Told, NoEvent, Assigning
  <1>7. CASE RegRead
    <2>1. latched' = {epr} /\ UNCHANGED <<todo, epr>>
      BY <1>1, <1>7, HandlerReads DEF hwVars
    <2>2. (AtLoad' <=> AtLoad) /\ (AtRx' <=> AtRx) /\ (AtTx' <=> AtTx) /\ (Applies' <=> Applies)
      BY <1>5, <2>1, PointsSame DEF Applies
    <2>3. QED
      BY <1>2, <1>5, <1>6, <2>1, <2>2 DEF Told
  <1>8. CASE WritePMA /\ AtLoad /\ AtRx'
    <2>1. todo' = Tail(todo) /\ UNCHANGED epr
      BY <1>8 DEF WritePMA
    <2>2. ~Applies'
      BY <1>1, <1>2, <2>1, AppliesStill DEF Nothing
    <2>3. QED
      BY <1>2, <1>5, <1>6, <1>8, <2>1, <2>2 DEF Told
  <1>9. CASE RegWrite
    <2> DEFINE o == Head(todo)
    <2>1. PICK r \in Register : latched = {r} /\ epr' = After(o, r, epr)
      BY <1>1, <1>9, HandlerWrites
    <2>2. o \in AccessorOp /\ Advanced /\ latched' = {} /\ ~AtLoad
      BY <1>1, <1>9, HandlerWrites
    <2>3. ~Applies'
      BY <1>1, <1>2, <2>2, AppliesStill DEF Nothing, Advanced
    <2>4. CASE AtRx
      <3>1. o.op = "SetRxStatus" /\ AtTx'
        BY <2>2, <2>4, PointOps, PointAdvances, StageTyped
      <3>2. TxStatus(epr') = NAK
        BY <1>2, <2>1, <2>2, <3>1, AccessorCalm
      <3>3. QED
        BY <1>5, <1>6, <2>2, <2>3, <3>1, <3>2 DEF Told
    <2>5. CASE AtTx
      <3>1. TxStatus(r) = NAK
        BY <1>3, <2>1, <2>2, <2>5, PointOps DEF Told, Nothing
      <3>2. o = SetTx(VALID) /\ VALID \in Status
        BY <2>5, StageTyped, StageStatus, PointTails DEF Told, Sending
      <3>3. TxStatus(epr') = Xor(Xor(NAK, VALID), NAK)
        BY <1>2, <2>1, <3>1, <3>2, StageTyped, StatusToggled
      <3>4. TxStatus(epr') = VALID
        BY <3>3, ToggledFrom
      <3>5. AtEnd'
        <4>1. AtEnd' \/ AtKind'
          BY <2>2, <2>5, PointAdvances, StageTyped
        <4>2. stage' # "StatusOUT"
          BY <1>6 DEF Told, Sending
        <4>3. QED
          BY <4>1, <4>2 DEF AtKind
      <3>6. todo' = Nothing
        <4>1. Address # <<>> /\ Address[Len(Address)] = Do("ApplyAddress")
          BY LastOfCalls, CallLists DEF Begins
        <4>2. QED
          BY <2>3, <3>5, <4>1 DEF AtEnd, Ends, Applies
      <3>7. QED
        BY <1>5, <1>6, <3>4, <3>6 DEF Told
    <2>6. QED
      BY <1>2, <2>2, <2>4, <2>5
  <1>10. QED
    BY <1>4, <1>7, <1>8, <1>9

LEMMA ConfirmedStep ==
    ASSUME Inv, CalmInv, Live, Confirmed, Firmware, UNCHANGED host
    PROVE  Live' /\ (Confirmed' \/ Agreed')
  <1>1. TxLive /\ CalmLive /\ InHandler /\ ~istrReset /\ ~halted /\ todo \in Seq(Op)
    BY LiveIs DEF Live, Inv, TypeOK
  <1>2. ~Pending(CTR_RX)'
    BY <1>1, EventsFall DEF Confirmed
  <1>3. ~(SetupComplete /\ todo = SetupCall) /\ ~(OutComplete /\ todo = OutCall)
    <2>1. SetupCall # <<>> /\ OutCall # <<>>
      BY CallLists DEF Begins
    <2>2. QED
      BY <2>1, AppliesWhere DEF Confirmed, AtSetup, AtOut, Nothing
  <1>4. halted' = halted
    BY <1>3, HandlerSteps, <1>1 DEF RegRead, RegWrite, WritePMA, InComplete, DispatchIn, DispatchSetup,
       DispatchOut, DispatchReset, ApplyAddress
  <1>5. CASE ApplyAddress /\ todo' = Nothing /\ daddr' = [ef |-> TRUE, add |-> g_devAddress] /\ g_devAddress' = 0
    <2>1. Live' /\ daddr'.add = host'.addr /\ host'.phase = "Idle"
      BY <1>4, <1>5 DEF Live, Confirmed
    <2>2. ~Unserved'
      BY <1>2, <1>5, CallLists DEF Unserved, AtSetup, Begins, Nothing
    <2>3. QED
      BY <1>5, <2>1, <2>2 DEF Agreed, Assigning
  <1>6. CASE UNCHANGED <<g_devAddress, daddr>>
    <2>1. Live'
      BY <1>4, <1>6 DEF Live
    <2>2. Applies'
      <3>1. CASE todo = Nothing
        <4>1. Pending(CTR_TX) /\ ~Pending(CTR_RX)
          BY <3>1, AppliesWhere DEF Confirmed
        <4>2. todo = <<>> /\ ~AtLoad /\ todo # InCall
          BY <3>1, PointOps, CallLists DEF Nothing, Begins
        <4>3. DispatchIn
          BY <1>1, <4>1, <4>2, HandlerSteps, CallLists
             DEF RegRead, RegWrite, DispatchSetup, DispatchOut, DispatchReset, WritePMA, Running, Begins,
                 InComplete, OutComplete, SetupComplete, ApplyAddress
        <4>4. todo' = InList
          BY <4>3, DispatchLists
        <4>5. QED
          BY <4>4, LastOfCalls, CallLists DEF Applies, Begins
      <3>2. CASE Applies /\ todo # Nothing
        <4>1. CASE InComplete /\ todo = InCall
          BY <4>1, InCompleteApplies
        <4>2. CASE RegRead
          <5>1. UNCHANGED todo
            BY <1>1, <4>2, HandlerReads
          <5>2. QED
            BY <3>2, <5>1 DEF Applies
        <4>3. CASE RegWrite \/ WritePMA
          <5>1. todo # <<>> /\ todo' = Tail(todo)
            BY <3>2, <4>3 DEF Nothing, RegWrite, WritePMA
          <5>2. Head(todo).op # "ApplyAddress"
            <6>1. CASE RegWrite
              BY <1>1, <6>1, HandlerWrites DEF AccessorOp, PlainAccessors
            <6>2. CASE WritePMA
              BY <6>2 DEF WritePMA, Running
            <6>3. QED
              BY <4>3, <6>1, <6>2
          <5>3. QED
            BY <1>1, <3>2, <5>1, <5>2, AppliesStill
        <4>4. ~ApplyAddress
          BY <1>6 DEF ApplyAddress, Confirmed
        <4>5. QED
          BY <1>1, <1>3, <3>2, <4>1, <4>2, <4>3, <4>4, HandlerSteps DEF Nothing
      <3>3. QED
        BY <3>1, <3>2 DEF Confirmed
    <2>3. QED
      BY <1>2, <1>6, <2>1, <2>2 DEF Confirmed
  <1>7. QED
    BY <1>1, <1>3, <1>5, <1>6, AddressMoves

(* The handler of the first bus reset. *)
LEMMA ResettingStep ==
    ASSUME Inv, Resetting, Firmware, UNCHANGED host
    PROVE  Resetting'
  <1> DEFINE o == Head(todo)
             Lists == {Reset1, Reset2, Reset3, Reset4, Reset5, Reset6, Reset7, Reset8}
  <1>1. /\ todo \in Lists => /\ o.op \in {"SetType", "SetAddress", "ClearTxDTOG", "SetTxStatus", "ClearRxDTOG",
                                          "SetRxStatus", "ResetMembers", "EnableFunction"}
                             /\ Tail(todo) \in Lists \cup {Nothing}
    BY ResetLists, OpsTyped DEF Begins, Status
  <1>2. todo \in Lists \/ todo = <<>>
    BY DEF Resetting, Nothing
  <1>3. RegRead \/ RegWrite \/ ResetMembers \/ EnableFunction \/ DispatchReset
    BY <1>1, <1>2 DEF Firmware, WritePMA, InComplete, OutComplete, SetupComplete, ApplyAddress, Running,
                      DispatchIn, DispatchSetup, DispatchOut, Resetting, NoEvent, Nothing
  <1>4. ~DispatchReset => todo \in Lists
    BY <1>2, <1>3 DEF RegRead, RegWrite, ResetMembers, EnableFunction, Running
  <1>5. todo' \in Lists \cup {Nothing}
    <2>1. CASE DispatchReset
      BY <2>1, DispatchLists
    <2>2. CASE ~DispatchReset
      <3>1. todo' = todo \/ todo' = Tail(todo)
        BY <1>3, <2>2 DEF RegRead, RegWrite, ResetMembers, EnableFunction
      <3>2. QED
        BY <1>1, <1>4, <2>2, <3>1
    <2>3. QED
      BY <2>1, <2>2
  <1>6. NoEvent'
    <2>1. CASE RegWrite
      <3>1. PICK r \in latched : epr' = HwWrite(epr, Written(o, r))
        BY <2>1 DEF RegWrite
      <3>2. o \in AccessorOp /\ r \in Register /\ epr \in Register
        BY <3>1, InvParts, StageTyped DEF LatchOK
      <3>3. epr' \cap CTRs \subseteq epr
        BY <3>1, <3>2, AccessorEvents DEF After
      <3>4. QED
        BY <3>3 DEF Resetting, NoEvent, Pending, CTRs, CTR_RX, CTR_TX
    <2>2. CASE ~RegWrite
      <3>1. epr' = epr
        BY <1>3, <2>2 DEF RegRead, ResetMembers, EnableFunction, DispatchReset, hwVars
      <3>2. QED
        BY <3>1 DEF Resetting, NoEvent, Pending
    <2>3. QED
      BY <2>1, <2>2
  <1>7. halted' = halted /\ g_devAddress' = g_devAddress /\ (daddr' = daddr \/ daddr'.add = 0)
    BY <1>3 DEF RegRead, RegWrite, ResetMembers, EnableFunction, DispatchReset, hwVars
  <1>8. QED
    BY <1>5, <1>6, <1>7 DEF Resetting

HostActs == HostSetup \/ HostAbort \/ Transaction \/ HostInLostAck \/ HostStalled \/ HostTimeout \/ HostReset

(* Only the status stage of a SET_ADDRESS changes the address the host uses, and
   only a SETUP the request. *)
LEMMA HostFrame ==
    ASSUME Inv, HostActs, ~HostReset
    PROVE  /\ UNCHANGED <<pipe, g_devAddress, todo, latched, halted, daddr, istrReset, tx>>
           /\ budget'.resets = budget.resets
           /\ ~HostStatusIn => host'.addr = host.addr
           /\ ~HostSetup /\ ~HostAbort => rx' = rx /\ host'.req = host.req
           /\ epr' \in {epr, HwSetup(epr), HwIn(epr), HwOut(epr)}
           /\ host.phase = "Reset" => HostSetup /\ Quiet
           /\ host'.phase # "Reset"
  <1>1. host \in Hosts /\ budget \in [resets : 0 .. MaxResets, aborts : 0 .. MaxAborts, lost : 0 .. MaxLost]
    BY InvParts DEF HostOK
  <1>2. CASE HostSetup \/ HostAbort
    BY <1>1, <1>2 DEF HostSetup, HostAbort, SendSetup, pipeVars, Hosts, Free, FirstPhase
  <1>3. CASE HostIn
    BY <1>1, <1>3 DEF HostIn, pipeVars, Hosts, Received
  <1>4. CASE HostInLostAck
    BY <1>1, <1>4 DEF HostInLostAck, pipeVars, hwVars, Hosts, Received
  <1>5. CASE HostStatusIn
    BY <1>1, <1>5 DEF HostStatusIn, pipeVars, Hosts
  <1>6. CASE HostStatusOut
    BY <1>1, <1>6 DEF HostStatusOut, pipeVars, Hosts
  <1>7. CASE HostStalled \/ HostTimeout
    BY <1>1, <1>7 DEF HostStalled, HostTimeout, pipeVars, hwVars, Hosts, Free
  <1>8. QED
    BY <1>2, <1>3, <1>4, <1>5, <1>6, <1>7 DEF HostActs, Transaction

\* What a breakpoint leaves behind for good.
Stopped == halted /\ g_devAddress = 0 /\ daddr.add = host.addr /\ TxStatus(epr) # VALID

LEMMA StoppedHost ==
    ASSUME Inv, Stopped, HostActs, ~HostReset
    PROVE  Stopped'
  <1>1. ~HostStatusIn
    BY DEF Stopped, HostStatusIn, InToken
  <1>2. TxStatus(epr') # VALID
    <2>1. epr' \in {epr, HwSetup(epr), HwOut(epr)}
      BY <1>1 DEF Stopped, HostActs, Transaction, HostIn, InToken, HostSetup, HostAbort, SendSetup,
           HostInLostAck, HostStalled, HostTimeout, HostStatusOut, hwVars
    <2>2. QED
      BY <2>1, StageTyped, HwSetupFields, HwOutFields, StatusDistinct DEF Stopped
  <1>3. QED
    BY <1>1, <1>2, HostFrame DEF Stopped

LEMMA SetupHost ==
    ASSUME Calm, Inv, ~halted, HostSetup \/ HostAbort, g_devAddress = 0, daddr.add = host.addr
    PROVE  Live' /\ Agreed'
  <1>1. HostSetup /\ todo = <<>> /\ NoEvent
    BY CalmSetup
  <1>2. PICK r \in Requests : Allowed(r) /\ SendSetup(r)
    BY <1>1 DEF HostSetup
  <1>3. epr \in Register /\ host \in Hosts
    BY StageTyped, InvParts DEF HostOK
  <1>4. TxStatus(epr') = NAK /\ Pending(CTR_RX)' /\ Pending(SETUP)'
    BY <1>2, <1>3, HwSetupFields DEF SendSetup, Pending
  <1>5. UNCHANGED <<todo, g_devAddress, daddr, halted>> /\ daddr.ef
    BY <1>2 DEF SendSetup, pipeVars, AcceptsSetup, Reached
  <1>6. Unserved'
    BY <1>1, <1>4, <1>5 DEF Unserved, AtEnd, Ends, Nothing
  <1>7. /\ host'.phase = FirstPhase(r) /\ host'.req = r /\ rx' = r /\ host'.addr = host.addr
        /\ r.kind = "SetAddress" => host.addr = 0
    BY <1>2, <1>3 DEF SendSetup, Hosts, Allowed
  <1>8. host'.phase # "Reset"
    BY <1>7 DEF FirstPhase
  <1>9. QED
    BY <1>4, <1>5, <1>6, <1>7, <1>8 DEF Live, Agreed

LEMMA AgreedHost ==
    ASSUME Calm, Inv, CalmInv, Live, Agreed, HostActs, ~HostReset, ~HostSetup, ~HostAbort
    PROVE  Agreed'
  <1>1. TxLive /\ CalmLive /\ ~halted /\ epr \in Register /\ host \in Hosts
    BY LiveIs, StageTyped, InvParts DEF Live, HostOK
  <1>2. /\ UNCHANGED <<pipe, g_devAddress, todo, daddr, rx>> /\ host'.req = host.req
        /\ ~HostStatusIn => host'.addr = host.addr
    BY HostFrame
  <1>3. ~Unserved \/ HostTimeout => ~Unserved'
    <2>1. CASE HostTimeout
      <3>1. todo = <<>> /\ ~Pending(CTR_RX) /\ epr' = epr
        BY <1>1, <2>1 DEF HostTimeout, Quiet, hwVars
      <3>2. QED
        BY <1>2, <3>1, CallLists DEF Unserved, AtSetup, Begins, Pending
    <2>2. CASE ~Unserved /\ ~HostTimeout
      <3>1. CASE epr' = epr
        BY <1>2, <2>2, <3>1 DEF Unserved, AtEnd, AtSetup, Pending
      <3>2. CASE epr' = HwIn(epr)
        <4>1. (Pending(CTR_RX)' <=> Pending(CTR_RX)) /\ (Pending(SETUP)' <=> Pending(SETUP))
          BY <1>1, <3>2, HwInFields DEF Pending, CTR_RX, SETUP
        <4>2. QED
          BY <1>2, <2>2, <4>1 DEF Unserved, AtEnd, AtSetup
      <3>3. CASE epr' = HwOut(epr)
        <4>1. ~Pending(SETUP)'
          BY <1>1, <3>3, HwOutFields DEF Pending, SETUP
        <4>2. QED
          BY <1>2, <2>2, <4>1 DEF Unserved, AtSetup
      <3>4. QED
        BY <3>1, <3>2, <3>3 DEF HostActs, Transaction, HostIn, HostStatusIn, HostStatusOut, HostInLostAck,
             HostStalled, HostTimeout, hwVars
    <2>3. QED
      BY <2>1, <2>2
  <1>4. CASE Unserved /\ ~HostTimeout
    <2>1. TxStatus(epr) = NAK /\ host.phase \in {"DataIN", "StatusIN"}
      BY <1>1, <1>4, UnservedWaits DEF Agreed, FirstPhase
    <2>2. QED
      BY <2>1, <1>4, StatusDistinct DEF HostActs, Transaction, HostIn, HostStatusIn, HostStatusOut,
         HostInLostAck, HostStalled, InToken
  <1>5. CASE ~Unserved \/ HostTimeout
    <2>1. ~Unserved'
      BY <1>3, <1>5
    <2>2. CASE HostStatusIn
      <3>1. host'.phase = "Idle"
        BY <1>1, <2>2 DEF HostStatusIn, Hosts
      <3>2. ~Assigning
        BY <2>2, StatusDistinct DEF HostStatusIn, InToken, Agreed
      <3>3. host'.addr = host.addr
        BY <1>1, <2>2, <3>2 DEF HostStatusIn, Hosts, Agreed, Assigning
      <3>4. QED
        BY <1>2, <2>1, <3>1, <3>3 DEF Agreed, Assigning
    <2>3. CASE ~HostStatusIn
      <3>1. host'.phase # "StatusIN"
        <4>1. CASE HostIn \/ HostInLostAck
          BY <1>1, <4>1 DEF HostIn, HostInLostAck, Received, Hosts
        <4>2. CASE HostStatusOut \/ HostStalled \/ HostTimeout
          BY <1>1, <4>2 DEF HostStatusOut, HostStalled, HostTimeout, Hosts
        <4>3. QED
          BY <2>3, <4>1, <4>2 DEF HostActs, Transaction
      <3>2. QED
        BY <1>2, <2>1, <2>3, <3>1 DEF Agreed, Assigning
    <2>4. QED
      BY <2>2, <2>3
  <1>6. QED
    BY <1>4, <1>5

LEMMA ToldHost ==
    ASSUME Calm, Inv, CalmInv, Live, Told, HostActs, ~HostReset
    PROVE  Confirmed'
  <1>1. ~halted /\ epr \in Register /\ host \in Hosts /\ ~istrReset /\ daddr.ef
    BY LiveIs, StageTyped, InvParts DEF Live, HostOK
  <1>2. TxStatus(epr) \in {NAK, VALID} /\ (todo = Nothing => TxStatus(epr) = VALID)
        /\ (todo # Nothing => TxStatus(epr) = NAK)
    BY PointOps DEF Told, Nothing
  <1>3. HostStatusIn
    <2>1. ~HostSetup /\ ~HostAbort
      BY <1>1, CalmSetup DEF HostSetup, Free, Told, Assigning
    <2>2. ~HostStalled
      BY <1>2, StatusDistinct DEF HostStalled, Told, Assigning
    <2>3. ~HostTimeout
      BY <1>1, <1>2 DEF HostTimeout, Quiet, InToken, Reached, Told, Assigning, Nothing
    <2>4. QED
      BY <2>1, <2>2, <2>3 DEF HostActs, Transaction, HostIn, HostInLostAck, HostStatusOut, Told, Assigning
  <1>4. host'.phase = "Idle" /\ host'.addr = host.req.addr /\ epr' = HwIn(epr)
    BY <1>1, <1>3 DEF HostStatusIn, Hosts, Told, Assigning
  <1>5. UNCHANGED <<g_devAddress, daddr, todo>>
    BY HostFrame
  <1>6. todo = Nothing
    BY <1>2, <1>3, StatusDistinct DEF HostStatusIn, InToken
  <1>7. ~Pending(CTR_RX)' /\ Pending(CTR_TX)'
    BY <1>1, <1>4, HwInFields DEF Told, NoEvent, Pending, CTR_RX
  <1>8. QED
    BY <1>4, <1>5, <1>6, <1>7 DEF Confirmed, Told, Assigning

LEMMA AddressHost ==
    ASSUME Calm, MaxResets <= 1, Inv, CalmInv, AddressInv, HostActs
    PROVE  AddressInv'
  <1>1. budget.resets \in 0 .. MaxResets /\ MaxResets \in Nat /\ epr \in Register /\ host \in Hosts
    BY InvParts, StageTyped, BusAssumption DEF HostOK
  <1>2. CASE HostReset
    <2>1. budget.resets = 0
      BY <1>1, <1>2 DEF HostReset
    <2>2. Cold /\ ~halted /\ g_devAddress = 0 /\ daddr.add = 0 /\ host.addr = 0
      BY <2>1 DEF AddressInv
    <2>3. budget'.resets > 0
      BY <1>1, <1>2, InvParts DEF HostReset, HostOK
    <2>4. /\ UNCHANGED <<todo, halted, g_devAddress>> /\ host'.phase = "Reset" /\ host'.addr = 0
          /\ daddr'.add = 0 /\ epr' = HwReset(epr)
      BY <1>1, <1>2 DEF HostReset, pipeVars, Hosts
    <2>5. NoEvent'
      BY <2>2, <2>4 DEF Cold, HwReset, NoEvent, Pending, CTR_RX, CTR_TX
    <2>6. QED
      BY <2>2, <2>3, <2>4, <2>5 DEF AddressInv, Resetting, Cold
  <1>3. CASE ~HostReset
    <2>1. budget'.resets = budget.resets /\ halted' = halted
      BY <1>3, HostFrame
    <2>2. budget.resets > 0
      <3>1. ~Cold
        BY <1>3 DEF Cold, HostActs, HostSetup, HostAbort, SendSetup, AcceptsSetup, Transaction, HostIn,
             HostStatusIn, HostStatusOut, HostInLostAck, HostStalled, HostTimeout, Free, Reached
      <3>2. QED
        BY <3>1 DEF AddressInv
    <2>3. CASE Resetting
      <3>1. HostSetup
        BY <1>3, <2>3, HostFrame DEF Resetting
      <3>2. Live' /\ Agreed'
        BY <2>3, <3>1, SetupHost DEF Resetting
      <3>3. QED
        BY <2>1, <2>2, <3>2 DEF AddressInv
    <2>4. CASE Stopped
      BY <1>3, <2>1, <2>2, <2>4, StoppedHost DEF AddressInv, Stopped
    <2>5. CASE Live /\ Agreed
      <3>1. CASE HostSetup \/ HostAbort
        <4>1. Live' /\ Agreed'
          BY <2>5, <3>1, SetupHost DEF Live, Agreed
        <4>2. QED
          BY <2>1, <2>2, <4>1 DEF AddressInv
      <3>2. CASE ~HostSetup /\ ~HostAbort
        <4>1. Agreed' /\ Live'
          BY <1>3, <2>5, <3>2, AgreedHost, HostFrame DEF Live
        <4>2. QED
          BY <2>1, <2>2, <4>1 DEF AddressInv
      <3>3. QED
        BY <3>1, <3>2
    <2>6. CASE Live /\ Told
      <3>1. Confirmed' /\ Live'
        BY <1>3, <2>6, ToldHost, HostFrame DEF Live
      <3>2. QED
        BY <2>1, <2>2, <3>1 DEF AddressInv
    <2>7. ~(Live /\ Confirmed)
      <3>1. SUFFICES ASSUME Live, Confirmed PROVE FALSE
        OBVIOUS
      <3>2. ~halted /\ host.phase = "Idle" /\ ~Quiet
        <4>1. Applies => todo # <<>>
          BY DEF Applies
        <4>2. QED
          BY <3>1, <4>1 DEF Quiet, Live, Confirmed
      <3>3. ~HostSetup /\ ~HostAbort
        BY <3>2, CalmSetup DEF HostSetup, Calm
      <3>4. QED
        BY <1>3, <3>2, <3>3 DEF HostActs, Transaction, HostIn, HostStatusIn, HostStatusOut, HostInLostAck,
           HostStalled, HostTimeout, Free
    <2>8. QED
      BY <2>2, <2>3, <2>4, <2>5, <2>6, <2>7 DEF AddressInv, Stopped
  <1>4. QED
    BY <1>2, <1>3

LEMMA AddressFirmware ==
    ASSUME Inv, Inv', CalmInv, AddressInv, Firmware, UNCHANGED <<host, budget>>
    PROVE  AddressInv'
  <1>1. ~halted
    BY DEF Firmware, RegRead, RegWrite, WritePMA, InComplete, OutComplete, SetupComplete, DispatchIn,
           DispatchSetup, DispatchOut, DispatchReset, ApplyAddress, ResetMembers, EnableFunction, Running, Ready
  <1>2. ~Cold
    BY DEF Cold, Nothing, Firmware, RegRead, RegWrite, WritePMA, InComplete, OutComplete, SetupComplete,
           DispatchIn, DispatchSetup, DispatchOut, DispatchReset, ApplyAddress, ResetMembers, EnableFunction,
           Running, Pending, CTR_RX, CTR_TX
  <1>3. budget'.resets > 0 /\ budget.resets > 0
    BY <1>2 DEF AddressInv
  <1>4. CASE Resetting
    BY <1>3, <1>4, ResettingStep DEF AddressInv
  <1>5. CASE Live /\ Agreed
    BY <1>3, <1>5, AgreedStep DEF AddressInv
  <1>6. CASE Live /\ Told
    BY <1>3, <1>6, ToldStep DEF AddressInv
  <1>7. CASE Live /\ Confirmed
    BY <1>3, <1>7, ConfirmedStep DEF AddressInv
  <1>8. QED
    BY <1>1, <1>2, <1>4, <1>5, <1>6, <1>7 DEF AddressInv

LEMMA AddressInvInit == Init => AddressInv
  BY DEF Init, PipeInit, NoTransfer, AddressInv, Cold, stage, Nothing

LEMMA AddressInvNext ==
    ASSUME Calm, MaxResets <= 1, Inv, Inv', CalmInv, AddressInv, [Next]_vars
    PROVE  AddressInv'
  <1>1. CASE Firmware /\ UNCHANGED <<host, budget>>
    BY <1>1, AddressFirmware
  <1>2. CASE HostActs
    BY <1>2, AddressHost
  <1>3. CASE UNCHANGED vars
    <2>1. UNCHANGED <<pipe, g_devAddress, todo, latched, halted, epr, daddr, istrReset, rx, host, budget>>
      BY <1>3 DEF vars, pipeVars, hwVars
    <2>2. (Cold' <=> Cold) /\ (Live' <=> Live) /\ (Resetting' <=> Resetting)
      BY <2>1, PointsSame DEF Cold, Live, Resetting, NoEvent, Pending
    <2>3. (Unserved' <=> Unserved) /\ (NoEvent' <=> NoEvent) /\ (Applies' <=> Applies)
          /\ (Assigning' <=> Assigning)
      BY <2>1, PointsSame DEF Unserved, NoEvent, Pending, Applies, Assigning
    <2>4. (Agreed' <=> Agreed) /\ (Told' <=> Told) /\ (Confirmed' <=> Confirmed)
      BY <2>1, <2>3, PointsSame DEF Agreed, Told, Confirmed, Pending
    <2>5. QED
      BY <2>1, <2>2, <2>4 DEF AddressInv
  <1>4. QED
    BY <1>1, <1>2, <1>3 DEF Next, HostActs

(* Between its first reset and the next, the device is at the address of the
   host, but for the time from the status stage of a SET_ADDRESS to the end of
   the handler of that stage, when it still answers to 0. *)
THEOREM AddressInvHolds ==
    ASSUME BackToBack = FALSE, MaxAborts = 0, MaxResets <= 1
    PROVE  Spec => []AddressInv
  <1>1. Calm /\ MaxResets <= 1
    BY DEF Calm
  <1>2. Inv /\ Inv' /\ CalmInv /\ AddressInv /\ [Next]_vars => AddressInv'
    BY <1>1, AddressInvNext
  <1>3. QED
    BY <1>2, CalmInvHolds, InvInit, InvNext, AddressInvInit, PTL DEF Spec

(* The address the device answers to is the one the host gave it, as long as no
   bus reset comes on top of a SET_ADDRESS: ResetMembers does not forget
   g_devAddress, so that the hypothesis on the resets is needed. *)
THEOREM AddressAgrees ==
    ASSUME BackToBack = FALSE, MaxAborts = 0, MaxResets <= 1
    PROVE  Spec => []AddressAgreement
  <1>1. AddressInv => AddressAgreement
    BY DEF AddressInv, Resetting, Agreed, Told, Confirmed, AddressAgreement
  <1>2. QED
    BY <1>1, AddressInvHolds, PTL

-----------------------------------------------------------------------------
(* Whole transfers: ServedInv.                                             *)

(* Remainders by the packet size. *)
LEMMA WholePackets ==
    ASSUME NEW a \in Nat, a % MaxPacket = 0
    PROVE  /\ (a + MaxPacket) % MaxPacket = 0
           /\ \A n \in 1 .. MaxPacket : (a + n) % MaxPacket = 0 <=> n = MaxPacket
  <1>1. MaxPacket \in {8, 16, 32, 64}
    BY PipeAssumption
  <1>2. CASE MaxPacket = 8
    BY <1>2
  <1>3. CASE MaxPacket = 16
    BY <1>3
  <1>4. CASE MaxPacket = 32
    BY <1>4
  <1>5. CASE MaxPacket = 64
    BY <1>5
  <1>6. QED
    BY <1>1, <1>2, <1>3, <1>4, <1>5

(* What GoToStage loads and where it leaves the members of the pipe. *)
LEMMA Loads ==
    ASSUME NEW p \in Pipes, NEW s \in {"DataIN", "DataINLast", "StatusIN"}, NEW pkt \in Packet, NEW rest \in Ends,
           GoToStage(p, s, <<Load(pkt)>>, rest)
    PROVE  /\ AtLoad' /\ Sending' /\ stage' = s /\ Head(todo').pkt = pkt
           /\ pipe'.m_remainLen = p.m_remainLen /\ pipe'.m_len = p.m_len /\ pipe'.m_data = p.m_data
  <1>1. Load(pkt) \in Op /\ Load(pkt).op = "WritePMA" /\ Load(pkt).pkt = pkt /\ s \in TransferStage
    BY DEF Load, Op, TransferStage
  <1>2. RxLeft(s, rest) \in Seq(Op)
    BY <1>1, StageLists
  <1>3. todo' = Then(Load(pkt), RxLeft(s, rest)) /\ stage' = s
    BY <1>1, GoToStageList
  <1>4. todo' # Nothing /\ Head(todo') = Load(pkt) /\ Tail(todo') = RxLeft(s, rest)
    BY <1>1, <1>2, <1>3, ThenIs, NothingTyped
  <1>5. AtLoad' /\ Sending'
    BY <1>1, <1>3, <1>4 DEF AtLoad, Sending
  <1>6. QED
    BY <1>1, <1>3, <1>4, <1>5, GoToStageList

(* OnInTransferComplite sends the piece that follows, when it is called with all
   that was sent in whole packets: the next full packet, the rest, or the
   zero-length packet after a rest that filled its packet. *)
LEMMA PieceFollows ==
    ASSUME NEW p \in Pipes, NEW rest \in Ends, NEW sent \in Nat, p.m_transferState = "DataIN",
           RestOK(p), ~Ignored, p.m_len = Want, sent + p.m_remainLen = Want, sent % MaxPacket = 0,
           p.m_remainLen > 0 => p.m_data = [src |-> Source, off |-> sent],
           OnInTransferComplite(p, rest), UNCHANGED host
    PROVE  AtLoad' /\ Sending' /\ stage' # "StatusIN" /\ Data(sent, Head(todo).pkt)'
  <1> DEFINE n == p.m_remainLen
  <1>0. /\ n \in Nat /\ MaxPacket \in Nat /\ MaxPacket > 0 /\ Want' = Want /\ Source' = Source /\ ~Ignored'
        /\ \A k \in Nat : Piece(p, k) \in Packet
    <2>1. n \in Nat /\ MaxPacket \in Nat /\ MaxPacket > 0
      BY MaxPacketEven DEF Pipes, uint16_t
    <2>2. Want' = Want /\ Source' = Source /\ ~Ignored'
      BY DEF Want, Source, Ignored
    <2>3. p.m_data.src \in Sources /\ p.m_data.off \in Nat
      BY DEF Pipes
    <2>4. \A k \in Nat : Piece(p, k) \in Packet
      BY <2>3 DEF Piece, Packet
    <2>5. QED
      BY <2>1, <2>2, <2>4
  <1>1. ASSUME NEW q \in Pipes, NEW s \in {"DataIN", "DataINLast"}, NEW pkt \in Packet,
               GoToStage(q, s, <<Load(pkt)>>, rest),
               q.m_len = Want, sent + pkt.len + q.m_remainLen = Want,
               q.m_remainLen > 0 => q.m_data = [src |-> Source, off |-> sent + pkt.len],
               pkt.len > 0 => pkt.src = Source /\ pkt.off = sent,
               IF s = "DataIN" THEN pkt.len = MaxPacket ELSE pkt.len < MaxPacket /\ q.m_remainLen = 0
        PROVE  AtLoad' /\ Sending' /\ stage' # "StatusIN" /\ Data(sent, Head(todo).pkt)'
    <2>1. /\ AtLoad' /\ Sending' /\ stage' = s /\ Head(todo').pkt = pkt
          /\ pipe'.m_remainLen = q.m_remainLen /\ pipe'.m_len = q.m_len /\ pipe'.m_data = q.m_data
      BY <1>1, Loads
    <2>2. Rest(sent + pkt.len)'
      BY <1>0, <1>1, <2>1 DEF Rest
    <2>3. Data(sent, pkt)'
      BY <1>0, <1>1, <2>1, <2>2 DEF Data
    <2>4. QED
      BY <1>1, <2>1, <2>3
  <1>2. CASE n > MaxPacket /\ GoToStage(Advance(p), "DataIN", <<Load(Piece(p, MaxPacket))>>, rest)
    <2>1. Advance(p) \in Pipes
      BY <1>2, AdvanceGood
    <2>2. /\ Advance(p).m_remainLen = n - MaxPacket /\ Advance(p).m_len = p.m_len
          /\ p.m_data = [src |-> Source, off |-> sent] => Advance(p).m_data = [src |-> Source, off |-> sent + MaxPacket]
      BY <1>0 DEF Advance, Pipes
    <2>3. Piece(p, MaxPacket).len = MaxPacket /\ Piece(p, MaxPacket).src = Source /\ Piece(p, MaxPacket).off = sent
      BY <1>0, <1>2 DEF Piece
    <2>4. QED
      BY <1>0, <1>1, <1>2, <2>1, <2>2, <2>3
  <1>3. CASE /\ n \in 1 .. MaxPacket
             /\ GoToStage([p EXCEPT !.m_remainLen = 0],
                          IF p.m_len % MaxPacket # 0 THEN "DataINLast" ELSE "DataIN", <<Load(Piece(p, n))>>, rest)
    <2> DEFINE q == [p EXCEPT !.m_remainLen = 0]
               s == IF p.m_len % MaxPacket # 0 THEN "DataINLast" ELSE "DataIN"
    <2>1. q \in Pipes /\ q.m_remainLen = 0 /\ q.m_len = p.m_len
      BY DEF Pipes, uint16_t
    <2>2. Piece(p, n).len = n /\ Piece(p, n).src = Source /\ Piece(p, n).off = sent
      BY <1>0, <1>3 DEF Piece
    <2>3. p.m_len % MaxPacket = 0 <=> n = MaxPacket
      BY <1>0, <1>3, WholePackets
    <2>4. IF s = "DataIN" THEN n = MaxPacket ELSE n < MaxPacket
      <3>1. CASE n = MaxPacket
        BY <2>3, <3>1
      <3>2. CASE n # MaxPacket
        <4>1. s = "DataINLast"
          BY <2>3, <3>2
        <4>2. n \in 1 .. MaxPacket
          BY <1>3
        <4>3. n < MaxPacket
          BY <1>0, <3>2, <4>2
        <4>4. QED
          BY <4>1, <4>3
      <3>3. QED
        BY <3>1, <3>2
    <2>5. s \in {"DataIN", "DataINLast"}
      OBVIOUS
    <2>6. GoToStage(q, s, <<Load(Piece(p, n))>>, rest) /\ Piece(p, n) \in Packet
      BY <1>0, <1>3
    <2> HIDE DEF q, s
    <2>7. sent + Piece(p, n).len + q.m_remainLen = Want /\ q.m_len = Want
      BY <1>0, <2>1, <2>2
    <2>8. Piece(p, n).len > 0 => Piece(p, n).src = Source /\ Piece(p, n).off = sent
      BY <2>2
    <2>9. IF s = "DataIN" THEN Piece(p, n).len = MaxPacket ELSE Piece(p, n).len < MaxPacket /\ q.m_remainLen = 0
      BY <2>1, <2>2, <2>4
    <2>10. ~(q.m_remainLen > 0)
      BY <2>1
    <2> DEFINE pkt == Piece(p, n)
    <2> HIDE DEF n, pkt
    <2>11. QED
      BY <1>1, <2>1, <2>5, <2>6, <2>7, <2>8, <2>9, <2>10 DEF pkt
  <1>4. CASE n = 0 /\ GoToStage(p, "DataINLast", <<Load(ZLP)>>, rest)
    <2>1. ZLP \in Packet /\ ZLP.len = 0
      BY ZLPGood DEF ZLP
    <2>2. sent + ZLP.len + p.m_remainLen = Want
      BY <1>0, <1>4, <2>1
    <2>3. ~(p.m_remainLen > 0) /\ ~(ZLP.len > 0) /\ ZLP.len < MaxPacket /\ p.m_remainLen = 0
      BY <1>0, <1>4, <2>1
    <2> HIDE DEF n
    <2>4. QED
      BY <1>1, <1>4, <2>1, <2>2, <2>3
  <1>5. QED
    BY <1>2, <1>3, <1>4 DEF OnInTransferComplite

(* The packet of a stage is the next piece. *)
LEMMA DataIsNext ==
    ASSUME Inv, Data(host.got, tx), stage \in {"DataIN", "DataINLast"}
    PROVE  IsNextPiece
  <1>1. MaxPacket \in Nat /\ tx.len \in Nat /\ host.got \in Nat /\ pipe.m_remainLen \in Nat
    BY InvParts, MaxPacketEven DEF HostOK, HwOK, PipeOK, Pipes, Hosts, Packet, uint16_t
  <1>2. Want - host.got = tx.len + pipe.m_remainLen
    BY <1>1 DEF Data, Rest
  <1>3. tx.len = Smaller(MaxPacket, Want - host.got)
    BY <1>1, <1>2 DEF Data, Smaller
  <1>4. QED
    BY <1>3 DEF Data, IsNextPiece, Source

(* What a write does to the register when nothing changed since the read. *)
LEMMA KindWritten ==
    ASSUME NEW o \in AccessorOp, NEW r \in Register, NEW now \in Register
    PROVE  /\ o.op = "SetStatusOut" => KIND \subseteq After(o, r, now)
           /\ o.op = "ClearStatusOut" => ~(KIND \subseteq After(o, r, now))
  <1>1. /\ o.op = "SetStatusOut" => Written(o, r) = SetStatusOut(r)
        /\ o.op = "ClearStatusOut" => Written(o, r) = ClearStatusOut(r)
    BY WrittenValue
  <1>2. KIND \subseteq HwWrite(now, SetStatusOut(r))
    BY StatusBits DEF HwWrite, SetStatusOut, CTRs, USB_EPREG_MASK, KIND
  <1>3. ~(KIND \subseteq HwWrite(now, ClearStatusOut(r)))
    BY StatusBits DEF HwWrite, ClearStatusOut, CTRs, USB_EPREG_MASK, USB_EPKIND_MASK, KIND, CTR_RX, CTR_TX, SETUP,
       T_FIELD, EA, Toggles, DTOG_RX, DTOG_TX, EPTX_STAT, EPRX_STAT, Xor
  <1>4. QED
    BY <1>1, <1>2, <1>3 DEF After

LEMMA SameWritten ==
    ASSUME Inv, InHandler, RegWrite, LatchSame
    PROVE  /\ Head(todo).op # "SetRxStatus" => RxStatus(epr') = RxStatus(epr)
           /\ Head(todo).op # "SetTxStatus" => TxStatus(epr') = TxStatus(epr)
           /\ epr' \cap DTOG_TX = epr \cap DTOG_TX /\ (DTOG_RX \subseteq epr => DTOG_RX \subseteq epr')
           /\ Head(todo).op \notin {"SetStatusOut", "ClearStatusOut"} => (Pending(KIND)' <=> Pending(KIND))
           /\ Head(todo).op = "SetStatusOut" => Pending(KIND)'
           /\ Head(todo).op = "ClearStatusOut" => ~Pending(KIND)'
           /\ Head(todo).op \notin {"ClearTxCTR", "ClearRxCTR"} => (Pending(CTR_RX)' <=> Pending(CTR_RX))
           /\ AtTx => TxStatus(epr') = StageRegisters[stage][2]
  <1> DEFINE o == Head(todo)
  <1>1. PICK r \in Register : latched = {r} /\ epr' = After(o, r, epr)
    BY HandlerWrites
  <1>2. o \in AccessorOp /\ todo # <<>> /\ epr \in Register
    BY HandlerWrites, StageTyped DEF Advanced
  <1>3. o.op \notin {"SetType", "ClearTxDTOG", "ClearRxDTOG"}
    BY <1>2, HandlerOps
  <1>4. TxStatus(r) = TxStatus(epr) /\ r \cap KIND = epr \cap KIND
    BY <1>1 DEF LatchSame
  <1>5. /\ o.op # "SetRxStatus" => RxStatus(epr') = RxStatus(epr)
        /\ o.op # "SetTxStatus" => TxStatus(epr') = TxStatus(epr)
        /\ o.op \notin {"ClearTxCTR", "ClearRxCTR"} => (Pending(CTR_RX)' <=> Pending(CTR_RX))
    BY <1>1, <1>2, <1>3, AccessorCalm
  <1>6. /\ epr' \cap DTOG_TX = epr \cap DTOG_TX /\ epr' \cap DTOG_RX = epr \cap DTOG_RX
        /\ o.op \notin {"SetStatusOut", "ClearStatusOut"} => epr' \cap KIND = r \cap KIND
    BY <1>1, <1>2, <1>3, AccessorFrame
  <1>7. /\ o.op = "SetStatusOut" => Pending(KIND)'
        /\ o.op = "ClearStatusOut" => ~Pending(KIND)'
    BY <1>1, <1>2, KindWritten DEF Pending
  <1>8. AtTx => TxStatus(epr') = StageRegisters[stage][2]
    <2> DEFINE s == StageRegisters[stage][2]
    <2>1. SUFFICES ASSUME AtTx PROVE TxStatus(epr') = s
      OBVIOUS
    <2>2. o = SetTx(s) /\ s \in Status
      BY <2>1, StageTyped, StageStatus, PointTails
    <2>3. TxStatus(epr') = Xor(Xor(TxStatus(epr), s), TxStatus(epr))
      BY <1>1, <1>2, <1>4, <2>2, StatusToggled
    <2>4. QED
      BY <2>3, ToggledFrom
  <1>9. QED
    BY <1>4, <1>5, <1>6, <1>7, <1>8 DEF Pending, KIND, DTOG_RX

LEMMA RxWritten ==
    ASSUME Inv, CalmLive, InHandler, RegWrite, AtRx
    PROVE  RxStatus(epr') = StageRegisters[stage][1]
  <1> DEFINE s == StageRegisters[stage][1]
  <1>1. PICK r \in Register : latched = {r} /\ epr' = After(Head(todo), r, epr)
    BY HandlerWrites
  <1>2. Head(todo) = SetRx(s) /\ s \in Status /\ epr \in Register
    BY StageTyped, StageStatus, PointTails
  <1>3. RxStatus(r) = RxStatus(epr)
    <2>1. ~AtEnd /\ ~AtTx /\ ~AtKind /\ ~AtLoad /\ ~AtUnkind /\ NoList /\ todo \notin {InCall, SetupCall, OutCall}
      BY PointOps, NotAtList, CallLists DEF Elsewhere, Begins
    <2>2. QED
      BY <1>1, <2>1 DEF CalmLive, NoList
  <1>4. RxStatus(epr') = Xor(Xor(RxStatus(epr), s), RxStatus(epr))
    BY <1>1, <1>2, <1>3, StatusToggled
  <1>5. QED
    BY <1>4, ToggledFrom

LEMMA LatchFirmware ==
    ASSUME Inv, InHandler, Firmware
    PROVE  LatchSame'
  <1>1. LatchOK
    BY InvParts
  <1>2. CASE RegRead
    <2>1. latched' = {epr} /\ epr' = epr
      BY <1>2, HandlerReads DEF hwVars
    <2>2. QED
      BY <2>1 DEF LatchSame
  <1>3. CASE RegWrite
    BY <1>3, HandlerWrites DEF LatchSame
  <1>4. CASE ~RegRead /\ ~RegWrite
    <2>1. latched' = latched
      BY <1>4 DEF Firmware, WritePMA, InComplete, OutComplete, SetupComplete, DispatchIn, DispatchSetup,
           DispatchOut, DispatchReset, ApplyAddress, ResetMembers, EnableFunction
    <2>2. latched = {}
      <3>1. todo = <<>> \/ Head(todo).op \in Calls \cup {"WritePMA"}
        BY <1>4 DEF Firmware, WritePMA, InComplete, OutComplete, SetupComplete, DispatchIn, DispatchSetup,
             DispatchOut, DispatchReset, ApplyAddress, ResetMembers, EnableFunction, Running, Ready, Calls
      <3>2. QED
        BY <1>1, <3>1 DEF LatchOK, AccessorOp, PlainAccessors, Calls
    <2>3. QED
      BY <2>1, <2>2 DEF LatchSame
  <1>5. QED
    BY <1>2, <1>3, <1>4

LEMMA LiveStays ==
    ASSUME Inv, InHandler, Live, Firmware, UNCHANGED host, ~halted'
    PROVE  Live'
  BY AddressMoves DEF Live

(* Between handlers, one begins, or the last call of one is made. *)
LEMMA EndSteps ==
    ASSUME Inv, InHandler, ~istrReset, AtEnd, Firmware
    PROVE  /\ UNCHANGED <<pipe, epr, tx, rx, halted>>
           /\ \/ ApplyAddress /\ AtEnd' /\ (Unserved' <=> Unserved)
              \/ AtIn' /\ Pending(CTR_TX) /\ ~Pending(CTR_RX)
              \/ AtSetup' /\ Pending(CTR_RX) /\ Pending(SETUP)
              \/ AtOut' /\ Pending(CTR_RX) /\ ~Pending(SETUP)
  <1>1. ~RegRead /\ ~RegWrite /\ ~AtLoad /\ todo \notin {InCall, SetupCall, OutCall}
    <2>1. ~AtLoad /\ todo \notin {InCall, SetupCall, OutCall} /\ ~RegWrite
      BY PointOps, HandlerWrites, CallLists DEF Begins
    <2>2. todo # <<>> => Head(todo).op = "ApplyAddress"
      BY PointOps
    <2>3. ~RegRead
      BY <2>2 DEF RegRead, AccessorOp, PlainAccessors
    <2>4. QED
      BY <2>1, <2>3
  <1>2. CASE ApplyAddress /\ AtEnd'
    <2>1. UNCHANGED <<pipe, epr, tx, rx, halted>>
      BY <1>2 DEF ApplyAddress
    <2>2. ~AtSetup /\ ~AtSetup'
      BY <1>2, PointOps, CallLists DEF AtSetup, AtEnd, Ends, Begins, Nothing
    <2>3. QED
      BY <1>2, <2>1, <2>2 DEF Unserved, Pending
  <1>3. CASE DispatchIn /\ AtIn'
    BY <1>3 DEF DispatchIn, hwVars
  <1>4. CASE DispatchSetup /\ AtSetup'
    BY <1>4 DEF DispatchSetup, hwVars
  <1>5. CASE DispatchOut /\ AtOut'
    BY <1>5 DEF DispatchOut, hwVars
  <1>6. ~DispatchReset
    BY DEF DispatchReset
  <1>7. QED
    BY <1>1, <1>2, <1>3, <1>4, <1>5, <1>6, HandlerSteps

Situation == Waiting \/ Asked \/ Opening \/ Open \/ Taken \/ Closing \/ Rewinding

LEMMA SituationSame ==
    ASSUME UNCHANGED <<pipe, todo, epr, tx, rx, host>>
    PROVE  (Situation' <=> Situation) /\ (Waiting' <=> Waiting)
  <1>1. (NoEvent' <=> NoEvent) /\ (Unserved' <=> Unserved) /\ (RxSet' <=> RxSet) /\ (Polled' <=> Polled)
        /\ (Ignored' <=> Ignored) /\ Want' = Want /\ Source' = Source
    BY PointsSame DEF NoEvent, Unserved, RxSet, Polled, Pending, Ignored, Want, Source
  <1>2. \A n : Rest(n)' <=> Rest(n)
    BY <1>1 DEF Rest
  <1>3. \A n, pkt : Data(n, pkt)' <=> Data(n, pkt)
    BY <1>2, PointsSame, <1>1 DEF Data
  <1>4. /\ Answers(tx)' <=> Answers(tx)
        /\ Answers(Head(todo).pkt)' <=> Answers(Head(todo).pkt)
    BY <1>3, PointsSame DEF Answers
  <1>5. (Waiting' <=> Waiting) /\ (Asked' <=> Asked)
    BY <1>1, PointsSame DEF Waiting, Asked, Pending
  <1>6. (Opening' <=> Opening) /\ (Open' <=> Open)
    BY <1>1, <1>4, PointsSame DEF Opening, Open, Pending
  <1>7. (Taken' <=> Taken)
    BY <1>1, <1>2, PointsSame DEF Taken, Pending
  <1>8. (Closing' <=> Closing) /\ (Rewinding' <=> Rewinding)
    BY <1>1, PointsSame DEF Closing, Rewinding, Pending
  <1>9. QED
    BY <1>5, <1>6, <1>7, <1>8 DEF Situation

(* Which step the handler takes at each of its points. *)
LEMMA PointSteps ==
    ASSUME Inv, InHandler, Firmware
    PROVE  /\ todo # SetupCall => halted' = halted
           /\ AtLoad => AtRx' /\ tx' = Head(todo).pkt /\ UNCHANGED <<pipe, epr, rx>>
           /\ AtUnkind => RegRead \/ (RegWrite /\ AtRx')
           /\ AtRx => RegRead \/ (RegWrite /\ AtTx')
           /\ AtTx => RegRead \/ (RegWrite /\ IF stage = "StatusOUT" THEN AtKind' ELSE AtEnd')
           /\ AtKind => RegRead \/ (RegWrite /\ AtEnd')
           /\ todo = InList => RegRead \/ (RegWrite /\ todo' = InCall)
           /\ todo = SetupList => RegRead \/ (RegWrite /\ todo' = SetupCall)
           /\ todo = OutList => RegRead \/ (RegWrite /\ todo' = OutCall)
           /\ todo = InCall => InComplete
           /\ todo = SetupCall => SetupComplete
           /\ todo = OutCall => OutComplete
  <1>1. stage \in TransferStage
    BY StageTyped
  <1>2. RegWrite => Advanced
    BY HandlerWrites
  <1>3. todo = <<>> \/ Head(todo).op \in Calls \cup {"WritePMA"} => ~RegRead /\ ~RegWrite
    <2>1. \A o \in AccessorOp : o.op \notin Calls \cup {"WritePMA"}
      BY DEF AccessorOp, PlainAccessors, Calls
    <2>2. RegWrite => todo # <<>> /\ Head(todo) \in AccessorOp
      BY HandlerWrites DEF RegWrite
    <2>3. RegRead => todo # <<>> /\ Head(todo) \in AccessorOp
      BY DEF RegRead
    <2>4. QED
      BY <2>1, <2>2, <2>3
  <1>4. WritePMA => tx' = Head(todo).pkt /\ UNCHANGED <<pipe, epr, rx>>
    BY DEF WritePMA
  <1>5. halted' = halted \/ SetupComplete
    BY DEF Firmware, RegRead, RegWrite, WritePMA, InComplete, OutComplete, DispatchIn, DispatchSetup, DispatchOut,
       DispatchReset, ApplyAddress, ResetMembers, EnableFunction
  <1>6. AtTx /\ Advanced => IF stage = "StatusOUT" THEN AtKind' ELSE AtEnd'
    <2>1. SUFFICES ASSUME AtTx, Advanced PROVE IF stage = "StatusOUT" THEN AtKind' ELSE AtEnd'
      OBVIOUS
    <2>2. stage' = stage
      BY <2>1 DEF Advanced, stage
    <2>3. PICK rest \in Ends : todo' = KindLeft(stage, rest)
      BY <1>1, <2>1, PointTails DEF Advanced
    <2>4. stage # "StatusOUT" => todo' \in Ends
      BY <1>1, <2>3, StageLists
    <2>5. QED
      BY <2>2, <2>3, <2>4 DEF AtKind, AtEnd
  <1>7. /\ AtUnkind /\ Advanced => AtRx'
        /\ AtRx /\ Advanced => AtTx'
        /\ AtKind /\ Advanced => AtEnd'
        /\ todo = InList /\ Advanced => todo' = InCall
        /\ todo = SetupList /\ Advanced => todo' = SetupCall
        /\ todo = OutList /\ Advanced => todo' = OutCall
    BY <1>1, PointAdvances
  <1>8. todo # <<>> /\ ~RegRead /\ ~RegWrite =>
           \/ WritePMA /\ AtLoad /\ AtRx' /\ Head(todo).op = "WritePMA"
           \/ InComplete /\ todo = InCall /\ Head(todo).op = "OnInTransferComplite"
           \/ OutComplete /\ todo = OutCall /\ Head(todo).op = "OnOutTransferComplite"
           \/ SetupComplete /\ todo = SetupCall /\ Head(todo).op = "OnSetupTransferComplite"
           \/ todo = Address /\ Head(todo).op = "ApplyAddress"
    BY HandlerSteps, PointOps
  <1>9. SetupComplete => todo = SetupCall
    BY OpPoints DEF SetupComplete, Running
  <1>10. AtLoad => AtRx' /\ tx' = Head(todo).pkt /\ UNCHANGED <<pipe, epr, rx>>
    BY <1>3, <1>4, <1>8, PointOps
  <1>11. todo \in {InList, SetupList, OutList} \/ AtUnkind \/ AtRx \/ AtTx \/ AtKind
            => RegRead \/ (RegWrite /\ Advanced)
    <2>1. todo \in {InList, SetupList, OutList} \/ AtUnkind \/ AtRx \/ AtTx \/ AtKind => todo # <<>>
      BY PointOps, CallLists DEF Begins
    <2>2. QED
      BY <1>2, <1>8, <2>1, PointOps
  <1>12. /\ todo = InCall => InComplete
         /\ todo = SetupCall => SetupComplete
         /\ todo = OutCall => OutComplete
    <2>1. todo \in {InCall, SetupCall, OutCall} => todo # <<>> /\ ~RegRead /\ ~RegWrite
      BY <1>3, PointOps, CallLists DEF Calls, Begins
    <2>2. QED
      BY <1>8, <2>1, PointOps
  <1>13. QED
    BY <1>5, <1>6, <1>7, <1>9, <1>10, <1>11, <1>12

\* A step of the handler of a device that the host can reach.
LiveStep == Inv /\ Inv' /\ CalmInv /\ Live /\ LatchSame /\ Firmware /\ UNCHANGED host

LEMMA LiveStepIs ==
    LiveStep => TxLive /\ CalmLive /\ InHandler /\ ~istrReset /\ ~halted /\ LatchSame'
  BY LiveIs, LatchFirmware DEF LiveStep, Live

(* A read, and a write of each accessor that changes no status. *)
LEMMA LiveRead ==
    ASSUME LiveStep, RegRead
    PROVE  (Situation' <=> Situation) /\ (Waiting' <=> Waiting)
  <1>1. UNCHANGED <<pipe, todo, epr, tx, rx, host>>
    BY HandlerReads, LiveStepIs DEF LiveStep, hwVars
  <1>2. QED
    BY <1>1, SituationSame

(* What depends on the pipe, the host and the toggles only. *)
LEMMA AnswersSame ==
    ASSUME UNCHANGED <<pipe, host>>,
           epr' \cap DTOG_TX = epr \cap DTOG_TX, DTOG_RX \subseteq epr => DTOG_RX \subseteq epr'
    PROVE  /\ tx' = tx /\ Answers(tx) => Answers(tx)'
           /\ tx' = Head(todo).pkt /\ Answers(Head(todo).pkt) => Answers(tx)'
           /\ (Rest(host.got) => Rest(host.got)') /\ (Ignored' <=> Ignored)
  <1>1. stage' = stage /\ Want' = Want /\ Source' = Source /\ (Ignored' <=> Ignored)
    BY DEF stage, Want, Source, Ignored
  <1>2. \A n : Rest(n)' <=> Rest(n)
    BY <1>1 DEF Rest
  <1>3. \A n, pkt : Data(n, pkt)' <=> Data(n, pkt)
    BY <1>1, <1>2 DEF Data
  <1>4. QED
    BY <1>1, <1>2, <1>3 DEF Answers

(* Each situation is followed by itself or by the next one.  First, a device
   that waits for a SETUP, or that gave up on an unknown request. *)
LEMMA WaitingStep ==
    ASSUME LiveStep, Waiting
    PROVE  Waiting' /\ ~halted'
  <1>1. InHandler /\ ~istrReset /\ ~halted
    BY LiveStepIs
  <1>2. /\ UNCHANGED <<pipe, epr, tx, rx, halted>>
        /\ ApplyAddress /\ AtEnd'
    BY <1>1, EndSteps DEF LiveStep, Waiting, NoEvent
  <1>3. UNCHANGED host
    BY DEF LiveStep
  <1>4. stage' = stage /\ (NoEvent' <=> NoEvent) /\ (Pending(KIND)' <=> Pending(KIND)) /\ (Ignored' <=> Ignored)
    BY <1>2, <1>3 DEF stage, NoEvent, Pending, Ignored
  <1>5. QED
    BY <1>1, <1>2, <1>3, <1>4 DEF Waiting

(* The pipe is given a request: it ignores it, loads the first packet of the
   answer or the empty one of the status stage, or stops. *)
LEMMA RequestStarts ==
    ASSUME Inv, todo = SetupCall, SetupComplete, stage = "Setup", UNCHANGED host,
           rx = host.req, host.phase = FirstPhase(rx), host.got = 0, Answerable(rx)
    PROVE  \/ /\ todo' = Nothing /\ pipe' = pipe /\ halted' = halted
              /\ Ignored /\ host.phase \in {"DataIN", "StatusIN"}
           \/ /\ AtLoad' /\ Sending' /\ halted' = halted
              /\ stage' # "StatusIN" /\ host.phase = "DataIN" /\ Data(0, Head(todo).pkt)'
           \/ /\ AtLoad' /\ Sending' /\ halted' = halted
              /\ stage' = "StatusIN" /\ host.phase = "StatusIN" /\ Head(todo').pkt = ZLP /\ ~Ignored
           \/ halted' /\ rx.kind = "Unsupported" /\ ~DebuggerAttached
  <1> DEFINE Goal == \/ /\ todo' = Nothing /\ pipe' = pipe /\ halted' = halted
                        /\ Ignored /\ host.phase \in {"DataIN", "StatusIN"}
                     \/ /\ AtLoad' /\ Sending' /\ halted' = halted
                        /\ stage' # "StatusIN" /\ host.phase = "DataIN" /\ Data(0, Head(todo).pkt)'
                     \/ /\ AtLoad' /\ Sending' /\ halted' = halted
                        /\ stage' = "StatusIN" /\ host.phase = "StatusIN" /\ Head(todo').pkt = ZLP /\ ~Ignored
                     \/ halted' /\ rx.kind = "Unsupported" /\ ~DebuggerAttached
  <1>1. OnDeviceRequest(rx) /\ Tail(todo) = Nothing
    BY PointTails, StageTyped DEF SetupComplete, stage
  <1>2. rx \in Request
    BY InvParts, PipeAssumption DEF HostOK, Hosts
  <1>3. ASSUME Ignore, Ignored, halted' = halted, host.phase \in {"DataIN", "StatusIN"}
        PROVE  Goal
    BY <1>1, <1>3 DEF Ignore
  <1>4. ASSUME NEW src \in Sources, NEW len \in uint16_t, SendData(src, len), halted' = halted,
               src # Wild => len <= SourceSize(src),
               src = Source, len = Want, ~Ignored, FirstPhase(rx) = "DataIN"
        PROVE  Goal
    <2> DEFINE p == [m_transferState |-> "DataIN", m_data |-> [src |-> src, off |-> 0],
                     m_len |-> len, m_remainLen |-> len]
    <2>1. p \in Pipes
      BY <1>4 DEF Pipes, TransferStage, uint16_t
    <2>2. RestOK(p)
      BY <1>4 DEF RestOK, SourceSize, uint16_t
    <2>3. OnInTransferComplite(p, Nothing) /\ Nothing \in Ends
      BY <1>1, <1>4 DEF SendData, Ends
    <2>4. /\ p.m_transferState = "DataIN" /\ p.m_len = len /\ p.m_remainLen = len
          /\ p.m_data = [src |-> src, off |-> 0]
      OBVIOUS
    <2> HIDE DEF p
    <2>5. 0 + p.m_remainLen = Want /\ 0 % MaxPacket = 0
      <3>1. len \in Nat /\ MaxPacket \in {8, 16, 32, 64}
        BY PipeAssumption DEF uint16_t
      <3>2. 0 % MaxPacket = 0
        BY <3>1
      <3>3. QED
        BY <1>4, <2>4, <3>1, <3>2
    <2>6. AtLoad' /\ Sending' /\ stage' # "StatusIN" /\ Data(0, Head(todo).pkt)'
      BY <1>4, <2>1, <2>2, <2>3, <2>4, <2>5, PieceFollows
    <2>7. QED
      BY <1>4, <2>6
  <1>5. CASE rx.kind = "SetAddress"
    <2>1. GoToStage(pipe, "StatusIN", <<Load(ZLP)>>, Nothing) /\ halted' = halted
      BY <1>1, <1>5 DEF OnDeviceRequest
    <2>2. AtLoad' /\ Sending' /\ stage' = "StatusIN" /\ Head(todo').pkt = ZLP
      BY <2>1, Loads, ZLPGood, StageTyped DEF Ends
    <2>3. host.phase = "StatusIN" /\ ~Ignored
      BY <1>5 DEF FirstPhase, Ignored
    <2>4. QED
      BY <2>1, <2>2, <2>3
  <1>6. CASE rx.kind = "GetStatus"
    <2>1. SendData(Stack, 2) /\ halted' = halted
      BY <1>1, <1>6 DEF OnDeviceRequest
    <2>2. Stack \in Sources /\ 2 \in uint16_t /\ SourceSize(Stack) = 2
      BY PipeAssumption DEF Sources, SourceSize, uint16_t
    <2>3. Want = 2 /\ Source = Stack /\ ~Ignored /\ FirstPhase(rx) = "DataIN"
      BY <1>2, <1>6 DEF Want, Source, Ignored, FirstPhase, Answerable, Smaller, Request, uint16_t
    <2>4. QED
      BY <1>4, <2>1, <2>2, <2>3
  <1>7. CASE rx.kind = "Unsupported"
    BY <1>1, <1>3, <1>7 DEF OnDeviceRequest, Breakpoint, Ignored, FirstPhase
  <1>8. CASE rx.kind = "GetDescriptor"
    <2>1. GetDescriptor(rx) /\ halted' = halted /\ rx.wLength \in uint16_t
      BY <1>1, <1>2, <1>8 DEF OnDeviceRequest, Request
    <2>2. PICK d \in Lookup(rx.desc) : IF d.len # 0 /\ rx.wLength # 0
                                       THEN SendData(d.src, Smaller(d.len, rx.wLength))
                                       ELSE Ignore
      BY <2>1 DEF GetDescriptor
    <2>3. CASE rx.desc \in DOMAIN DescSize /\ rx.wLength # 0
      <3>1. d.src = rx.desc /\ d.len = DescSize[rx.desc] /\ d.len \in uint16_t /\ d.len > 0
        BY <2>2, <2>3, PipeAssumption DEF Lookup, uint16_t
      <3>2. SendData(rx.desc, Smaller(d.len, rx.wLength))
        BY <2>2, <2>3, <3>1 DEF uint16_t
      <3>3. Smaller(d.len, rx.wLength) \in uint16_t /\ Smaller(d.len, rx.wLength) = Want
            /\ Smaller(d.len, rx.wLength) <= SourceSize(rx.desc)
        BY <1>8, <2>1, <2>3, <3>1 DEF Smaller, uint16_t, Want, SourceSize
      <3>4. rx.desc \in Sources /\ Source = rx.desc /\ ~Ignored /\ FirstPhase(rx) = "DataIN"
        BY <1>8, <2>1, <2>3 DEF Sources, Source, Ignored, FirstPhase, uint16_t
      <3>5. QED
        BY <1>4, <2>1, <3>2, <3>3, <3>4
    <2>4. CASE rx.desc \notin DOMAIN DescSize \/ rx.wLength = 0
      <3>1. Ignored /\ host.phase \in {"DataIN", "StatusIN"}
        BY <1>8, <2>4 DEF Ignored, FirstPhase
      <3>2. rx.desc \in DOMAIN DescSize \/ rx.desc = Unknown
        BY <1>2, <1>8 DEF Answerable, Request
      <3>3. Ignore
        BY <2>2, <2>4, <3>2 DEF Lookup
      <3>4. QED
        BY <1>3, <2>1, <3>1, <3>3
    <2>5. QED
      BY <2>3, <2>4
  <1>9. QED
    BY <1>2, <1>5, <1>6, <1>7, <1>8 DEF Request

LEMMA RequestServed ==
    ASSUME LiveStep, Asked, todo = SetupCall, \A r \in Requests : Servable(r)
    PROVE  (Waiting \/ Opening)' /\ ~halted'
  <1>1. TxLive /\ CalmLive /\ InHandler /\ ~istrReset /\ ~halted /\ Inv
    BY LiveStepIs DEF LiveStep
  <1>2. SetupComplete /\ UNCHANGED <<epr, tx, rx, host>>
    BY <1>1, PointSteps DEF SetupComplete, hwVars, LiveStep
  <1>3. rx = host.req /\ Servable(rx)
    BY <1>1, InvParts DEF Asked, HostOK, Hosts
  <1>4. NoEvent'
    BY <1>1, <1>2, CalmAt DEF NoEvent, Pending
  <1>5. /\ ~Pending(KIND)' /\ TxStatus(epr') = NAK /\ RxStatus(epr') = NAK /\ DTOG_RX \subseteq epr'
        /\ host'.tog = epr' \cap DTOG_TX /\ host'.got = 0 /\ host'.phase = host.phase /\ (Ignored' <=> Ignored)
    BY <1>2 DEF Asked, Pending, Ignored
  <1>6. CASE /\ todo' = Nothing /\ pipe' = pipe /\ halted' = halted
             /\ Ignored /\ host.phase \in {"DataIN", "StatusIN"}
    BY <1>1, <1>4, <1>5, <1>6 DEF Waiting, AtEnd, Ends, stage, Asked
  <1>7. CASE /\ AtLoad' /\ Sending' /\ halted' = halted
             /\ stage' # "StatusIN" /\ host.phase = "DataIN" /\ Data(0, Head(todo).pkt)'
    BY <1>1, <1>4, <1>5, <1>7 DEF Opening, Answers
  <1>8. CASE /\ AtLoad' /\ Sending' /\ halted' = halted
             /\ stage' = "StatusIN" /\ host.phase = "StatusIN" /\ Head(todo').pkt = ZLP
    BY <1>1, <1>4, <1>5, <1>8 DEF Opening, Answers
  <1>9. rx.kind = "Unsupported" => DebuggerAttached
    BY <1>3 DEF Servable
  <1>10. stage = "Setup" /\ host.phase = FirstPhase(rx) /\ host.got = 0 /\ Answerable(rx)
    BY <1>3 DEF Asked, Servable, Answerable
  <1>11. QED
    BY <1>1, <1>2, <1>3, <1>6, <1>7, <1>8, <1>9, <1>10, RequestStarts

LEMMA AskedStep ==
    ASSUME LiveStep, Asked, \A r \in Requests : Servable(r)
    PROVE  Situation' /\ ~halted'
  <1>1. TxLive /\ CalmLive /\ InHandler /\ ~istrReset /\ ~halted /\ Inv /\ Firmware /\ UNCHANGED host
    BY LiveStepIs DEF LiveStep
  <1>2. CASE UNCHANGED <<pipe, epr, rx>> /\ Unserved' /\ ~halted'
    BY <1>1, <1>2 DEF Asked, Situation, Pending, stage
  <1>3. CASE ~AtSetup
    <2>1. AtEnd /\ Pending(CTR_RX) /\ Pending(SETUP)
      BY <1>3 DEF Asked, Unserved
    <2>2. QED
      BY <1>1, <1>2, <2>1, EndSteps DEF Asked, Unserved, Pending
  <1>4. CASE todo = SetupList /\ RegRead
    <2>1. SetupList # SetupCall
      BY PointOps, CallLists, <1>1 DEF Begins
    <2>2. QED
      BY <1>1, <1>4, <2>1, PointSteps, LiveRead DEF Situation
  <1>5. CASE todo = SetupList /\ RegWrite
    <2>1. todo' = SetupCall /\ Head(todo).op = "ClearRxCTR" /\ SetupList # SetupCall
      BY <1>1, <1>5, PointSteps, PointOps, HandlerReads, CallLists, HandlerWrites DEF Begins, Advanced
    <2>2. AtSetup' /\ Unserved'
      BY <2>1 DEF AtSetup, Unserved
    <2>3. pipe' = pipe /\ rx' = rx /\ ~halted'
      BY <1>1, <1>5, <2>1, HandlerWrites, PointSteps DEF Advanced
    <2>4. LatchSame
      BY DEF LiveStep
    <2>5. /\ RxStatus(epr') = RxStatus(epr) /\ TxStatus(epr') = TxStatus(epr)
          /\ epr' \cap DTOG_TX = epr \cap DTOG_TX /\ (DTOG_RX \subseteq epr => DTOG_RX \subseteq epr')
          /\ (Pending(KIND)' <=> Pending(KIND))
      BY <1>1, <1>5, <2>1, <2>4, SameWritten
    <2>6. DTOG_TX \cup DTOG_RX \subseteq epr'
      BY <2>5 DEF Asked, DTOG_TX, DTOG_RX
    <2>7. QED
      BY <1>1, <2>2, <2>3, <2>5, <2>6 DEF Asked, Situation, stage
  <1>6. CASE todo = SetupCall
    BY <1>6, RequestServed DEF Situation
  <1>7. QED
    BY <1>1, <1>3, <1>4, <1>5, <1>6, PointSteps DEF AtSetup

(* The first packet of a stage is written and the endpoint opened. *)
LEMMA OpeningStep ==
    ASSUME LiveStep, Opening
    PROVE  Situation' /\ ~halted'
  <1>1. TxLive /\ CalmLive /\ InHandler /\ ~istrReset /\ ~halted /\ Inv /\ Firmware /\ UNCHANGED host /\ LatchSame
    BY LiveStepIs DEF LiveStep
  <1>2. ~halted' /\ NoEvent'
    <2>1. todo # SetupCall
      BY <1>1, PointOps, CallLists DEF Opening, Begins
    <2>2. QED
      BY <1>1, <2>1, PointSteps, EventsFall DEF Opening, NoEvent
  <1>3. CASE RegRead
    BY <1>1, <1>2, <1>3, LiveRead DEF Situation
  <1>4. CASE AtLoad
    <2>1. AtRx' /\ tx' = Head(todo).pkt /\ UNCHANGED <<pipe, epr>>
      BY <1>1, <1>4, PointSteps
    <2>2. Answers(Head(todo).pkt)
      BY <1>1, <1>4, PointOps DEF Opening
    <2>3. Answers(tx)'
      BY <1>1, <2>1, <2>2, AnswersSame
    <2>4. QED
      BY <1>2, <2>1, <2>3 DEF Opening, Situation, Pending, Sending, stage
  <1>5. CASE RegWrite /\ ~AtLoad
    <2>1. /\ AtRx \/ AtTx
          /\ Answers(tx) /\ stage \in {"DataIN", "DataINLast", "StatusIN"}
      BY <1>5 DEF Opening, Sending
    <2>2. UNCHANGED <<pipe, tx>> /\ stage' = stage
      BY <1>1, <1>5, HandlerWrites DEF Advanced, stage
    <2>3. Head(todo).op \in {"SetRxStatus", "SetTxStatus"}
      BY <1>1, <2>1, PointOps
    <2>4. /\ epr' \cap DTOG_TX = epr \cap DTOG_TX /\ (DTOG_RX \subseteq epr => DTOG_RX \subseteq epr')
          /\ ~Pending(KIND)'
      BY <1>1, <1>5, <2>3, SameWritten DEF Opening
    <2>5. Answers(tx)' /\ Sending'
      BY <1>1, <2>1, <2>2, <2>4, AnswersSame DEF Sending
    <2>6. CASE AtRx
      <3>1. AtTx' /\ RxStatus(epr') = StageRegisters[stage][1] /\ TxStatus(epr') = NAK
        BY <1>1, <1>5, <2>6, PointSteps, PointOps, RxWritten, SameWritten, HandlerReads, PointAdvances, StageTyped,
           HandlerWrites DEF Opening
      <3>2. QED
        BY <1>2, <2>2, <2>4, <2>5, <3>1 DEF Opening, Situation, RxSet
    <2>7. CASE AtTx /\ ~AtRx
      <3>1. AtEnd'
        BY <1>1, <1>5, <2>1, <2>7, PointSteps, HandlerWrites, PointAdvances, StageTyped DEF AtKind, Advanced, stage
      <3>2. TxStatus(epr') = VALID
        BY <1>1, <1>5, <2>1, <2>7, SameWritten, StageStatus, StageTyped
      <3>3. RxStatus(epr') = StageRegisters[stage][1]
        BY <1>1, <1>5, <2>7, PointOps, SameWritten DEF Opening, RxSet
      <3>4. QED
        BY <1>2, <2>2, <2>4, <2>5, <3>1, <3>2, <3>3 DEF Open, Situation, RxSet
    <2>8. QED
      BY <2>1, <2>6, <2>7
  <1>6. QED
    BY <1>1, <1>3, <1>4, <1>5, PointSteps DEF Opening

LEMMA OpenStep ==
    ASSUME LiveStep, Open
    PROVE  Situation' /\ ~halted'
  <1>1. InHandler /\ ~istrReset /\ ~halted /\ Inv /\ Firmware /\ UNCHANGED host
    BY LiveStepIs DEF LiveStep
  <1>2. UNCHANGED <<pipe, epr, tx, halted>> /\ AtEnd'
    BY <1>1, EndSteps DEF Open, NoEvent
  <1>3. Answers(tx)'
    BY <1>1, <1>2, AnswersSame DEF Open
  <1>4. QED
    BY <1>1, <1>2, <1>3 DEF Open, Situation, Pending, Sending, stage, NoEvent, RxSet

(* The host has taken a packet: the handler puts in the next one, or ends. *)
LEMMA InCallServed ==
    ASSUME LiveStep, Taken, todo = InCall
    PROVE  Situation' /\ ~halted'
  <1>1. TxLive /\ CalmLive /\ InHandler /\ ~istrReset /\ ~halted /\ Inv /\ Firmware /\ UNCHANGED host
    BY LiveStepIs DEF LiveStep
  <1>2. InComplete /\ UNCHANGED <<halted, epr>>
    BY <1>1, PointSteps DEF InComplete, hwVars
  <1>3. OnInTransferComplite(pipe, Address) /\ Address \in Ends /\ pipe \in Pipes /\ RestOK(pipe)
    BY <1>1, <1>2, PointTails, StageTyped, InvParts DEF InComplete, Ends, PipeOK
  <1>4. NoEvent' /\ ~Pending(KIND)' /\ TxStatus(epr') = NAK /\ ~halted'
    BY <1>1, <1>2, CalmAt DEF NoEvent, Pending, Taken
  <1>5. CASE stage = "StatusIN"
    <2>1. GoToStage(pipe, "Setup", <<>>, Address) /\ host'.phase = "Idle"
      BY <1>1, <1>3, <1>5 DEF OnInTransferComplite, stage, Taken
    <2>2. todo' = RxLeft("Setup", Address) /\ stage' = "Setup"
      BY <1>3, <2>1, GoToStageList DEF TransferStage
    <2>3. QED
      BY <1>3, <1>4, <2>1, <2>2 DEF Rewinding, AtRx, Situation
  <1>6. CASE stage = "DataINLast"
    <2>1. pipe.m_remainLen = 0 /\ host'.phase = "StatusOUT" /\ DTOG_RX \subseteq epr' /\ RxStatus(epr') = NAK
      BY <1>1, <1>2, <1>6 DEF Taken, RxSet, StageRegisters
    <2>2. GoToStage(pipe, "StatusOUT", <<>>, Address)
      BY <1>3, <1>6, <2>1, MaxPacketEven DEF OnInTransferComplite, stage
    <2>3. todo' = RxLeft("StatusOUT", Address) /\ stage' = "StatusOUT"
      BY <1>3, <2>2, GoToStageList DEF TransferStage
    <2>4. QED
      BY <1>3, <1>4, <2>1, <2>3 DEF Closing, AtRx, Situation
  <1>7. CASE stage = "DataIN"
    <2>1. /\ Rest(host.got) /\ host.got % MaxPacket = 0 /\ DTOG_RX \subseteq epr
          /\ host.phase = "DataIN" /\ host.tog = epr \cap DTOG_TX
      BY <1>7 DEF Taken
    <2>2. host.got \in Nat
      BY <1>1, InvParts DEF HostOK, Hosts
    <2>3. AtLoad' /\ Sending' /\ stage' # "StatusIN" /\ Data(host.got, Head(todo).pkt)'
      <3>1. pipe.m_transferState = "DataIN"
        BY <1>7 DEF stage
      <3>2. \A g \in Nat : g = host.got => AtLoad' /\ Sending' /\ stage' # "StatusIN" /\ Data(g, Head(todo).pkt)'
        BY <1>1, <1>3, <2>1, <3>1, PieceFollows DEF Rest
      <3>3. host'.got = host.got
        BY <1>1
      <3>4. QED
        BY <2>2, <3>2, <3>3 DEF Data, Rest
    <2>4. Answers(Head(todo).pkt)'
      BY <1>1, <1>2, <2>1, <2>3 DEF Answers
    <2>5. QED
      BY <1>4, <2>3, <2>4 DEF Opening, Situation
  <1>8. QED
    BY <1>5, <1>6, <1>7 DEF Taken, Sending

LEMMA TakenStep ==
    ASSUME LiveStep, Taken
    PROVE  Situation' /\ ~halted'
  <1>1. /\ TxLive /\ CalmLive /\ InHandler /\ ~istrReset /\ ~halted /\ Inv /\ Firmware /\ UNCHANGED host /\ LatchSame
        /\ InList # SetupCall /\ InList # InCall
    BY LiveStepIs, CallLists DEF LiveStep, Begins, Do
  <1>2. CASE UNCHANGED <<pipe, epr>> /\ ((AtEnd' /\ Pending(CTR_TX)) \/ AtIn') /\ ~halted'
    <2>1. DTOG_RX \subseteq epr => DTOG_RX \subseteq epr'
      BY <1>2
    <2>2. Rest(host.got) => Rest(host.got)'
      BY <1>1, <1>2, <2>1, AnswersSame
    <2>3. QED
      BY <1>1, <1>2, <2>2 DEF Taken, Situation, Pending, Sending, stage, RxSet
  <1>3. CASE ~AtIn
    <2>1. AtEnd /\ Pending(CTR_TX) /\ ~Pending(CTR_RX)
      BY <1>3 DEF Taken
    <2>2. QED
      BY <1>1, <1>2, <2>1, EndSteps
  <1>4. CASE todo = InList /\ RegRead
    BY <1>1, <1>4, PointSteps, LiveRead DEF Situation
  <1>5. CASE todo = InList /\ RegWrite
    <2>1. todo' = InCall /\ Head(todo).op = "ClearTxCTR" /\ AtIn'
      BY <1>1, <1>5, PointOps, HandlerWrites, PointAdvances, StageTyped DEF AtIn
    <2>2. pipe' = pipe /\ ~halted' /\ stage' = stage /\ (Sending' <=> Sending)
      BY <1>1, <1>5, HandlerWrites, PointSteps DEF Advanced, stage, Sending
    <2>3. /\ RxStatus(epr') = RxStatus(epr) /\ TxStatus(epr') = TxStatus(epr)
          /\ epr' \cap DTOG_TX = epr \cap DTOG_TX /\ (DTOG_RX \subseteq epr => DTOG_RX \subseteq epr')
          /\ (Pending(KIND)' <=> Pending(KIND))
      BY <1>1, <1>5, <2>1, SameWritten
    <2>4. ~Pending(CTR_RX)' /\ (Rest(host.got) => Rest(host.got)')
      BY <1>1, <2>2, <2>3, EventsFall, AnswersSame DEF Taken
    <2>5. QED
      BY <1>1, <2>1, <2>2, <2>3, <2>4 DEF Taken, Situation, RxSet
  <1>6. CASE todo = InCall
    BY <1>6, InCallServed
  <1>7. QED
    BY <1>1, <1>3, <1>4, <1>5, <1>6, PointSteps DEF AtIn

(* The status stage of a transfer to the host. *)
LEMMA ClosingStep ==
    ASSUME LiveStep, Closing
    PROVE  Situation' /\ ~halted'
  <1>1. TxLive /\ CalmLive /\ InHandler /\ ~istrReset /\ ~halted /\ Inv /\ Firmware /\ UNCHANGED host /\ LatchSame
    BY LiveStepIs DEF LiveStep
  <1>2. ~halted'
    <2>1. todo # SetupCall
      BY <1>1, PointOps, CallLists DEF Closing, Begins, AtOut
    <2>2. QED
      BY <1>1, <2>1, PointSteps
  <1>3. CASE RegRead
    BY <1>1, <1>2, <1>3, LiveRead DEF Situation
  <1>4. CASE RegWrite /\ (AtRx \/ AtTx \/ AtKind)
    <2>1. /\ pipe' = pipe /\ stage' = stage /\ stage = "StatusOUT"
          /\ Head(todo).op \in {"SetRxStatus", "SetTxStatus", "SetStatusOut"}
      BY <1>1, <1>4, HandlerWrites, PointOps DEF Advanced, stage, Closing
    <2>2. /\ DTOG_RX \subseteq epr => DTOG_RX \subseteq epr'
          /\ Pending(CTR_RX)' <=> Pending(CTR_RX)
          /\ Pending(SETUP)' <=> Pending(SETUP)
          /\ NoEvent => NoEvent'
          /\ Head(todo).op # "SetRxStatus" => RxStatus(epr') = RxStatus(epr)
          /\ Head(todo).op # "SetTxStatus" => TxStatus(epr') = TxStatus(epr)
          /\ Head(todo).op # "SetStatusOut" => (Pending(KIND)' <=> Pending(KIND))
      BY <1>1, <1>4, <2>1, SameWritten, EventsFall DEF NoEvent
    <2>3. Head(todo).op # "SetRxStatus" /\ Polled => Polled'
      BY <1>1, <2>2 DEF Polled
    <2>4. CASE AtRx
      <3>1. AtTx' /\ RxStatus(epr') = VALID
        BY <1>1, <1>4, <2>1, <2>4, RxWritten, HandlerWrites, PointAdvances, StageTyped DEF StageRegisters
      <3>2. Head(todo).op = "SetRxStatus" /\ ~AtTx /\ ~AtKind /\ ~AtEnd /\ ~AtOut
        BY <1>1, <2>4, PointOps, CallLists DEF Begins, AtOut
      <3>3. QED
        BY <1>1, <1>2, <2>1, <2>2, <3>1, <3>2 DEF Closing, Situation, Polled
    <2>5. CASE AtTx
      <3>1. Head(todo).op = "SetTxStatus" /\ ~AtRx /\ ~AtKind /\ ~AtEnd /\ ~AtOut
        BY <1>1, <2>5, PointOps, CallLists DEF Begins, AtOut
      <3>2. ~RegRead
        BY <1>4 DEF RegRead, RegWrite
      <3>3. AtKind'
        BY <1>1, <2>1, <2>5, <3>2, PointSteps
      <3>4. TxStatus(epr') = STALL
        BY <1>1, <1>4, <2>1, <2>5, SameWritten DEF StageRegisters
      <3>5. QED
        BY <1>2, <2>1, <2>2, <2>3, <3>1, <3>3, <3>4 DEF Closing, Situation
    <2>6. CASE AtKind
      <3>1. Head(todo).op = "SetStatusOut" /\ ~AtRx /\ ~AtTx /\ ~AtEnd /\ ~AtOut
        BY <1>1, <2>6, PointOps, CallLists DEF Begins, AtOut
      <3>2. AtEnd' /\ Pending(KIND)'
        BY <1>1, <1>4, <2>6, <3>1, SameWritten, HandlerWrites, PointAdvances, StageTyped
      <3>3. QED
        BY <1>2, <2>1, <2>2, <2>3, <3>1, <3>2 DEF Closing, Situation
    <2>7. QED
      BY <1>4, <2>4, <2>5, <2>6
  <1>5. CASE AtEnd
    <2>1. Polled /\ Pending(KIND) /\ TxStatus(epr) = STALL /\ stage = "StatusOUT"
      BY <1>1, <1>5, PointOps, CallLists DEF Closing, AtOut, Begins
    <2>2. /\ UNCHANGED <<pipe, epr>>
          /\ AtEnd' \/ (AtOut' /\ host.phase = "Idle" /\ RxStatus(epr) = NAK)
      BY <1>1, <1>5, <2>1, EndSteps DEF Polled, NoEvent
    <2>3. QED
      BY <1>1, <1>2, <2>1, <2>2 DEF Closing, Situation, Polled, NoEvent, Pending, stage
  <1>6. CASE todo = OutList /\ RegWrite
    <2>1. /\ todo' = OutCall /\ AtOut' /\ Head(todo).op = "ClearRxCTR" /\ pipe' = pipe /\ stage' = stage
          /\ ~AtEnd /\ ~AtRx /\ ~AtTx /\ ~AtKind
      BY <1>1, <1>6, PointOps, HandlerWrites, PointAdvances, StageTyped DEF AtOut, Advanced, stage
    <2>2. /\ RxStatus(epr') = RxStatus(epr) /\ TxStatus(epr') = TxStatus(epr)
          /\ (Pending(KIND)' <=> Pending(KIND))
      BY <1>1, <1>6, <2>1, SameWritten
    <2>3. QED
      BY <1>1, <1>2, <2>1, <2>2 DEF Closing, Situation
  <1>7. CASE todo = OutCall
    <2>1. OutComplete /\ ~AtEnd /\ ~AtRx /\ ~AtTx /\ ~AtKind
      BY <1>1, <1>7, PointSteps, PointOps, CallLists DEF Begins
    <2>2. AtUnkind' /\ epr' = epr
      BY <1>1, <1>7, <2>1, OutCompletePoints DEF Closing, hwVars
    <2>3. NoEvent' /\ host'.phase = "Idle" /\ stage' = "Setup"
      BY <1>1, <1>7, <2>1, <2>2, CalmAt DEF Closing, NoEvent, Pending, AtUnkind
    <2>4. QED
      BY <1>2, <2>2, <2>3 DEF Rewinding, Situation
  <1>8. QED
    BY <1>1, <1>3, <1>4, <1>5, <1>6, <1>7, PointSteps DEF Closing, AtOut

LEMMA RewindingStep ==
    ASSUME LiveStep, Rewinding
    PROVE  Situation' /\ ~halted'
  <1>1. TxLive /\ CalmLive /\ InHandler /\ ~istrReset /\ ~halted /\ Inv /\ Firmware /\ UNCHANGED host /\ LatchSame
    BY LiveStepIs DEF LiveStep
  <1>2. ~halted' /\ NoEvent' /\ host'.phase = "Idle"
    <2>1. todo # SetupCall
      BY <1>1, PointOps, CallLists DEF Rewinding, Begins
    <2>2. QED
      BY <1>1, <2>1, PointSteps, EventsFall DEF Rewinding, NoEvent
  <1>3. CASE RegRead
    BY <1>1, <1>2, <1>3, LiveRead DEF Situation
  <1>4. CASE RegWrite
    <2>1. stage' = stage /\ stage = "Setup" /\ Advanced
      BY <1>1, <1>4, HandlerWrites DEF Advanced, stage, Rewinding
    <2>2. CASE AtUnkind
      <3>1. AtRx' /\ ~Pending(KIND)'
        BY <1>1, <1>4, <2>1, <2>2, PointOps, SameWritten, PointAdvances, StageTyped
      <3>2. QED
        BY <1>2, <2>1, <3>1 DEF Rewinding, Situation
    <2>3. CASE AtRx
      <3>1. Head(todo).op = "SetRxStatus" /\ ~AtUnkind /\ ~AtTx
        BY <1>1, <2>3, PointOps
      <3>2. AtTx' /\ ~Pending(KIND)' /\ RxStatus(epr') = VALID
        BY <1>1, <1>4, <2>1, <2>3, <3>1, RxWritten, SameWritten, PointAdvances, StageTyped
           DEF Rewinding, StageRegisters
      <3>3. QED
        BY <1>2, <2>1, <3>2 DEF Rewinding, Situation
    <2>4. CASE AtTx
      <3>1. Head(todo).op = "SetTxStatus" /\ ~AtUnkind /\ ~AtRx
        BY <1>1, <2>4, PointOps
      <3>2. AtEnd'
        BY <1>1, <1>4, <2>1, <2>4, PointAdvances, StageTyped DEF AtKind
      <3>3. ~Pending(KIND)' /\ TxStatus(epr') = NAK /\ RxStatus(epr') = VALID
        BY <1>1, <1>4, <2>1, <2>4, <3>1, SameWritten DEF Rewinding, StageRegisters
      <3>4. QED
        BY <1>2, <2>1, <3>2, <3>3 DEF Waiting, Situation
    <2>5. QED
      BY <2>2, <2>3, <2>4 DEF Rewinding
  <1>5. QED
    BY <1>1, <1>3, <1>4, PointSteps DEF Rewinding

\* What the host is assumed to do in these theorems: besides Calm, it resets the
\* bus once, to begin with, no handshake of it is lost, and it asks only for
\* what the pipe can serve.
Serving == Calm /\ MaxResets <= 1 /\ MaxLost = 0 /\ \A r \in Requests : Servable(r)

\* A step of the host on a device it can reach.
LiveHost == Inv /\ CalmInv /\ AddressInv /\ Live /\ LatchSame /\ Situation /\ HostActs

(* Between handlers, the device waits in the stage Setup, with a packet to send,
   or for the packet of the status stage. *)
LEMMA QuietSituations ==
    ASSUME Inv, Situation, todo = <<>>, NoEvent
    PROVE  Waiting \/ Open \/ (Closing /\ AtEnd /\ host.phase = "StatusOUT" /\ RxStatus(epr) = VALID
                                 /\ Pending(KIND) /\ TxStatus(epr) = STALL /\ Polled)
  <1>1. AtEnd /\ ~AtIn /\ ~AtSetup /\ ~AtOut /\ ~AtLoad /\ ~AtUnkind /\ ~AtRx /\ ~AtTx /\ ~AtKind
    BY PointOps
  <1>2. ~Asked /\ ~Opening /\ ~Taken /\ ~Rewinding
    BY <1>1 DEF Asked, Unserved, Opening, Taken, Rewinding, NoEvent
  <1>3. Closing => Polled /\ Pending(KIND) /\ TxStatus(epr) = STALL
    BY <1>1 DEF Closing
  <1>4. QED
    BY <1>1, <1>2, <1>3 DEF Situation, Polled, NoEvent

(* The host cannot be reset again, nor abort or lose anything. *)
LEMMA ServingHost ==
    ASSUME Serving, LiveHost
    PROVE  ~HostReset /\ ~HostAbort /\ ~HostInLostAck
  <1>1. budget.resets > 0
    BY DEF LiveHost, AddressInv, Cold, Live
  <1>2. budget.resets \in Nat /\ budget.aborts \in Nat /\ budget.lost \in Nat /\ {MaxResets, MaxAborts, MaxLost} \subseteq Nat
    BY BusAssumption DEF LiveHost, Inv, TypeOK
  <1>3. QED
    BY <1>1, <1>2 DEF Serving, Calm, HostReset, HostAbort, HostInLostAck

(* The SETUP of the next transfer. *)
LEMMA SetupAsked ==
    ASSUME Inv, todo = Nothing, stage = "Setup", ~Pending(KIND), ~halted, HostSetup
    PROVE  Asked' /\ Live' /\ LatchSame' /\ ~halted'
  <1>1. PICK r \in Requests : SendSetup(r)
    BY DEF HostSetup
  <1>2. /\ UNCHANGED <<pipe, todo, latched, halted, daddr>> /\ daddr.ef /\ epr' = HwSetup(epr) /\ rx' = r
        /\ host'.phase = FirstPhase(r) /\ host'.req = r /\ host'.got = 0 /\ host'.tog = DTOG_TX
    BY <1>1, InvParts DEF SendSetup, AcceptsSetup, Reached, HostOK, Hosts, pipeVars
  <1>3. /\ TxStatus(epr') = NAK /\ RxStatus(epr') = NAK
        /\ CTR_RX \cup SETUP \cup DTOG_RX \cup DTOG_TX \subseteq epr' /\ epr' \cap KIND = epr \cap KIND
    BY <1>2, StageTyped, HwSetupFields
  <1>4. latched = {}
    BY InvParts DEF LatchOK, Nothing
  <1>5. AtEnd' /\ stage' = "Setup"
    BY <1>2 DEF AtEnd, Ends, stage
  <1>6. Pending(CTR_RX)' /\ Pending(SETUP)' /\ ~Pending(KIND)' /\ DTOG_TX \cup DTOG_RX \subseteq epr'
    BY <1>3 DEF Pending, KIND
  <1>7. host'.phase \in {"DataIN", "StatusIN"}
    BY <1>2 DEF FirstPhase
  <1>8. QED
    BY <1>2, <1>3, <1>4, <1>5, <1>6, <1>7 DEF Asked, Unserved, Live, LatchSame

(* What the host has after it took the packet of a stage. *)
LEMMA PacketArrives ==
    ASSUME Inv, stage \in {"DataIN", "DataINLast"}, Data(host.got, tx), UNCHANGED pipe, host' = Received
    PROVE  /\ host'.tog = DTOG_TX \ host.tog /\ host'.req = host.req
           /\ host'.got = host.got + tx.len
           /\ host'.phase = IF stage = "DataINLast" \/ host'.got >= host.req.wLength THEN "StatusOUT" ELSE "DataIN"
           /\ stage = "DataIN" => Whole' /\ host'.got >= MaxPacket
  <1>1. /\ MaxPacket \in Nat /\ tx.len \in Nat /\ host.got \in Nat /\ pipe.m_remainLen \in Nat
        /\ host.req.wLength \in Nat
    BY InvParts, PipeAssumption, MaxPacketEven DEF HostOK, HwOK, PipeOK, Pipes, Hosts, Packet, uint16_t, Request
  <1>2. /\ host'.got = host.got + tx.len /\ host'.tog = DTOG_TX \ host.tog /\ host'.req = host.req
        /\ host'.phase = IF tx.len < MaxPacket \/ host'.got >= host.req.wLength THEN "StatusOUT" ELSE "DataIN"
    BY InvParts DEF Received, HostOK, Hosts
  <1>3. stage = "DataINLast" <=> tx.len < MaxPacket
    BY <1>1 DEF Data
  <1>4. ASSUME stage = "DataIN" PROVE Whole' /\ host'.got >= MaxPacket
    <2>1. tx.len = MaxPacket /\ Rest(host.got + tx.len) /\ host.got % MaxPacket = 0
      BY <1>4 DEF Data
    <2>2. (host.got + MaxPacket) % MaxPacket = 0 /\ host.got + MaxPacket >= MaxPacket
      <3>1. (host.got + MaxPacket) % MaxPacket = 0
        BY <1>1, <2>1, WholePackets
      <3>2. host.got + MaxPacket >= MaxPacket
        BY <1>1
      <3>3. QED
        BY <3>1, <3>2
    <2>3. Want' = Want /\ Source' = Source /\ (Ignored' <=> Ignored) /\ stage' = "DataIN"
      BY <1>2, <1>4 DEF Want, Source, Ignored, stage
    <2>4. Rest(host.got)'
      BY <1>2, <2>1, <2>3 DEF Rest
    <2>5. QED
      BY <1>2, <2>1, <2>2, <2>3, <2>4 DEF Whole
  <1>5. QED
    BY <1>2, <1>3, <1>4

(* A host that got whole packets only, of an answer it can have, asks for more. *)
LEMMA MoreAsked ==
    ASSUME Serving, Inv, NEW sum \in Nat, Rest(sum), sum % MaxPacket = 0, sum >= MaxPacket
    PROVE  sum < host.req.wLength
  <1> DEFINE n == pipe.m_remainLen
  <1>1. /\ MaxPacket \in {8, 16, 32, 64} /\ n \in Nat
        /\ host.req \in Requests /\ host.req \in Request /\ host.req.wLength \in Nat
    BY InvParts, PipeAssumption DEF HostOK, PipeOK, Pipes, Hosts, uint16_t, Request
  <1>2. ~Ignored /\ sum + n = Want
    BY DEF Rest
  <1>3. CASE host.req.kind = "GetDescriptor"
    <2> DEFINE size == DescSize[host.req.desc]
    <2>1. host.req.desc \in DOMAIN DescSize /\ host.req.wLength > 0 /\ size \in Nat
      BY <1>1, <1>2, <1>3, PipeAssumption DEF Ignored, uint16_t
    <2>2. Want = Smaller(host.req.wLength, size)
      BY <1>3 DEF Want
    <2>3. Want % MaxPacket # 0 \/ Want < host.req.wLength
      BY <1>1, <1>3, <2>1, <2>2 DEF Serving, Servable
    <2>4. Want <= host.req.wLength /\ Want \in Nat
      BY <1>1, <2>1, <2>2 DEF Smaller
    <2> HIDE DEF size, n
    <2>5. CASE sum = Want
      <3>1. Want < host.req.wLength
        BY <2>3, <2>5
      <3>2. QED
        BY <2>5, <3>1
    <2>6. CASE sum # Want
      BY <1>1, <1>2, <2>4, <2>6
    <2>7. QED
      BY <2>5, <2>6
  <1>4. CASE host.req.kind # "GetDescriptor"
    <2>1. Want <= 2 /\ Want \in Nat
      BY <1>1, <1>4 DEF Want, Smaller
    <2>2. QED
      BY <1>1, <1>2, <2>1
  <1>5. QED
    BY <1>3, <1>4

(* The host takes the packet of the stage. *)
LEMMA PacketTaken ==
    ASSUME Serving, LiveHost, HostIn \/ HostStatusIn
    PROVE  Taken' /\ LatchSame'
  <1>1. Inv /\ TxStatus(epr) = VALID /\ host.phase \in {"DataIN", "StatusIN"} /\ UNCHANGED <<pipe, todo, latched, tx>>
        /\ epr' = HwIn(epr)
    BY DEF LiveHost, HostIn, HostStatusIn, InToken, pipeVars
  <1>2. Open
    <2>1. ~Waiting /\ ~Asked /\ ~Opening /\ ~Taken
      BY <1>1, StatusDistinct DEF Waiting, Asked, Opening, Taken
    <2>2. ~Closing /\ ~Rewinding
      BY <1>1 DEF Closing, Rewinding, Polled
    <2>3. QED
      BY <2>1, <2>2 DEF LiveHost, Situation
  <1>3. latched = {}
    <2>1. todo = <<>> \/ Head(todo).op = "ApplyAddress"
      BY <1>1, <1>2, PointOps DEF Open
    <2>2. \A o \in AccessorOp : o.op # "ApplyAddress"
      BY DEF AccessorOp, PlainAccessors
    <2>3. QED
      BY <1>1, <2>1, <2>2, InvParts DEF LatchOK
  <1>4. /\ TxStatus(epr') = NAK /\ RxStatus(epr') = RxStatus(epr) /\ Pending(CTR_TX)' /\ ~Pending(CTR_RX)'
        /\ epr' \cap DTOG_TX = DTOG_TX \ epr /\ (DTOG_RX \subseteq epr => DTOG_RX \subseteq epr') /\ ~Pending(KIND)'
    <2>1. /\ TxStatus(epr') = NAK /\ RxStatus(epr') = RxStatus(epr)
          /\ CTR_TX \subseteq epr' /\ epr' \cap CTR_RX = epr \cap CTR_RX
          /\ epr' \cap DTOG_TX = DTOG_TX \ epr /\ epr' \cap DTOG_RX = epr \cap DTOG_RX
          /\ epr' \cap KIND = epr \cap KIND
      BY <1>1, StageTyped, HwInFields
    <2>2. ~Pending(CTR_RX) /\ ~Pending(KIND)
      BY <1>2 DEF Open, NoEvent
    <2>3. QED
      BY <2>1, <2>2 DEF Pending, CTR_RX, KIND, DTOG_RX
  <1>5. AtEnd' /\ stage' = stage /\ Sending' /\ RxSet' /\ LatchSame'
    BY <1>1, <1>2, <1>3, <1>4, PointsSame DEF Open, RxSet, LatchSame
  <1>6. CASE HostStatusIn
    <2>1. stage = "StatusIN" /\ host'.phase = "Idle"
      BY <1>1, <1>2, <1>6, InvParts DEF Open, Answers, HostStatusIn, HostOK, Hosts
    <2>2. QED
      BY <1>4, <1>5, <2>1 DEF Taken
  <1>7. CASE HostIn
    <2>1. /\ stage \in {"DataIN", "DataINLast"} /\ host.phase = "DataIN" /\ DTOG_RX \subseteq epr
          /\ host.tog = epr \cap DTOG_TX /\ Data(host.got, tx)
      BY <1>2, <1>7 DEF Open, Answers, HostIn, Sending
    <2>2. host' = Received /\ UNCHANGED pipe
      BY <1>1, <1>7, <2>1 DEF HostIn, Accepts
    <2>3. /\ host'.tog = epr' \cap DTOG_TX /\ host'.req = host.req
          /\ host'.phase = IF stage = "DataINLast" \/ host'.got >= host.req.wLength THEN "StatusOUT" ELSE "DataIN"
          /\ stage = "DataIN" => Whole' /\ host'.got >= MaxPacket
      BY <1>1, <1>4, <2>1, <2>2, PacketArrives
    <2>4. CASE stage = "DataINLast"
      <3>1. pipe'.m_remainLen = 0
        BY <1>1, <2>1, <2>4 DEF Data
      <3>2. QED
        BY <1>4, <1>5, <2>1, <2>3, <2>4, <3>1 DEF Taken
    <2>5. CASE stage = "DataIN"
      <3>1. Whole' /\ host'.got >= MaxPacket
        BY <2>3, <2>5
      <3>2. host'.got < host'.req.wLength
        <4> DEFINE sum == host.got + tx.len
        <4>1. Rest(sum) /\ sum = host'.got
          BY <1>1, <2>1, <2>2, PacketArrives DEF Data
        <4>2. sum % MaxPacket = 0 /\ sum >= MaxPacket /\ sum \in Nat
          <5>1. host.got \in Nat /\ tx.len \in Nat
            BY <1>1, InvParts DEF HostOK, HwOK, Hosts, Packet
          <5>2. QED
            BY <3>1, <4>1, <5>1 DEF Whole
        <4> HIDE DEF sum
        <4>3. sum < host.req.wLength
          BY <1>1, <4>1, <4>2, MoreAsked
        <4>4. QED
          BY <2>3, <4>1, <4>3
      <3>3. host'.phase = "DataIN"
        <4>1. host.req.wLength \in Nat /\ host.got \in Nat /\ tx.len \in Nat /\ host'.got = host.got + tx.len
          BY <1>1, <2>1, <2>2, PacketArrives, InvParts, PipeAssumption
             DEF HostOK, HwOK, Packet, Hosts, Request, uint16_t
        <4>2. QED
          BY <2>3, <2>5, <3>2, <4>1
      <3>4. QED
        BY <1>4, <1>5, <2>1, <2>3, <2>5, <3>1, <3>3 DEF Taken, Whole
    <2>6. QED
      BY <2>1, <2>4, <2>5
  <1>8. QED
    BY <1>6, <1>7

(* The host sends the packet of the status stage. *)
LEMMA StatusTaken ==
    ASSUME Serving, LiveHost, HostStatusOut
    PROVE  Closing' /\ LatchSame'
  <1>1. Inv /\ RxStatus(epr) = VALID /\ host.phase = "StatusOUT" /\ UNCHANGED <<pipe, todo, latched>>
        /\ epr' = IF Pending(DTOG_RX) THEN HwOut(epr) ELSE epr
    BY DEF LiveHost, HostStatusOut, pipeVars
  <1>2. Closing
    <2>1. ~Waiting /\ ~Opening /\ ~Open
      BY <1>1 DEF Waiting, Opening, Open, Answers
    <2>2. ~Asked /\ ~Taken /\ ~Rewinding
      BY <1>1, StatusDistinct DEF Asked, Taken, Rewinding, RxSet, StageRegisters
    <2>3. QED
      BY <2>1, <2>2 DEF LiveHost, Situation
  <1>3. /\ stage = "StatusOUT" /\ Polled /\ NoEvent /\ DTOG_RX \subseteq epr
        /\ \/ AtTx /\ ~Pending(KIND) /\ TxStatus(epr) = NAK
           \/ AtKind /\ ~Pending(KIND) /\ TxStatus(epr) = STALL
           \/ AtEnd /\ Pending(KIND) /\ TxStatus(epr) = STALL
    BY <1>1, <1>2, StatusDistinct DEF Closing, Polled
  <1>4. host'.phase = "Idle"
    BY <1>1, InvParts DEF HostStatusOut, HostOK, Hosts
  <1>5. /\ TxStatus(epr') = TxStatus(epr) /\ RxStatus(epr') = NAK /\ Pending(CTR_RX)' /\ ~Pending(SETUP)'
        /\ (Pending(KIND)' <=> Pending(KIND)) /\ epr' \cap KIND = epr \cap KIND
    <2>1. epr' = HwOut(epr)
      BY <1>1, <1>3 DEF Pending
    <2>2. /\ TxStatus(epr') = TxStatus(epr) /\ RxStatus(epr') = NAK
          /\ CTR_RX \subseteq epr' /\ epr' \cap SETUP = {} /\ epr' \cap KIND = epr \cap KIND
      BY <1>1, <2>1, StageTyped, HwOutFields
    <2>3. QED
      BY <2>2 DEF Pending, KIND, SETUP
  <1>6. Polled'
    BY <1>4, <1>5 DEF Polled
  <1>7. LatchSame'
    BY <1>1, <1>5 DEF LatchSame, LiveHost
  <1>8. QED
    BY <1>1, <1>3, <1>5, <1>6, <1>7, PointsSame DEF Closing

(* A transfer fails only when its request was ignored. *)
LEMMA OnlyIgnoredEnds ==
    ASSUME Serving, LiveHost, HostStalled \/ HostTimeout
    PROVE  Waiting' /\ LatchSame'
  <1>1. /\ Inv /\ ~halted /\ UNCHANGED <<pipe, todo, latched, epr>>
        /\ host'.phase = "Failed" /\ host'.req = host.req
    BY InvParts DEF LiveHost, Live, HostStalled, HostTimeout, pipeVars, hwVars, HostOK, Hosts
  <1>2. ~HostStalled
    <2>1. SUFFICES ASSUME HostStalled PROVE FALSE
      OBVIOUS
    <2>2. CASE host.phase \in {"DataIN", "StatusIN"} /\ TxStatus(epr) = STALL
      <3>1. ~Waiting /\ ~Asked /\ ~Opening /\ ~Open /\ ~Taken
        BY <2>2, StatusDistinct DEF Waiting, Asked, Opening, Open, Taken
      <3>2. ~Closing /\ ~Rewinding
        BY <2>2 DEF Closing, Rewinding, Polled
      <3>3. QED
        BY <3>1, <3>2 DEF LiveHost, Situation
    <2>3. CASE host.phase = "StatusOUT" /\ RxStatus(epr) = STALL
      <3>1. ~Waiting /\ ~Opening /\ ~Open
        BY <2>3 DEF Waiting, Opening, Open, Answers
      <3>2. ~Asked /\ ~Taken /\ ~Rewinding
        BY <2>3, StatusDistinct DEF Asked, Taken, Rewinding, RxSet, StageRegisters
      <3>3. ~Closing
        BY <2>3, StatusDistinct DEF Closing, Polled
      <3>4. QED
        BY <3>1, <3>2, <3>3 DEF LiveHost, Situation
    <2>4. QED
      BY <2>1, <2>2, <2>3 DEF HostStalled
  <1>3. HostTimeout /\ todo = <<>> /\ NoEvent /\ Situation
    BY <1>1, <1>2 DEF HostTimeout, Quiet, NoEvent, LiveHost
  <1>4. Reached
    <2>1. host.phase # "Idle"
      BY <1>3 DEF HostTimeout, Free
    <2>2. daddr.add = host.addr
      BY <1>1, <2>1 DEF LiveHost, Live, AddressInv, Cold, Resetting, Agreed, Told, Confirmed
    <2>3. QED
      BY <2>2 DEF LiveHost, Live, Reached
  <1>5. Waiting
    <2>1. ~Open
      BY <1>3, <1>4 DEF Open, Answers, HostTimeout, InToken
    <2>2. QED
      BY <1>1, <1>3, <1>4, <2>1, QuietSituations DEF HostTimeout
  <1>6. Ignored
    BY <1>3, <1>5 DEF Waiting, HostTimeout, Free
  <1>7. LatchSame' /\ (NoEvent' <=> NoEvent) /\ (Pending(KIND)' <=> Pending(KIND)) /\ Ignored'
    BY <1>1, <1>6 DEF LatchSame, LiveHost, NoEvent, Pending, Ignored
  <1>8. RxStatus(epr) = NAK
    BY <1>3, <1>5 DEF Waiting, HostTimeout, Free
  <1>9. QED
    BY <1>1, <1>5, <1>7, <1>8, PointsSame DEF Waiting

LEMMA ServedHost ==
    ASSUME Serving, LiveHost
    PROVE  ServedInv'
  <1>1. ~HostReset /\ ~HostAbort /\ ~HostInLostAck /\ Inv /\ Live
    BY ServingHost DEF LiveHost
  <1>2. CASE HostSetup
    <2>1. todo = <<>> /\ NoEvent /\ Free
      BY <1>1, <1>2, CalmSetup DEF Serving, Live, HostSetup
    <2>2. ~Open
      BY <2>1 DEF Open, Answers, Free
    <2>3. Waiting
      BY <1>1, <2>1, <2>2, QuietSituations DEF LiveHost, Free
    <2>4. QED
      BY <1>1, <1>2, <2>1, <2>3, SetupAsked DEF ServedInv, Waiting, Live, Nothing
  <1>3. CASE ~HostSetup
    <2>1. Situation' /\ LatchSame'
      BY <1>1, <1>3, PacketTaken, StatusTaken, OnlyIgnoredEnds DEF Situation, LiveHost, HostActs, Transaction
    <2>2. Live'
      BY <1>1, HostFrame DEF Live, LiveHost
    <2>3. QED
      BY <2>1, <2>2 DEF ServedInv, Situation, Live
  <1>4. QED
    BY <1>2, <1>3

(* The lists of the handler of a bus reset are told apart by their first access. *)
LEMMA ResetHeads ==
    /\ todo = Reset8 => Head(todo).op = "SetType" /\ Tail(todo) = Reset7
    /\ todo = Reset7 => Head(todo).op = "SetAddress" /\ Tail(todo) = Reset6
    /\ todo = Reset6 => Head(todo).op = "ClearTxDTOG" /\ Tail(todo) = Reset5
    /\ todo = Reset5 => Head(todo).op = "SetTxStatus" /\ Tail(todo) = Reset4
    /\ todo = Reset4 => Head(todo).op = "ClearRxDTOG" /\ Tail(todo) = Reset3
    /\ todo = Reset3 => Head(todo) = SetRx(VALID) /\ Head(todo).op = "SetRxStatus" /\ Tail(todo) = Reset2
    /\ todo = Reset2 => Head(todo).op = "ResetMembers" /\ Tail(todo) = Reset1
    /\ todo = Reset1 => Head(todo).op = "EnableFunction" /\ Tail(todo) = Nothing
    /\ Nothing \notin {Reset1, Reset2, Reset3, Reset4, Reset5, Reset6, Reset7, Reset8}
  <1>1. NAK \in Status /\ VALID \in Status
    BY DEF Status
  <1>2. SetRx(VALID).op = "SetRxStatus" /\ SetTx(NAK).op = "SetTxStatus"
    BY <1>1, OpsTyped
  <1>3. QED
    BY <1>2, ResetLists, NothingTyped DEF Begins

(* Its last access to the register opens the receiver. *)
LEMMA ResetOpens ==
    ASSUME Inv, TxInv, ~halted, host.phase = "Reset", todo = Reset3, RegWrite
    PROVE  RxStatus(epr') = VALID /\ TxStatus(epr') = NAK
  <1>1. Head(todo) = SetRx(VALID) /\ Head(todo).op = "SetRxStatus" /\ Tail(todo) = Reset2 /\ todo # <<>>
    BY ResetHeads, NothingTyped
  <1>2. ~InHandler
    <2>1. SUFFICES ASSUME InHandler PROVE FALSE
      OBVIOUS
    <2>2. AtRx
      BY <1>1, <2>1, PointOps DEF InHandler, AtIn, AtSetup, AtOut
    <2>3. PICK rest \in Ends : Tail(todo) = TxLeft(stage, rest)
      BY <2>2, PointTails, StageTyped
    <2>4. Head(Tail(todo)).op = "SetTxStatus"
      <3>1. Head(Tail(todo)) = SetTx(StageRegisters[stage][2])
        BY <2>3, StageLists, StageTyped
      <3>2. StageRegisters[stage][2] \in Status
        BY StageStatus, StageTyped
      <3>3. SetTx(StageRegisters[stage][2]).op = "SetTxStatus"
        BY <3>2 DEF SetTx
      <3>4. QED
        BY <3>1, <3>3
    <2>5. Head(Tail(todo)).op = "ResetMembers"
      BY <1>1, ResetLists DEF Begins
    <2>6. QED
      BY <2>4, <2>5
  <1>3. InReset
    BY <1>2 DEF TxInv, Cold, TxLive, TxInterrupted, InHandler, AtIn
  <1>4. TxStatus(epr) = NAK /\ latched \subseteq {epr}
    <2>1. todo \notin {Reset8, Reset7, Reset6, Reset5, Reset1}
      BY <1>1, ResetHeads
    <2>2. QED
      BY <1>3, <2>1 DEF InReset
  <1>5. epr' = After(SetRx(VALID), epr, epr)
    BY <1>1, <1>4 DEF RegWrite, After
  <1>6. epr \in Register /\ VALID \in Status /\ SetRx(VALID) \in AccessorOp
    BY StageTyped, OpsTyped DEF Status
  <1>7. RxStatus(epr') = VALID
    <2>1. RxStatus(epr') = Xor(Xor(RxStatus(epr), VALID), RxStatus(epr))
      BY <1>5, <1>6, StatusToggled
    <2>2. QED
      BY <2>1, ToggledFrom
  <1>8. TxStatus(epr') = NAK
    BY <1>1, <1>4, <1>5, <1>6, AccessorCalm
  <1>9. QED
    BY <1>7, <1>8

(* From the first bus reset to the end of its handler. *)
LEMMA FreshStep ==
    ASSUME Inv, TxInv, Fresh, LatchSame, ~halted, Firmware, UNCHANGED <<host, budget>>
    PROVE  Fresh' /\ LatchSame' /\ ~halted'
  <1> DEFINE Lists == {Reset1, Reset2, Reset3, Reset4, Reset5, Reset6, Reset7, Reset8}
             Opened == RxStatus(epr) = VALID /\ TxStatus(epr) = NAK
             Must == todo \in {Reset1, Reset2} \/ (todo = Nothing /\ ~istrReset)
  <1>1. ~Cold
    <2>1. SUFFICES ASSUME Cold PROVE FALSE
      OBVIOUS
    <2>2. NoEvent
      BY <2>1 DEF Cold, NoEvent, Pending, CTR_RX, CTR_TX
    <2>3. QED
      BY <2>1, <2>2, NothingToDo DEF Cold
  <1>2. Resetting /\ stage = "Setup" /\ ~Pending(KIND) /\ (Must => Opened)
    BY <1>1 DEF Fresh
  <1>3. Resetting' /\ ~halted'
    BY <1>2, ResettingStep DEF Resetting
  <1>4. latched = {} \/ (Head(todo) \in AccessorOp /\ todo # <<>>)
    BY InvParts DEF LatchOK
  <1>5. todo \in Lists \cup {Nothing}
    BY <1>2 DEF Resetting
  <1> SUFFICES stage' = "Setup" /\ ~Pending(KIND)' /\ (Must' => Opened') /\ LatchSame'
    BY <1>3 DEF Fresh
  <1>6. CASE DispatchReset
    <2>1. todo' = Reset8 /\ UNCHANGED <<pipe, epr, latched>> /\ latched = {}
      BY <1>4, <1>6, DispatchLists, NothingTyped DEF DispatchReset, Ready
    <2>2. ~Must'
      <3>1. Reset8 # Nothing /\ Reset8 # Reset1 /\ Reset8 # Reset2
        BY ResetLists, ResetHeads DEF Begins
      <3>2. QED
        BY <2>1, <3>1
    <2>3. QED
      BY <1>2, <2>1, <2>2 DEF stage, Pending, LatchSame
  <1>7. CASE RegRead
    <2>1. UNCHANGED <<pipe, epr, istrReset>> /\ Head(todo) \in AccessorOp
      BY <1>7 DEF RegRead, hwVars
    <2>2. CASE UNCHANGED todo /\ latched' = {epr}
      BY <1>2, <2>1, <2>2 DEF stage, Pending, LatchSame
    <2>3. CASE todo' = Tail(todo) /\ latched' = {} /\ Head(todo).op \in {"ClearTxDTOG", "ClearRxDTOG"}
      <3>1. todo' \in {Reset5, Reset3}
        BY <1>5, <1>7, <2>3, ResetHeads, NothingTyped DEF RegRead
      <3>2. ~Must'
        <4>1. Reset5 \notin {Reset1, Reset2, Nothing} /\ Reset3 \notin {Reset1, Reset2, Nothing}
          BY ResetLists, ResetHeads, OpsTyped DEF Begins, Status
        <4>2. QED
          BY <3>1, <4>1
      <3>3. QED
        BY <1>2, <2>1, <2>3, <3>2 DEF stage, Pending, LatchSame
    <2>4. QED
      BY <1>7, <2>2, <2>3 DEF RegRead, Writes
  <1>8. CASE RegWrite
    <2>1. /\ todo' = Tail(todo) /\ latched' = {} /\ UNCHANGED <<pipe, istrReset>> /\ Head(todo) \in AccessorOp
      BY <1>4, <1>8 DEF RegWrite
    <2>2. PICK r \in Register : latched = {r} /\ epr' = After(Head(todo), r, epr)
      BY <1>8, InvParts DEF LatchOK, RegWrite, After
    <2>3. Head(todo).op \notin {"SetStatusOut", "ClearStatusOut", "ResetMembers", "EnableFunction"}
      <3>1. \A o \in AccessorOp : o.op \notin {"ResetMembers", "EnableFunction"}
        BY DEF AccessorOp, PlainAccessors
      <3>2. todo # <<>>
        BY <1>8 DEF RegWrite
      <3>3. QED
        BY <1>5, <2>1, <3>1, <3>2, ResetHeads, NothingTyped
    <2>4. ~Pending(KIND)'
      <3>1. epr' \cap KIND = r \cap KIND
        BY <2>1, <2>2, <2>3, StageTyped, AccessorFrame
      <3>2. QED
        BY <1>2, <2>2, <3>1 DEF LatchSame, Pending, KIND
    <2>5. CASE todo = Reset3
      BY <1>2, <1>8, <2>1, <2>4, <2>5, ResetOpens DEF Resetting, LatchSame, stage
    <2>6. CASE todo # Reset3
      <3>1. todo' \in {Reset7, Reset6, Reset5, Reset4, Reset3}
        BY <1>5, <1>8, <2>1, <2>3, <2>6, ResetHeads, NothingTyped DEF RegWrite
      <3>2. ~Must'
        <4>1. \A l \in {Reset7, Reset6, Reset5, Reset4, Reset3} : l \notin {Reset1, Reset2, Nothing}
          BY ResetLists, ResetHeads, OpsTyped DEF Begins, Status
        <4>2. QED
          BY <3>1, <4>1
      <3>3. QED
        BY <1>2, <2>1, <2>4, <3>2 DEF stage, LatchSame
    <2>7. QED
      BY <2>5, <2>6
  <1>9. CASE ResetMembers
    <2>1. /\ todo' = Tail(todo) /\ UNCHANGED <<latched, epr, istrReset>> /\ pipe' = NoTransfer
          /\ Head(todo).op = "ResetMembers" /\ todo # <<>>
      BY <1>9 DEF ResetMembers, Running, hwVars
    <2>2. todo = Reset2 /\ latched = {}
      <3>1. \A o \in AccessorOp : o.op # "ResetMembers"
        BY DEF AccessorOp, PlainAccessors
      <3>2. QED
        BY <1>4, <1>5, <2>1, <3>1, ResetHeads, NothingTyped
    <2>3. Opened'
      BY <1>2, <2>1, <2>2
    <2>4. QED
      BY <1>2, <2>1, <2>2, <2>3 DEF stage, NoTransfer, Pending, LatchSame
  <1>10. CASE EnableFunction
    <2>1. /\ todo' = Tail(todo) /\ UNCHANGED <<latched, epr, istrReset, pipe>>
          /\ Head(todo).op = "EnableFunction" /\ todo # <<>>
      BY <1>10 DEF EnableFunction, Running
    <2>2. todo = Reset1 /\ latched = {}
      <3>1. \A o \in AccessorOp : o.op # "EnableFunction"
        BY DEF AccessorOp, PlainAccessors
      <3>2. QED
        BY <1>4, <1>5, <2>1, <3>1, ResetHeads, NothingTyped
    <2>3. Opened'
      BY <1>2, <2>1, <2>2
    <2>4. QED
      BY <1>2, <2>1, <2>2, <2>3 DEF stage, Pending, LatchSame
  <1>11. RegRead \/ RegWrite \/ ResetMembers \/ EnableFunction \/ DispatchReset
    <2>1. todo # <<>> => Head(todo).op \in {"SetType", "SetAddress", "ClearTxDTOG", "SetTxStatus", "ClearRxDTOG",
                                            "SetRxStatus", "ResetMembers", "EnableFunction"}
      BY <1>5, ResetHeads, NothingTyped
    <2>2. QED
      BY <1>2, <2>1 DEF Firmware, WritePMA, InComplete, OutComplete, SetupComplete, ApplyAddress, Running,
         DispatchIn, DispatchSetup, DispatchOut, Resetting, NoEvent
  <1>12. QED
    BY <1>6, <1>7, <1>8, <1>9, <1>10, <1>11

LEMMA ServedFirmware ==
    ASSUME Serving, Inv, Inv', TxInv, CalmInv, ServedInv, Firmware, UNCHANGED <<host, budget>>
    PROVE  ServedInv'
  <1>1. CASE Fresh
    BY <1>1, FreshStep DEF ServedInv
  <1>2. CASE Live /\ Situation
    <2>1. LiveStep
      BY <1>2 DEF LiveStep, ServedInv
    <2>2. Situation' /\ ~halted'
      BY <1>2, <2>1, WaitingStep, AskedStep, OpeningStep, OpenStep, TakenStep, ClosingStep, RewindingStep
         DEF Situation, Serving
    <2>3. Live' /\ LatchSame'
      BY <1>2, <2>1, <2>2, LiveStepIs, LiveStays
    <2>4. QED
      BY <2>2, <2>3 DEF ServedInv, Situation
  <1>3. QED
    BY <1>1, <1>2 DEF ServedInv, Situation

(* The first bus reset, and the first SETUP after it. *)
LEMMA FreshHost ==
    ASSUME Serving, Inv, CalmInv, AddressInv, AddressInv', Fresh, LatchSame, ~halted, HostActs
    PROVE  ServedInv'
  <1>1. CASE Cold
    <2>1. HostReset
      BY <1>1 DEF Cold, HostActs, HostSetup, HostAbort, SendSetup, AcceptsSetup, Transaction, HostIn,
             HostStatusIn, HostStatusOut, HostInLostAck, HostStalled, HostTimeout, Free, Reached
    <2>2. /\ UNCHANGED <<pipe, todo, latched, halted>> /\ host'.phase = "Reset" /\ istrReset'
          /\ epr' = HwReset(epr)
      BY <2>1, InvParts DEF HostReset, pipeVars, HostOK, Hosts
    <2>3. epr' = {} /\ latched = {} /\ todo' = Nothing /\ stage' = "Setup"
      BY <1>1, <2>2, InvParts DEF Cold, HwReset, LatchOK, Nothing, stage
    <2>4. ~Live' /\ ~Cold'
      BY <2>2 DEF Live, Cold
    <2>5. Resetting'
      <3>1. daddr'.add = 0 /\ host'.addr = 0 /\ g_devAddress' = 0
        <4>1. g_devAddress = 0
          BY <1>1 DEF AddressInv, Cold, Resetting, Live
        <4>2. daddr'.add = 0 /\ host'.addr = 0 /\ g_devAddress' = g_devAddress
          BY <2>1, InvParts DEF HostReset, pipeVars, HostOK, Hosts
        <4>3. QED
          BY <4>1, <4>2
      <3>2. QED
        BY <2>2, <2>3, <3>1 DEF Resetting, NoEvent, Pending, CTR_RX, CTR_TX
    <2>6. Nothing \notin {Reset1, Reset2}
      BY ResetHeads
    <2>7. QED
      BY <2>2, <2>3, <2>5, <2>6 DEF ServedInv, Fresh, LatchSame, Resetting, Pending, KIND
  <1>2. CASE ~Cold
    <2>1. Resetting /\ stage = "Setup" /\ ~Pending(KIND)
      BY <1>2 DEF Fresh
    <2>2. ~HostReset
      <3>1. budget.resets > 0
        BY <2>1 DEF AddressInv, Cold, Resetting
      <3>2. budget.resets \in Nat /\ MaxResets \in Nat
        BY BusAssumption DEF Inv, TypeOK
      <3>3. QED
        BY <3>1, <3>2 DEF Serving, HostReset
    <2>3. HostSetup /\ todo = Nothing
      BY <2>1, <2>2, HostFrame, CalmSetup DEF Resetting, Serving, Nothing
    <2>4. QED
      BY <2>1, <2>3, SetupAsked DEF ServedInv
  <1>3. QED
    BY <1>1, <1>2

LEMMA ServedInvInit == Init => ServedInv
  BY DEF Init, PipeInit, NoTransfer, ServedInv, Fresh, Cold, stage, Nothing, LatchSame

LEMMA ServedInvNext ==
    ASSUME Serving, Inv, Inv', TxInv, CalmInv, AddressInv, AddressInv', ServedInv, [Next]_vars
    PROVE  ServedInv'
  <1>1. CASE Firmware /\ UNCHANGED <<host, budget>>
    BY <1>1, ServedFirmware
  <1>2. CASE HostActs
    <2>1. CASE Fresh
      BY <1>2, <2>1, FreshHost DEF ServedInv
    <2>2. CASE ~Fresh
      BY <1>2, <2>2, ServedHost DEF ServedInv, LiveHost, Situation
    <2>3. QED
      BY <2>1, <2>2
  <1>3. CASE UNCHANGED vars
    <2>1. UNCHANGED <<pipe, g_devAddress, todo, latched, halted, epr, daddr, istrReset, tx, rx, host, budget>>
      BY <1>3 DEF vars, pipeVars, hwVars
    <2>2. (Cold' <=> Cold) /\ (Live' <=> Live) /\ (Resetting' <=> Resetting) /\ (LatchSame' <=> LatchSame)
      BY <2>1, PointsSame DEF Cold, Live, Resetting, NoEvent, Pending, LatchSame
    <2>3. Fresh' <=> Fresh
      BY <2>1, <2>2, PointsSame DEF Fresh, Pending
    <2>4. Situation' <=> Situation
      BY <2>1, SituationSame
    <2>5. QED
      BY <2>1, <2>2, <2>3, <2>4 DEF ServedInv, Situation
  <1>4. QED
    BY <1>1, <1>2, <1>3 DEF Next, HostActs

(* A host that resets the bus once, waits for the end of each transfer, loses
   no handshake and asks for what the pipe can serve, always finds the device
   in one of the situations of a transfer that goes well. *)
THEOREM ServedInvHolds ==
    ASSUME BackToBack = FALSE, MaxAborts = 0, MaxResets <= 1, MaxLost = 0, \A r \in Requests : Servable(r)
    PROVE  Spec => []ServedInv
  <1>1. Serving
    BY DEF Serving, Calm
  <1>2. Inv /\ Inv' /\ TxInv /\ CalmInv /\ AddressInv /\ AddressInv' /\ ServedInv /\ [Next]_vars => ServedInv'
    BY <1>1, ServedInvNext
  <1>3. QED
    BY <1>2, TxInvHolds, CalmInvHolds, AddressInvHolds, InvInit, InvNext, ServedInvInit, PTL DEF Spec

(* For such a host, the status bits and KIND are those of the stage whenever
   the handler has returned and nothing is pending. *)
THEOREM RegistersMatch ==
    ASSUME BackToBack = FALSE, MaxAborts = 0, MaxResets <= 1, MaxLost = 0, \A r \in Requests : Servable(r)
    PROVE  Spec => []RegistersMatchStage
  <1>1. Inv /\ ServedInv => RegistersMatchStage
    <2>1. SUFFICES ASSUME Inv, ServedInv, Quiet, ~halted, daddr.ef
                   PROVE  /\ \/ <<RxStatus(epr), TxStatus(epr)>> = StageRegisters[stage]
                             \/ Ignored /\ stage = "Setup" /\ RxStatus(epr) = NAK /\ TxStatus(epr) = NAK
                          /\ Pending(KIND) <=> stage = "StatusOUT"
      BY DEF RegistersMatchStage, stage
    <2>2. todo = <<>> /\ NoEvent /\ ~istrReset
      BY <2>1 DEF Quiet, NoEvent
    <2>3. CASE Fresh
      BY <2>1, <2>2, <2>3 DEF Fresh, Cold, Nothing, StageRegisters
    <2>4. CASE Waiting
      BY <2>4 DEF Waiting, StageRegisters
    <2>5. CASE Open
      BY <2>5 DEF Open, Sending, RxSet, StageRegisters
    <2>6. CASE stage = "StatusOUT" /\ RxStatus(epr) = VALID /\ Pending(KIND) /\ TxStatus(epr) = STALL
      BY <2>6 DEF StageRegisters
    <2>7. QED
      BY <2>1, <2>2, <2>3, <2>4, <2>5, <2>6, QuietSituations DEF ServedInv, Situation, Closing
  <1>2. QED
    BY <1>1, ServedInvHolds, InvInit, InvNext, PTL DEF Spec

(* For such a host, a transfer fails only if the device does not know the
   request. *)
THEOREM ServedSucceed ==
    ASSUME BackToBack = FALSE, MaxAborts = 0, MaxResets <= 1, MaxLost = 0, \A r \in Requests : Servable(r)
    PROVE  Spec => []OnlyIgnoredFails
  <1>1. Inv /\ ServedInv => OnlyIgnoredFails
    BY DEF ServedInv, OnlyIgnoredFails, Fresh, Cold, Resetting, Waiting, Asked, Opening, Open, Answers, Taken,
       Closing, Polled, Rewinding, FirstPhase
  <1>2. QED
    BY <1>1, ServedInvHolds, InvInit, InvNext, PTL DEF Spec

-----------------------------------------------------------------------------
(* Every packet the next piece: PieceInv.                                  *)

\* What the host is assumed to do: besides Calm, it asks for what has an answer.
Asking == Calm /\ \A r \in Requests : Answerable(r)

LEMMA AttachedIs ==
    ASSUME Inv, CalmInv, Attached
    PROVE  TxLive /\ CalmLive /\ InHandler /\ ~istrReset
  <1>1. TxLive /\ CalmLive
    BY DEF CalmInv, Attached, TxInterrupted, InReset
  <1>2. QED
    BY <1>1 DEF TxLive, InHandler, AtIn

\* The points of a handler exclude each other.
Apart ==
    /\ AtEnd => ~AtIn /\ ~AtSetup /\ ~AtOut /\ ~AtLoad /\ ~AtUnkind /\ ~AtRx /\ ~AtTx /\ ~AtKind
    /\ AtIn => ~AtSetup /\ ~AtOut /\ ~AtLoad /\ ~AtUnkind /\ ~AtRx /\ ~AtTx /\ ~AtKind
    /\ AtSetup => ~AtOut /\ ~AtLoad /\ ~AtUnkind /\ ~AtRx /\ ~AtTx /\ ~AtKind
    /\ AtOut => ~AtLoad /\ ~AtUnkind /\ ~AtRx /\ ~AtTx /\ ~AtKind
    /\ AtLoad => ~AtUnkind /\ ~AtRx /\ ~AtTx /\ ~AtKind
    /\ AtUnkind => ~AtRx /\ ~AtTx /\ ~AtKind
    /\ AtRx => ~AtTx /\ ~AtKind
    /\ AtTx => ~AtKind

LEMMA PointsApart == Inv => Apart
  <1> SUFFICES ASSUME Inv PROVE Apart
    OBVIOUS
  <1>1. todo = <<>> => Apart
    BY PointOps DEF Apart
  <1>2. ASSUME todo # <<>> PROVE Apart
    <2>1. /\ AtEnd => Head(todo).op = "ApplyAddress"
          /\ AtIn => Head(todo).op \in {"ClearTxCTR", "OnInTransferComplite"}
          /\ AtSetup => todo \in {SetupList, SetupCall} /\ Head(todo).op \in {"ClearRxCTR", "OnSetupTransferComplite"}
          /\ AtOut => todo \in {OutList, OutCall} /\ Head(todo).op \in {"ClearRxCTR", "OnOutTransferComplite"}
      BY <1>2, PointOps DEF AtIn, AtSetup, AtOut
    <2>2. AtSetup => ~AtOut
      <3>1. SetupList # OutList
        <4>1. Head(Tail(SetupList)).op = "OnSetupTransferComplite" /\ Head(Tail(OutList)).op = "OnOutTransferComplite"
          BY CallLists DEF Begins
        <4>2. QED
          BY <4>1
      <3>2. SetupList # OutCall /\ SetupCall # OutList /\ SetupCall # OutCall
        BY CallLists DEF Begins
      <3>3. QED
        BY <3>1, <3>2 DEF AtSetup, AtOut
    <2>3. QED
      BY <2>1, <2>2, PointOps DEF Apart
  <1>3. QED
    BY <1>1, <1>2

(* An endpoint that is open for sending is not about to be. *)
LEMMA ValidAt == TxLive /\ TxStatus(epr) = VALID => Sending /\ (AtEnd \/ AtSetup \/ AtOut \/ AtUnkind \/ AtKind)
  BY StatusDistinct DEF TxLive, TxSettled, Closed

(* What depends on the pipe, the host and the transmitter's toggle only. *)
LEMMA PieceSame ==
    ASSUME UNCHANGED <<pipe, host>>, epr' \cap DTOG_TX = epr \cap DTOG_TX
    PROVE  /\ stage' = stage /\ (Whole' <=> Whole)
           /\ tx' = tx /\ InStep(tx) => InStep(tx)'
           /\ tx' = Head(todo).pkt /\ InStep(Head(todo).pkt) => InStep(tx)'
           /\ Ahead => Ahead'
  <1>1. stage' = stage /\ Want' = Want /\ Source' = Source /\ (Ignored' <=> Ignored)
    BY DEF stage, Want, Source, Ignored
  <1>2. \A n : Rest(n)' <=> Rest(n)
    BY <1>1 DEF Rest
  <1>3. \A n, pkt : Data(n, pkt)' <=> Data(n, pkt)
    BY <1>1, <1>2 DEF Data
  <1>4. Whole' <=> Whole
    BY <1>1, <1>2 DEF Whole
  <1>5. DTOG_TX \ epr' = DTOG_TX \ epr
    OBVIOUS
  <1>6. QED
    BY <1>1, <1>3, <1>4, <1>5 DEF InStep, Ahead

\* A step of the handler of such a device.
AttachedStep == /\ Inv /\ Inv' /\ CalmInv /\ TxInv' /\ Attached /\ Attached' /\ PieceInv
                /\ Firmware /\ UNCHANGED <<host, budget>>

LEMMA AttachedStepIs ==
    ASSUME AttachedStep
    PROVE  /\ TxLive /\ CalmLive /\ InHandler /\ ~istrReset /\ ~halted' /\ TxLive' /\ Apart /\ Apart'
           /\ PieceAsked /\ PieceLoading /\ PieceOpen /\ PieceTaken
           /\ Inv /\ Firmware /\ UNCHANGED host
           /\ Unserved' => Unserved
           /\ TxStatus(epr') = VALID => Sending' /\ (AtEnd \/ AtSetup \/ AtOut \/ AtUnkind \/ AtKind)'
  <1>1. TxLive /\ CalmLive /\ InHandler /\ ~istrReset /\ Inv
    BY AttachedIs DEF AttachedStep
  <1>2. TxLive' /\ ~halted'
    BY DEF AttachedStep, Attached, TxInv, TxInterrupted, InReset
  <1>3. Apart /\ Apart'
    <2>1. Inv /\ Inv'
      BY DEF AttachedStep
    <2>2. QED
      BY <2>1, PointsApart, PTL
  <1>4. PieceAsked /\ PieceLoading /\ PieceOpen /\ PieceTaken
    BY DEF AttachedStep, PieceInv
  <1>5. Unserved' => Unserved
    BY <1>1, <1>2, UnservedBefore DEF AttachedStep
  <1>6. TxStatus(epr') = VALID => Sending' /\ (AtEnd \/ AtSetup \/ AtOut \/ AtUnkind \/ AtKind)'
    <2> DEFINE Valid == TxStatus(epr) = VALID
               Where == Sending /\ (AtEnd \/ AtSetup \/ AtOut \/ AtUnkind \/ AtKind)
    <2>1. TxLive' /\ Valid' => Where'
      BY ValidAt, PTL
    <2>2. QED
      BY <1>2, <2>1
  <1>7. QED
    BY <1>1, <1>2, <1>3, <1>4, <1>5, <1>6 DEF AttachedStep

(* A write to the register. *)
LEMMA PieceWrite ==
    ASSUME AttachedStep, RegWrite
    PROVE  PieceAsked' /\ PieceLoading' /\ PieceOpen' /\ PieceTaken'
  <1>1. /\ TxLive /\ CalmLive /\ InHandler /\ Apart /\ Apart' /\ Inv /\ Firmware /\ UNCHANGED host
        /\ PieceAsked /\ PieceLoading /\ PieceOpen /\ PieceTaken
        /\ Unserved' => Unserved
        /\ TxStatus(epr') = VALID => Sending' /\ (AtEnd \/ AtSetup \/ AtOut \/ AtUnkind \/ AtKind)'
    BY AttachedStepIs
  <1>2. PICK r \in Register : latched = {r} /\ epr' = After(Head(todo), r, epr)
    BY <1>1, HandlerWrites
  <1>3. /\ Advanced /\ ~AtEnd /\ todo \notin {InCall, SetupCall, OutCall} /\ ~AtLoad /\ UNCHANGED <<tx, rx>>
        /\ Head(todo) \in AccessorOp /\ UNCHANGED <<pipe, host>> /\ todo # <<>>
    BY <1>1, HandlerWrites DEF Advanced
  <1>4. epr' \cap DTOG_TX = epr \cap DTOG_TX
    <2>1. Head(todo).op # "ClearTxDTOG"
      BY <1>1, <1>3, HandlerOps
    <2>2. QED
      BY <1>2, <1>3, <2>1, StageTyped, <1>1, AccessorFrame
  <1>5. /\ stage' = stage /\ (Sending' <=> Sending) /\ (Whole' <=> Whole)
        /\ InStep(tx) => InStep(tx)'
        /\ Ahead => Ahead'
    BY <1>3, <1>4, PieceSame DEF Sending
  <1>6. PieceAsked'
    BY <1>1, <1>3, <1>4, <1>5 DEF PieceAsked, DTOG_TX
  <1>7. /\ AtUnkind => AtRx' /\ stage = "Setup"
        /\ AtRx => AtTx'
        /\ AtTx => AtKind' \/ AtEnd'
        /\ AtKind => AtEnd'
        /\ AtIn => AtIn' /\ todo = InList
        /\ AtSetup => AtSetup'
        /\ AtOut => AtOut'
    BY <1>1, <1>3, StageTyped, PointAdvances DEF AtUnkind, AtIn, AtSetup, AtOut
  <1>8. PieceLoading'
    <2>1. ~AtLoad' /\ (Sending' /\ (AtRx' \/ AtTx') => Sending /\ AtRx)
      BY <1>1, <1>3, <1>5, <1>7 DEF InHandler, Apart, Sending
    <2>2. QED
      BY <1>1, <1>5, <2>1 DEF PieceLoading
  <1>9. PieceOpen'
    <2>1. SUFFICES ASSUME TxStatus(epr') = VALID PROVE InStep(tx)' \/ Ahead'
      BY DEF PieceOpen
    <2>2. CASE Head(todo).op = "SetTxStatus"
      <3>1. AtTx
        BY <1>1, <1>3, <2>2, PointOps DEF InHandler, AtIn, AtSetup, AtOut
      <3>2. Sending
        BY <1>1, <1>5, <2>1
      <3>3. QED
        BY <1>1, <1>5, <3>1, <3>2 DEF PieceLoading
    <2>3. CASE Head(todo).op # "SetTxStatus"
      <3>1. TxStatus(epr) = VALID
        BY <1>1, <1>2, <1>3, <2>1, <2>3, AccessorTx
      <3>2. QED
        BY <1>1, <1>5, <3>1 DEF PieceOpen
    <2>4. QED
      BY <2>2, <2>3
  <1>10. PieceTaken'
    <2>1. Pending(CTR_TX)' => Pending(CTR_TX)
      BY <1>1, EventsFall
    <2>2. AtIn' => AtIn
      BY <1>1, <1>3, <1>7 DEF InHandler, Apart
    <2>3. QED
      BY <1>1, <1>3, <1>4, <1>5, <2>1, <2>2 DEF PieceTaken
  <1>11. QED
    BY <1>6, <1>8, <1>9, <1>10

(* The calls of the pipe, after the notice has been cleared. *)
LEMMA PieceIn ==
    ASSUME AttachedStep, todo = InCall
    PROVE  PieceAsked' /\ PieceLoading' /\ PieceOpen' /\ PieceTaken'
  <1>1. /\ TxLive /\ CalmLive /\ InHandler /\ Apart /\ Apart' /\ Inv /\ Firmware /\ UNCHANGED host /\ PieceTaken
        /\ Unserved' => Unserved
    BY AttachedStepIs
  <1>2. InComplete /\ UNCHANGED <<epr, rx, tx>> /\ AtIn
    BY <1>1, PointSteps DEF InComplete, hwVars, AtIn
  <1>3. NoEvent' /\ TxStatus(epr') # VALID
    <2>1. NoEvent
      BY <1>1, CalmAt
    <2>2. TxStatus(epr) # VALID
      BY <1>1, <1>2, ValidAt DEF Apart
    <2>3. QED
      BY <1>2, <2>1, <2>2 DEF NoEvent, Pending
  <1>4. AtLoad' \/ (AtRx' /\ ~Sending') \/ AtEnd'
    BY <1>1, <1>2, InCompletePoints DEF Sending, AtEnd, Ends
  <1>5. OnInTransferComplite(pipe, Address) /\ Address \in Ends /\ pipe \in Pipes /\ RestOK(pipe)
    BY <1>1, <1>2, PointTails, StageTyped, InvParts DEF InComplete, Ends, PipeOK
  <1>6. AtLoad' => InStep(Head(todo).pkt)'
    <2>1. CASE host.phase = "DataIN"
      <3>1. pipe.m_transferState = "DataIN" /\ Rest(host.got) /\ host.got % MaxPacket = 0 /\ host.got \in Nat
            /\ host.tog = epr \cap DTOG_TX
        BY <1>1, <1>2, <2>1, InvParts DEF PieceTaken, Whole, stage, HostOK, Hosts
      <3>2. \A g \in Nat : g = host.got => stage' # "StatusIN" /\ Data(g, Head(todo).pkt)'
        BY <1>1, <1>5, <3>1, PieceFollows DEF Rest
      <3>3. stage' # "StatusIN" /\ Data(host.got, Head(todo).pkt)'
        BY <1>1, <3>1, <3>2 DEF Data, Rest
      <3>4. QED
        BY <1>1, <1>2, <2>1, <3>1, <3>3 DEF InStep
    <2>2. CASE host.phase # "DataIN"
      BY <1>1, <1>2, <2>2 DEF InStep, PieceTaken
    <2>3. QED
      BY <2>1, <2>2
  <1>7. PieceLoading' /\ PieceTaken' /\ PieceAsked'
    BY <1>1, <1>3, <1>4, <1>6 DEF PieceLoading, PieceTaken, PieceAsked, Apart, Unserved, NoEvent
  <1>8. QED
    BY <1>3, <1>7 DEF PieceOpen

LEMMA PieceOut ==
    ASSUME AttachedStep, todo = OutCall
    PROVE  PieceAsked' /\ PieceLoading' /\ PieceOpen' /\ PieceTaken'
  <1>1. /\ TxLive /\ CalmLive /\ InHandler /\ Apart /\ Apart' /\ Inv /\ Firmware /\ UNCHANGED host /\ PieceOpen
        /\ TxStatus(epr') = VALID => Sending'
    BY AttachedStepIs
  <1>2. OutComplete /\ UNCHANGED <<epr, rx, tx>>
    BY <1>1, PointSteps DEF OutComplete, hwVars
  <1>3. NoEvent'
    BY <1>1, <1>2, CalmAt DEF NoEvent, Pending
  <1>4. (AtUnkind' /\ ~Sending') \/ (AtEnd' /\ pipe' = pipe)
    BY <1>1, <1>2, OutCompletePoints DEF Sending, AtEnd, Ends, AtUnkind
  <1>5. PieceLoading' /\ PieceTaken' /\ PieceAsked'
    BY <1>1, <1>3, <1>4 DEF PieceLoading, PieceTaken, PieceAsked, Apart, Unserved, NoEvent
  <1>6. PieceOpen'
    BY <1>1, <1>2, <1>4, PieceSame DEF PieceOpen
  <1>7. QED
    BY <1>5, <1>6

LEMMA PieceSetup ==
    ASSUME Asking, AttachedStep, todo = SetupCall
    PROVE  PieceAsked' /\ PieceLoading' /\ PieceOpen' /\ PieceTaken'
  <1>1. /\ TxLive /\ CalmLive /\ InHandler /\ Apart /\ Apart' /\ Inv /\ Firmware /\ UNCHANGED host /\ PieceAsked
        /\ ~halted'
    BY AttachedStepIs
  <1>2. SetupComplete /\ UNCHANGED <<epr, rx, tx>> /\ AtSetup /\ Unserved
    BY <1>1, PointSteps DEF SetupComplete, hwVars, AtSetup, Unserved
  <1>3. NoEvent' /\ TxStatus(epr') # VALID
    BY <1>1, <1>2, CalmAt, StatusDistinct DEF NoEvent, Pending
  <1>4. AtEnd' \/ (AtLoad' /\ InStep(Head(todo).pkt)')
    <2>1. CASE stage = "Setup"
      <3>1. rx = host.req /\ host.phase = FirstPhase(rx) /\ host.got = 0 /\ host.tog = epr' \cap DTOG_TX
        BY <1>1, <1>2, <2>1 DEF PieceAsked
      <3>2. Answerable(rx)
        BY <1>1, <3>1, InvParts DEF Asking, HostOK, Hosts
      <3>3. CASE todo' = Nothing
        BY <3>3 DEF AtEnd, Ends
      <3>4. CASE /\ AtLoad' /\ stage' # "StatusIN" /\ host.phase = "DataIN" /\ Data(0, Head(todo).pkt)'
        BY <1>1, <3>1, <3>4 DEF InStep
      <3>5. CASE /\ AtLoad' /\ host.phase = "StatusIN" /\ Head(todo').pkt = ZLP /\ ~Ignored
        BY <1>1, <3>5 DEF InStep, ZLP, Ignored
      <3>6. QED
        BY <1>1, <1>2, <2>1, <3>1, <3>2, <3>3, <3>4, <3>5, RequestStarts
    <2>2. CASE stage # "Setup"
      <3>1. todo' = Nothing
        BY <1>1, <1>2, <2>2, SetupCompletePoints
      <3>2. QED
        BY <3>1 DEF AtEnd, Ends
    <2>3. QED
      BY <2>1, <2>2
  <1>5. PieceLoading' /\ PieceTaken' /\ PieceAsked'
    BY <1>1, <1>3, <1>4 DEF PieceLoading, PieceTaken, PieceAsked, Apart, Unserved, NoEvent
  <1>6. QED
    BY <1>3, <1>5 DEF PieceOpen

(* The steps that leave the register alone: a read, the packet on its way to the
   buffer, and those of a handler that has ended. *)
LEMMA PieceRead ==
    ASSUME AttachedStep, RegRead
    PROVE  PieceAsked' /\ PieceLoading' /\ PieceOpen' /\ PieceTaken'
  <1>1. /\ InHandler /\ Inv /\ UNCHANGED host
        /\ PieceAsked /\ PieceLoading /\ PieceOpen /\ PieceTaken
    BY AttachedStepIs
  <1>2. UNCHANGED <<pipe, todo, epr, tx, rx, host>>
    BY <1>1, HandlerReads DEF hwVars
  <1>3. /\ Whole' <=> Whole
        /\ InStep(tx) => InStep(tx)'
        /\ AtLoad => (InStep(Head(todo).pkt) => InStep(Head(todo).pkt)')
        /\ Ahead => Ahead'
    <2>1. ~AtLoad
      BY <1>1, PointOps DEF RegRead, AccessorOp, PlainAccessors
    <2>2. QED
      BY <1>2, <2>1, PieceSame
  <1>4. PieceAsked' /\ PieceTaken'
    BY <1>1, <1>2, <1>3, PointsSame DEF PieceAsked, PieceTaken, Unserved, Pending
  <1>5. PieceLoading' /\ PieceOpen'
    BY <1>1, <1>2, <1>3, PointsSame DEF PieceLoading, PieceOpen
  <1>6. QED
    BY <1>4, <1>5

LEMMA PieceLoad ==
    ASSUME AttachedStep, AtLoad
    PROVE  PieceAsked' /\ PieceLoading' /\ PieceOpen' /\ PieceTaken'
  <1>1. /\ TxLive /\ CalmLive /\ InHandler /\ Apart /\ Apart' /\ Inv /\ Firmware /\ UNCHANGED host
        /\ PieceLoading /\ (Unserved' => Unserved)
    BY AttachedStepIs
  <1>2. AtRx' /\ tx' = Head(todo).pkt /\ UNCHANGED <<pipe, epr, rx>>
    BY <1>1, PointSteps
  <1>3. NoEvent /\ TxStatus(epr) # VALID
    BY <1>1, CalmAt, ValidAt DEF Apart
  <1>4. PieceAsked' /\ PieceOpen' /\ PieceTaken'
    BY <1>1, <1>2, <1>3 DEF PieceAsked, PieceOpen, PieceTaken, Unserved, Apart, NoEvent, Pending
  <1>5. PieceLoading'
    <2>1. InStep(tx)'
      BY <1>1, <1>2, PieceSame DEF PieceLoading
    <2>2. QED
      BY <1>1, <1>2, <2>1 DEF PieceLoading, Apart
  <1>6. QED
    BY <1>4, <1>5

LEMMA PieceEnd ==
    ASSUME AttachedStep, AtEnd
    PROVE  PieceAsked' /\ PieceLoading' /\ PieceOpen' /\ PieceTaken'
  <1>1. /\ InHandler /\ ~istrReset /\ Apart' /\ Inv /\ Firmware /\ UNCHANGED host
        /\ PieceAsked /\ PieceOpen /\ PieceTaken /\ (Unserved' => Unserved)
    BY AttachedStepIs
  <1>2. /\ UNCHANGED <<pipe, epr, tx, rx>>
        /\ AtEnd' \/ (AtIn' /\ Pending(CTR_TX)) \/ AtSetup' \/ AtOut'
    BY <1>1, EndSteps
  <1>3. /\ stage' = stage /\ (Whole' <=> Whole)
        /\ InStep(tx) => InStep(tx)'
        /\ Ahead => Ahead'
    BY <1>1, <1>2, PieceSame
  <1>4. PieceAsked' /\ PieceOpen'
    BY <1>1, <1>2, <1>3 DEF PieceAsked, PieceOpen
  <1>5. PieceLoading' /\ PieceTaken'
    <2>1. (Pending(CTR_TX) \/ AtIn)' => Pending(CTR_TX)
      BY <1>1, <1>2 DEF Apart, Pending
    <2>2. QED
      BY <1>1, <1>2, <1>3, <2>1 DEF PieceLoading, PieceTaken, Apart
  <1>6. QED
    BY <1>4, <1>5

LEMMA PieceHandler ==
    ASSUME Asking, AttachedStep
    PROVE  PieceAsked' /\ PieceLoading' /\ PieceOpen' /\ PieceTaken'
  <1>1. Inv /\ InHandler /\ Firmware /\ ~istrReset
    BY AttachedStepIs
  <1>2. todo = <<>> => AtEnd
    BY <1>1, PointOps
  <1>3. ~DispatchReset
    BY <1>1 DEF DispatchReset
  <1>4. RegRead \/ RegWrite \/ AtLoad \/ todo \in {InCall, OutCall, SetupCall} \/ AtEnd
    BY <1>1, <1>2, <1>3, HandlerSteps
  <1>5. QED
    BY <1>4, PieceRead, PieceWrite, PieceLoad, PieceIn, PieceOut, PieceSetup, PieceEnd

(* A breakpoint is reached only with the transmitter closed. *)
LEMMA StopsClosed ==
    ASSUME Inv, Inv', TxInv', CalmInv, ~halted, Firmware, halted'
    PROVE  TxStatus(epr') # VALID
  <1>1. SetupComplete /\ stage = "Setup" /\ epr' = epr /\ todo # <<>> /\ Head(todo).op = "OnSetupTransferComplite"
    BY DEF Firmware, RegRead, RegWrite, WritePMA, InComplete, OutComplete, SetupComplete, DispatchIn,
           DispatchSetup, DispatchOut, DispatchReset, ApplyAddress, ResetMembers, EnableFunction, Running, Ready,
           hwVars, Ignore, stage
  <1>2. ~Cold /\ ~InReset
    <2>1. ~Cold
      BY <1>1 DEF Cold, Nothing
    <2>2. ~InReset
      BY <1>1, ResetHeads DEF InReset
    <2>3. QED
      BY <2>1, <2>2
  <1>3. CASE TxLive /\ CalmLive
    <2>1. InHandler
      BY <1>3 DEF TxLive, InHandler, AtIn
    <2>2. todo = SetupCall
      BY <1>1, <2>1, OpPoints
    <2>3. TxStatus(epr) = NAK
      BY <1>3, <2>2, CalmAt DEF AtSetup
    <2>4. QED
      BY <1>1, <2>3, StatusDistinct
  <1>4. CASE TxInterrupted
    <2>1. InHandler
      BY <1>4 DEF TxInterrupted, InHandler, AtIn
    <2>2. todo = SetupCall
      BY <1>1, <2>1, OpPoints
    <2>3. AtSetup /\ OnlySetup /\ ~AtIn /\ ~AtOut
      BY <2>2, SetupApart, PointsApart DEF AtSetup, Apart
    <2>4. TxStatus(epr) = DIS
      BY <1>1, <1>4, <2>3 DEF TxInterrupted, OnlySetup, AtIn
    <2>5. QED
      BY <1>1, <2>4, StatusDistinct
  <1>5. QED
    BY <1>2, <1>3, <1>4 DEF CalmInv

LEMMA PieceFirmware ==
    ASSUME Asking, Inv, Inv', TxInv', CalmInv, PieceInv, Firmware, UNCHANGED <<host, budget>>
    PROVE  PieceInv'
  <1>1. ~halted
    BY DEF Firmware, RegRead, RegWrite, WritePMA, InComplete, OutComplete, SetupComplete, DispatchIn,
           DispatchSetup, DispatchOut, DispatchReset, ApplyAddress, ResetMembers, EnableFunction, Running, Ready
  <1>2. ~Cold
    BY DEF Cold, Nothing, Firmware, RegRead, RegWrite, WritePMA, InComplete, OutComplete, SetupComplete,
           DispatchIn, DispatchSetup, DispatchOut, DispatchReset, ApplyAddress, ResetMembers, EnableFunction,
           Running, Pending, CTR_RX, CTR_TX
  <1>3. halted' => TxStatus(epr') # VALID
    BY <1>1, StopsClosed
  <1>4. Attached' => Attached
    BY <1>1, <1>2 DEF Attached
  <1>5. Attached' => PieceAsked' /\ PieceLoading' /\ PieceOpen' /\ PieceTaken'
    BY <1>4, PieceHandler DEF AttachedStep
  <1>6. QED
    BY <1>3, <1>5 DEF PieceInv

-----------------------------------------------------------------------------
(* The steps of the host. *)

LEMMA PieceStopped ==
    ASSUME Inv, halted, TxStatus(epr) # VALID, HostActs
    PROVE  halted' /\ TxStatus(epr') # VALID
  <1>1. CASE HostReset
    BY <1>1, HwResetFields, StatusDistinct DEF HostReset, pipeVars
  <1>2. CASE ~HostReset
    <2>1. epr' \in {epr, HwSetup(epr), HwOut(epr)}
      BY <1>2 DEF HostActs, Transaction, HostIn, InToken, HostSetup, HostAbort, SendSetup, HostInLostAck,
                  HostStalled, HostTimeout, HostStatusIn, HostStatusOut, hwVars
    <2>2. QED
      BY <1>2, <2>1, StageTyped, HwSetupFields, HwOutFields, StatusDistinct, HostFrame
  <1>3. QED
    BY <1>1, <1>2

\* What a step of the host leaves as it is when it neither resets nor sets up.
LEMMA PieceFrame ==
    ASSUME Inv, HostActs, ~HostReset, ~HostSetup, ~HostAbort
    PROVE  /\ UNCHANGED <<pipe, todo, halted, tx>> /\ rx' = rx
           /\ host.phase \in {"DataIN", "StatusIN", "StatusOUT"}
  <1>1. host \in Hosts
    BY InvParts DEF HostOK
  <1>2. host.phase \in {"DataIN", "StatusIN", "StatusOUT"}
    BY <1>1 DEF HostActs, Transaction, HostIn, HostStatusIn, HostStatusOut, HostInLostAck, HostStalled, HostTimeout,
                Free, Hosts, Phases
  <1>3. QED
    BY <1>2, HostFrame

LEMMA PieceNewTransfer ==
    ASSUME Calm, Inv, ~halted, HostSetup \/ HostAbort
    PROVE  PieceAsked' /\ PieceLoading' /\ PieceOpen' /\ PieceTaken' /\ ~halted'
  <1>1. HostSetup /\ todo = <<>> /\ NoEvent
    BY CalmSetup
  <1>2. PICK r \in Requests : SendSetup(r)
    BY <1>1 DEF HostSetup
  <1>3. /\ UNCHANGED <<pipe, todo, halted>> /\ epr' = HwSetup(epr) /\ rx' = r
        /\ host'.phase = FirstPhase(r) /\ host'.req = r /\ host'.got = 0 /\ host'.tog = DTOG_TX
    BY <1>2, InvParts DEF SendSetup, HostOK, Hosts, pipeVars
  <1>4. TxStatus(epr') # VALID /\ DTOG_TX \subseteq epr' /\ ~Pending(CTR_TX)'
    BY <1>1, <1>3, StageTyped, HwSetupFields, StatusDistinct DEF NoEvent, Pending, CTR_TX
  <1>5. ~AtLoad' /\ ~AtRx' /\ ~AtTx' /\ ~AtIn'
    BY <1>1, <1>3, PointOps, PointsSame
  <1>6. QED
    <2>1. PieceAsked'
      BY <1>3, <1>4 DEF PieceAsked, FirstPhase
    <2>2. PieceLoading' /\ PieceOpen' /\ PieceTaken' /\ ~halted'
      BY <1>3, <1>4, <1>5 DEF PieceLoading, PieceOpen, PieceTaken
    <2>3. QED
      BY <2>1, <2>2

\* A device the host has a transfer with.
AttachedHost == Inv /\ CalmInv /\ Attached /\ PieceInv /\ HostActs /\ ~HostReset /\ ~HostSetup /\ ~HostAbort

LEMMA AttachedHostIs ==
    ASSUME AttachedHost
    PROVE  /\ Inv /\ TxLive /\ CalmLive /\ Apart /\ PieceAsked /\ PieceOpen
           /\ UNCHANGED <<pipe, todo, halted, tx, rx>> /\ ~halted
           /\ TxStatus(epr) = VALID => /\ Sending /\ ~Pending(CTR_TX)
                                       /\ ~AtLoad /\ ~AtRx /\ ~AtTx /\ ~AtIn
  <1>1. TxLive /\ CalmLive /\ Apart
    BY AttachedIs, PointsApart DEF AttachedHost
  <1>2. ASSUME TxStatus(epr) = VALID
        PROVE  Sending /\ ~Pending(CTR_TX) /\ ~AtLoad /\ ~AtRx /\ ~AtTx /\ ~AtIn
    <2>1. Sending /\ (AtEnd \/ AtSetup \/ AtOut \/ AtUnkind \/ AtKind)
      BY <1>1, <1>2, ValidAt
    <2>2. ~AtLoad /\ ~AtRx /\ ~AtTx /\ ~AtIn
      BY <1>1, <2>1 DEF Apart
    <2>3. ~Pending(CTR_TX)
      BY <1>1, <1>2, <2>1, <2>2, StatusDistinct DEF TxLive, TxSettled, AtIn
    <2>4. QED
      BY <2>1, <2>2, <2>3
  <1>3. QED
    BY <1>1, <1>2, PieceFrame DEF AttachedHost, PieceInv, Attached

(* Where a data packet that the host has asked for leads. *)
LEMMA PacketStep ==
    ASSUME AttachedHost, HostIn \/ HostInLostAck
    PROVE  /\ TxStatus(epr) = VALID /\ host'.phase # "StatusIN"
           /\ host'.phase = "DataIN" => Whole' /\ host'.tog = DTOG_TX \ epr
           /\ Accepts => IsNextPiece /\ ~Ignored
  <1>1. /\ Inv /\ host.phase = "DataIN" /\ TxStatus(epr) = VALID /\ PieceOpen /\ UNCHANGED pipe /\ Sending
        /\ host' = IF Accepts THEN Received ELSE host
    BY AttachedHostIs DEF HostIn, HostInLostAck, InToken
  <1>2. CASE InStep(tx)
    <2>1. stage \in {"DataIN", "DataINLast"} /\ host.tog = epr \cap DTOG_TX /\ Data(host.got, tx)
      BY <1>1, <1>2 DEF InStep, Sending
    <2>2. host' = Received
      BY <1>1, <2>1 DEF Accepts
    <2>3. host'.tog = DTOG_TX \ epr
      BY <1>1, <2>1, <2>2, PacketArrives
    <2>4. /\ host'.phase # "StatusIN"
          /\ host'.phase = "DataIN" => Whole'
      BY <1>1, <2>1, <2>2, PacketArrives
    <2>5. IsNextPiece /\ ~Ignored
      BY <1>1, <2>1, DataIsNext DEF Data, Rest
    <2>6. QED
      BY <1>1, <2>3, <2>4, <2>5
  <1>3. CASE Ahead
    <2>1. ~Accepts
      BY <1>3 DEF Ahead, Accepts, DTOG_TX
    <2>2. host' = host
      BY <1>1, <2>1
    <2>3. stage' = stage /\ Want' = Want /\ Source' = Source /\ (Ignored' <=> Ignored)
      BY <1>1, <2>2 DEF stage, Want, Source, Ignored
    <2>4. Whole' <=> Whole
      BY <1>1, <2>2, <2>3 DEF Whole, Rest
    <2>5. QED
      BY <1>1, <1>3, <2>1, <2>2, <2>4 DEF Ahead
  <1>4. QED
    BY <1>1, <1>2, <1>3 DEF PieceOpen

LEMMA PieceDataIn ==
    ASSUME AttachedHost, HostIn \/ HostInLostAck
    PROVE  PieceAsked' /\ PieceLoading' /\ PieceOpen' /\ PieceTaken'
  <1>1. /\ TxStatus(epr) = VALID /\ host'.phase # "StatusIN"
        /\ host'.phase = "DataIN" => Whole' /\ host'.tog = DTOG_TX \ epr
    BY PacketStep
  <1>2. /\ UNCHANGED <<pipe, todo, tx>> /\ Sending /\ ~Pending(CTR_TX) /\ Inv
        /\ ~AtLoad /\ ~AtRx /\ ~AtTx /\ ~AtIn
    BY <1>1, AttachedHostIs
  <1>3. stage' # "Setup" /\ ~AtLoad' /\ ~AtRx' /\ ~AtTx' /\ ~AtIn'
    BY <1>2, PointsSame DEF Sending
  <1>4. PieceAsked' /\ PieceLoading'
    BY <1>3 DEF PieceAsked, PieceLoading
  <1>5. CASE HostIn
    <2>1. epr' = HwIn(epr)
      BY <1>5 DEF HostIn
    <2>2. TxStatus(epr') # VALID /\ epr' \cap DTOG_TX = DTOG_TX \ epr
      BY <1>2, <2>1, StageTyped, HwInFields, StatusDistinct
    <2>3. QED
      BY <1>1, <1>4, <2>2 DEF PieceOpen, PieceTaken
  <1>6. CASE HostInLostAck
    <2>1. epr' = epr
      BY <1>6 DEF HostInLostAck, hwVars
    <2>2. PieceTaken'
      BY <1>2, <1>3, <2>1 DEF PieceTaken, Pending
    <2>3. InStep(tx)' \/ Ahead'
      BY <1>1, <2>1 DEF InStep, Ahead
    <2>4. QED
      BY <1>4, <2>2, <2>3 DEF PieceOpen
  <1>7. QED
    BY <1>5, <1>6

(* The steps that end the transfer for the host. *)
LEMMA PieceLeft ==
    ASSUME AttachedHost, ~HostIn, ~HostInLostAck
    PROVE  PieceAsked' /\ PieceLoading' /\ PieceOpen' /\ PieceTaken'
  <1>1. /\ Inv /\ TxLive /\ CalmLive /\ PieceAsked /\ UNCHANGED <<pipe, todo>> /\ ~halted
        /\ TxStatus(epr) = VALID => Sending
    BY AttachedHostIs
  <1>2. host'.phase \in {"Idle", "Failed"}
    <2>1. host \in Hosts
      BY <1>1, InvParts DEF HostOK
    <2>2. HostStatusIn \/ HostStatusOut \/ HostStalled \/ HostTimeout
      BY DEF AttachedHost, HostActs, Transaction
    <2>3. QED
      BY <2>1, <2>2 DEF HostStatusIn, HostStatusOut, HostStalled, HostTimeout, Hosts
  <1>3. PieceLoading' /\ PieceOpen' /\ PieceTaken'
    BY <1>2 DEF PieceLoading, PieceOpen, PieceTaken, InStep
  <1>4. ASSUME Unserved', stage' = "Setup" PROVE FALSE
    <2>1. stage = "Setup" /\ (AtEnd' <=> AtEnd) /\ (AtSetup' <=> AtSetup)
      BY <1>1, <1>4, PointsSame DEF stage
    <2>2. CASE HostStatusIn
      BY <1>1, <2>1, <2>2 DEF HostStatusIn, InToken, Sending
    <2>3. CASE HostStatusOut
      <3>1. ~Unserved /\ ~AtSetup
        BY <1>1, <2>3, UnservedWaits, CalmAt DEF HostStatusOut, Shut
      <3>2. epr' = HwOut(epr) \/ epr' = epr
        BY <2>3 DEF HostStatusOut
      <3>3. epr' = HwOut(epr) => ~Pending(SETUP)'
        BY <1>1, StageTyped, HwOutFields DEF Pending, SETUP
      <3>4. QED
        BY <1>4, <2>1, <3>1, <3>2, <3>3 DEF Unserved, Pending
    <2>4. CASE HostStalled
      <3>1. Unserved
        BY <1>4, <2>1, <2>4 DEF HostStalled, hwVars, Unserved, Pending
      <3>2. TxStatus(epr) = NAK /\ host.phase \in {"DataIN", "StatusIN"}
        BY <1>1, <2>1, <3>1, UnservedWaits DEF PieceAsked, FirstPhase
      <3>3. QED
        BY <2>4, <3>2, StatusDistinct DEF HostStalled
    <2>5. CASE HostTimeout
      <3>1. todo = <<>> /\ ~Pending(CTR_RX) /\ epr' = epr
        BY <1>1, <2>5 DEF HostTimeout, Quiet, hwVars
      <3>2. QED
        BY <1>1, <1>4, <2>1, <3>1, PointOps DEF Unserved, Pending
    <2>6. QED
      BY <2>2, <2>3, <2>4, <2>5 DEF AttachedHost, HostActs, Transaction
  <1>5. QED
    BY <1>3, <1>4 DEF PieceAsked

LEMMA PieceHost ==
    ASSUME Asking, Inv, CalmInv, PieceInv, HostActs
    PROVE  PieceInv'
  <1>1. CASE halted
    BY <1>1, PieceStopped DEF PieceInv, Attached
  <1>2. CASE ~halted /\ HostReset
    <2>1. host'.phase = "Reset" /\ ~halted'
      BY <1>2, InvParts DEF HostReset, pipeVars, HostOK, Hosts
    <2>2. QED
      BY <2>1 DEF PieceInv, Attached
  <1>3. CASE ~halted /\ (HostSetup \/ HostAbort)
    BY <1>3, PieceNewTransfer DEF PieceInv, Asking
  <1>4. CASE ~halted /\ ~HostReset /\ ~HostSetup /\ ~HostAbort
    <2>1. Attached /\ ~halted'
      BY <1>4, PieceFrame DEF Attached, Cold
    <2>2. PieceAsked' /\ PieceLoading' /\ PieceOpen' /\ PieceTaken'
      BY <1>4, <2>1, PieceDataIn, PieceLeft DEF AttachedHost
    <2>3. QED
      BY <2>1, <2>2 DEF PieceInv
  <1>5. QED
    BY <1>1, <1>2, <1>3, <1>4

LEMMA PieceInvInit == Init => PieceInv
  <1>1. Init => Cold /\ ~halted
    BY DEF Init, PipeInit, NoTransfer, Cold, stage, Nothing
  <1>2. QED
    BY <1>1 DEF PieceInv, Attached

LEMMA PieceInvNext ==
    ASSUME Asking, Inv, Inv', TxInv', CalmInv, PieceInv, [Next]_vars
    PROVE  PieceInv'
  <1>1. CASE Firmware /\ UNCHANGED <<host, budget>>
    BY <1>1, PieceFirmware
  <1>2. CASE HostActs
    BY <1>2, PieceHost
  <1>3. CASE UNCHANGED vars
    <2>1. UNCHANGED <<pipe, todo, halted, epr, daddr, istrReset, tx, rx, host>>
      BY <1>3 DEF vars, pipeVars, hwVars
    <2>2. /\ stage' = stage /\ Want' = Want /\ Source' = Source /\ (Ignored' <=> Ignored)
          /\ (Unserved' <=> Unserved) /\ (Cold' <=> Cold)
      BY <2>1, PointsSame DEF stage, Want, Source, Ignored, Unserved, Cold, Pending
    <2>3. Whole' <=> Whole
      BY <2>1, <2>2 DEF Whole, Rest
    <2>4. \A n, pkt : Data(n, pkt)' <=> Data(n, pkt)
      BY <2>1, <2>2 DEF Data, Rest
    <2>5. /\ InStep(tx)' <=> InStep(tx)
          /\ InStep(Head(todo).pkt)' <=> InStep(Head(todo).pkt)
      BY <2>1, <2>2, <2>4 DEF InStep
    <2>6. (PieceAsked' <=> PieceAsked) /\ (PieceLoading' <=> PieceLoading) /\ (PieceTaken' <=> PieceTaken)
      BY <2>1, <2>2, <2>3, <2>5, PointsSame DEF PieceAsked, PieceLoading, PieceTaken, Pending
    <2>7. PieceOpen' <=> PieceOpen
      BY <2>1, <2>2, <2>3, <2>5, PointsSame DEF PieceOpen, Ahead
    <2>8. Attached' <=> Attached
      BY <2>1, <2>2 DEF Attached
    <2>9. QED
      BY <2>1, <2>6, <2>7, <2>8 DEF PieceInv
  <1>4. QED
    BY <1>1, <1>2, <1>3 DEF Next, HostActs

(* A host that takes a packet has a transfer with the device. *)
LEMMA PacketAttached ==
    ASSUME MaxAborts = 0, Inv, CalmInv, PieceInv, HostIn \/ HostInLostAck \/ HostStatusIn
    PROVE  AttachedHost
  <1>1. HostActs
    BY DEF HostActs, Transaction
  <1>2. TxStatus(epr) = VALID /\ host.phase \in {"DataIN", "StatusIN"}
    BY DEF HostIn, HostInLostAck, HostStatusIn, InToken
  <1>3. Attached
    BY <1>2 DEF Attached, Cold, PieceInv
  <1>4. ~HostReset /\ ~HostSetup /\ ~HostAbort
    <2>1. ~HostReset
      <3>1. host \in Hosts /\ budget.aborts \in 0 .. MaxAborts
        BY InvParts DEF HostOK
      <3>2. HostReset => host'.phase = "Reset"
        BY <3>1 DEF HostReset, Hosts
      <3>3. host'.phase # "Reset"
        BY <3>1 DEF HostIn, HostInLostAck, HostStatusIn, Hosts, Received
      <3>4. QED
        BY <3>2, <3>3
    <2>2. ~HostSetup /\ ~HostAbort
      BY <1>2, InvParts DEF HostSetup, HostAbort, Free, HostOK
    <2>3. QED
      BY <2>1, <2>2
  <1>5. QED
    BY <1>1, <1>3, <1>4 DEF AttachedHost

(* Whenever the host waits for data, the packet that is loaded or open for it is
   the one it waits for or the one it has just got, whose acknowledgement the
   device has missed: the toggles of the two sides tell which.  It holds with
   any number of lost handshakes and bus resets. *)
THEOREM PieceInvHolds ==
    ASSUME BackToBack = FALSE, MaxAborts = 0, \A r \in Requests : Answerable(r)
    PROVE  Spec => []PieceInv
  <1>1. Asking
    BY DEF Asking, Calm
  <1>2. Spec => [](Inv /\ TxInv /\ CalmInv)
    BY <1>1, InvInit, InvNext, TxInvHolds, CalmInvHolds, PTL DEF Spec, Asking, Calm
  <1>3. Inv /\ Inv' /\ TxInv' /\ CalmInv /\ PieceInv /\ [Next]_vars => PieceInv'
    BY <1>1, PieceInvNext
  <1>4. QED
    BY <1>2, <1>3, PieceInvInit, PTL DEF Spec

(* Every data packet the host takes is the next piece of the answer, also when
   handshakes get lost, and the packet of the status stage is empty. *)
THEOREM NextPieceSent ==
    ASSUME BackToBack = FALSE, MaxAborts = 0, \A r \in Requests : Answerable(r)
    PROVE  Spec => NextPiece
  <1> DEFINE Taking == /\ (HostIn \/ HostInLostAck) /\ Accepts => IsNextPiece
                       /\ HostStatusIn => tx.len = 0
  <1>1. ASSUME Inv, CalmInv, PieceInv PROVE Taking
    <2>1. HostIn \/ HostInLostAck \/ HostStatusIn => AttachedHost
      BY <1>1, PacketAttached
    <2>2. (HostIn \/ HostInLostAck) /\ Accepts => IsNextPiece
      BY <2>1, PacketStep
    <2>3. HostStatusIn => tx.len = 0
      <3>1. SUFFICES ASSUME HostStatusIn PROVE tx.len = 0
        OBVIOUS
      <3>2. QED
        BY <2>1, <3>1, AttachedHostIs DEF HostStatusIn, InToken, PieceOpen, InStep, Ahead
    <2>4. QED
      BY <2>2, <2>3
  <1>2. Spec => [](Inv /\ CalmInv /\ PieceInv)
    BY InvInit, InvNext, CalmInvHolds, PieceInvHolds, PTL DEF Spec
  <1>3. (Inv /\ CalmInv /\ PieceInv) /\ [Next]_vars => [Taking]_vars
    BY <1>1
  <1>4. QED
    BY <1>2, <1>3, PTL DEF Spec, NextPiece

-----------------------------------------------------------------------------
(* The abstract transfer.                                                  *)

(* How many packets w bytes make. *)
LEMMA PieceCount ==
    ASSUME NEW m \in {8, 16, 32, 64}, NEW w \in Nat
    PROVE  /\ (w + m - 1) \div m \in Nat
           /\ \A n \in Nat : /\ n < (w + m - 1) \div m <=> n * m < w
                             /\ n * m \in Nat /\ (n + 1) * m = n * m + m
  <1>1. CASE m = 8
    BY <1>1
  <1>2. CASE m = 16
    BY <1>2
  <1>3. CASE m = 32
    BY <1>3
  <1>4. CASE m = 64
    BY <1>4
  <1>5. QED
    BY <1>1, <1>2, <1>3, <1>4

(* A request the device knows, as host and pipe see it and as the promise does. *)
LEMMA RequestPromised ==
    ASSUME Inv, ~Ignored
    PROVE  /\ Promise!Known(host.req) /\ Promise!Length(host.req) = Want
           /\ Want \in Nat /\ host.req.wLength \in Nat /\ Want <= host.req.wLength
           /\ Promise!Pieces(host.req) \in Nat
           /\ \A n \in Nat : /\ n < Promise!Pieces(host.req) <=> n * MaxPacket < Want
                             /\ n * MaxPacket \in Nat /\ (n + 1) * MaxPacket = n * MaxPacket + MaxPacket
  <1>1. host.req \in Request /\ MaxPacket \in {8, 16, 32, 64}
    BY InvParts, PipeAssumption DEF HostOK, Hosts
  <1>2. Promise!Known(host.req) /\ Promise!Length(host.req) = Want
    <2>1. host.req.wLength \in Nat
      BY <1>1 DEF Request, uint16_t
    <2>2. Promise!Known(host.req)
      BY <2>1 DEF Ignored, Promise!Known
    <2>3. Promise!Length(host.req) = Want
      BY DEF Promise!Length, Want, Smaller
    <2>4. QED
      BY <2>2, <2>3
  <1>3. Want \in Nat /\ host.req.wLength \in Nat /\ Want <= host.req.wLength
    <2>1. host.req.wLength \in Nat
      BY <1>1 DEF Request, uint16_t
    <2>2. (IF host.req.kind = "GetDescriptor" THEN DescSize[host.req.desc] ELSE 2) \in Nat
      BY PipeAssumption DEF Ignored, uint16_t
    <2>3. QED
      BY <2>1, <2>2 DEF Want, Smaller
  <1>4. Promise!Pieces(host.req) = (Want + MaxPacket - 1) \div MaxPacket
    BY <1>2 DEF Promise!Pieces
  <1>5. QED
    BY <1>1, <1>2, <1>3, <1>4, PieceCount

(* A data packet the host accepts is a step of the abstract transfer. *)
LEMMA PacketPromised ==
    ASSUME Inv, AnswerInv, host.phase = "DataIN", ~Ignored, IsNextPiece, host' = Received
    PROVE  Promise!Data /\ AnswerInv'
  <1> DEFINE n == Len(host.data)
             r == host.req
             P == Promise!Pieces(r)
             M == MaxPacket
  <1>1. /\ host.data \in Seq(Packet) /\ n \in Nat /\ tx \in Packet /\ tx.len \in Nat
        /\ host.got \in Nat /\ M \in {8, 16, 32, 64}
    BY InvParts, PipeAssumption DEF HostOK, HwOK, Hosts, Packet
  <1>2. /\ Promise!Known(r) /\ Promise!Length(r) = Want
        /\ Want \in Nat /\ r.wLength \in Nat /\ Want <= r.wLength
        /\ P \in Nat
        /\ \A k \in Nat : (k < P <=> k * M < Want) /\ k * M \in Nat /\ (k + 1) * M = k * M + M
    BY RequestPromised
  <1> DEFINE n1 == n + 1
  <1>0. /\ n < P <=> n * M < Want
        /\ n1 < P <=> n1 * M < Want
        /\ n * M \in Nat /\ n1 * M = n * M + M /\ n1 \in Nat
    <2>1. n1 \in Nat
      BY <1>1
    <2> HIDE DEF n, n1
    <2>2. /\ n < P <=> n * M < Want
          /\ n1 < P <=> n1 * M < Want
          /\ n * M \in Nat /\ (n + 1) * M = n * M + M
      BY <1>1, <1>2, <2>1, Zenon
    <2>3. QED
      BY <2>1, <2>2 DEF n1
  <1>3. /\ n <= P /\ \A i \in 1 .. n : host.data[i] = Promise!Piece(r, i)
        /\ host.got = Smaller(n * M, Want)
    <2>1. CASE host.data = <<>> /\ host.got = 0
      BY <1>1, <1>2, <2>1 DEF Smaller
    <2>2. QED
      BY <2>1 DEF AnswerInv
  <1>4. /\ host'.req = r /\ host'.addr = host.addr
        /\ host'.data = IF tx.len = 0 THEN host.data ELSE Append(host.data, tx)
        /\ host'.got = host.got + tx.len
        /\ host'.phase = IF tx.len < M \/ host'.got >= r.wLength THEN "StatusOUT" ELSE "DataIN"
    BY InvParts DEF Received, HostOK, Hosts
  <1>5. Want' = Want /\ (Ignored' <=> Ignored)
    BY <1>4 DEF Want, Ignored
  <1>6. tx.len = Smaller(M, Want - host.got)
    BY DEF IsNextPiece
  <1>7. CASE tx.len = 0
    <2>1. n = P
      <3>1. host.got = Want
        BY <1>1, <1>2, <1>3, <1>6, <1>7 DEF Smaller
      <3>2. n * M \in Nat /\ ~(n * M < Want)
        BY <1>1, <1>2, <1>3, <3>1 DEF Smaller
      <3>3. QED
        BY <1>0, <1>1, <1>2, <1>3, <3>2
    <2>2. host.data = Promise!Answer(r)
      BY <1>1, <1>3, <2>1 DEF Promise!Answer
    <2>3. host'.phase = "StatusOUT" /\ host'.data = host.data
      BY <1>1, <1>4, <1>7
    <2>4. QED
      BY <1>2, <1>4, <2>2, <2>3 DEF Promise!Data, AnswerInv
  <1>8. CASE tx.len > 0
    <2>1. n * M < Want /\ host.got = n * M /\ n < P
      BY <1>1, <1>2, <1>3, <1>6, <1>8 DEF Smaller
    <2>2. tx = Promise!Piece(r, n + 1)
      <3>1. (n + 1) - 1 = n
        BY <1>1
      <3>2. tx.src = (IF r.kind = "GetDescriptor" THEN r.desc ELSE Stack) /\ tx.off = n * M
        BY <1>8, <2>1 DEF IsNextPiece
      <3>3. tx.len = IF M < Want - n * M THEN M ELSE Want - n * M
        BY <1>6, <2>1 DEF Smaller
      <3>4. QED
        BY <1>1, <1>2, <3>1, <3>2, <3>3 DEF Promise!Piece, Packet
    <2>3. /\ host'.data = Append(host.data, tx) /\ Len(host'.data) = n + 1 /\ n + 1 <= P
          /\ \A i \in 1 .. n + 1 : host'.data[i] = Promise!Piece(r, i)
      BY <1>1, <1>2, <1>3, <1>4, <1>8, <2>1, <2>2
    <2>4. ASSUME host'.phase # "DataIN"
          PROVE  host'.phase = "StatusOUT" /\ host'.data = Promise!Answer(r)
      <3>1. tx.len < M \/ host'.got >= r.wLength
        BY <1>4, <2>4
      <3>2. (n + 1) * M = host.got + M /\ M \in Nat
        BY <1>1, <1>2, <2>1
      <3>3. host.got + M >= Want
        BY <1>1, <1>2, <1>4, <1>6, <3>1, <3>2 DEF Smaller
      <3>4. n + 1 = P
        BY <1>0, <1>1, <1>2, <2>1, <3>2, <3>3
      <3>5. QED
        BY <1>1, <1>4, <2>3, <3>1, <3>4 DEF Promise!Answer
    <2>5. Promise!Data
      BY <1>2, <1>4, <2>1, <2>2, <2>3, <2>4 DEF Promise!Data
    <2>6. AnswerInv'
      <3>1. SUFFICES ASSUME host'.phase = "DataIN"
                     PROVE  host'.got = Smaller((n + 1) * M, Want)
        BY <1>4, <1>5, <2>3 DEF AnswerInv
      <3>2. (n + 1) * M = host.got + M /\ M \in Nat
        BY <1>1, <1>2, <2>1
      <3>3. tx.len = M /\ host.got + M <= Want
        BY <1>1, <1>2, <1>4, <1>6, <3>1, <3>2 DEF Smaller
      <3>4. QED
        BY <1>1, <1>2, <1>4, <3>2, <3>3 DEF Smaller
    <2>7. QED
      BY <2>5, <2>6
  <1>9. QED
    BY <1>1, <1>7, <1>8

(* Every step is one of the abstract transfer or leaves it alone. *)
LEMMA TransferStep ==
    ASSUME Asking, Inv, CalmInv, PieceInv, AnswerInv, [Next]_vars
    PROVE  [Promise!Next]_(Promise!transferVars) /\ AnswerInv'
  <1>1. host \in Hosts /\ MaxAborts = 0 /\ budget.aborts \in 0 .. MaxAborts
    BY InvParts DEF HostOK, Asking, Calm
  <1>2. ASSUME UNCHANGED host
        PROVE  UNCHANGED Promise!transferVars /\ AnswerInv'
    <2>1. Want' = Want /\ (Ignored' <=> Ignored)
      BY <1>2 DEF Want, Ignored
    <2>2. QED
      BY <1>2, <2>1 DEF AnswerInv, Promise!transferVars
  <1>3. CASE HostSetup
    <2>1. PICK r \in Requests : SendSetup(r)
      BY <1>3 DEF HostSetup
    <2>2. host' = [host EXCEPT !.phase = FirstPhase(r), !.req = r, !.got = 0, !.data = <<>>, !.tog = DTOG_TX]
      BY <2>1 DEF SendSetup
    <2>3. Promise!Begin(r)
      BY <1>1, <1>3, <2>2 DEF HostSetup, Free, Promise!Begin, Promise!Free, Promise!HasData, FirstPhase, Hosts
    <2>4. AnswerInv'
      BY <1>1, <2>2 DEF AnswerInv, Hosts
    <2>5. QED
      BY <2>3, <2>4 DEF Promise!Next
  <1>4. CASE HostIn \/ HostInLostAck
    <2>1. host.phase = "DataIN" /\ host' = IF Accepts THEN Received ELSE host
      BY <1>4 DEF HostIn, HostInLostAck
    <2>2. Accepts => IsNextPiece /\ ~Ignored
      BY <1>1, <1>4, PacketAttached, PacketStep
    <2>3. CASE Accepts
      BY <2>1, <2>2, <2>3, PacketPromised DEF Promise!Next
    <2>4. CASE ~Accepts
      BY <1>2, <2>1, <2>4
    <2>5. QED
      BY <2>3, <2>4
  <1>5. CASE HostStatusIn
    <2>1. PieceOpen /\ TxStatus(epr) = VALID /\ host.phase = "StatusIN"
      BY <1>1, <1>5, PacketAttached, AttachedHostIs DEF HostStatusIn, InToken
    <2>2. ~Ignored
      BY <2>1 DEF PieceOpen, InStep, Ahead
    <2>3. Promise!StatusIn
      BY <1>1, <1>5, <2>2, RequestPromised DEF HostStatusIn, Promise!StatusIn, Hosts
    <2>4. AnswerInv'
      BY <1>1, <1>5 DEF HostStatusIn, AnswerInv, Hosts
    <2>5. QED
      BY <2>3, <2>4 DEF Promise!Next
  <1>6. CASE HostStatusOut
    BY <1>1, <1>6 DEF HostStatusOut, AnswerInv, Hosts, Promise!Next, Promise!StatusOut
  <1>7. CASE HostStalled \/ HostTimeout
    <2>1. host.phase \in {"DataIN", "StatusIN", "StatusOUT"} /\ host' = [host EXCEPT !.phase = "Failed"]
      BY <1>1, <1>7 DEF HostStalled, HostTimeout, Free, Hosts, Phases
    <2>2. QED
      BY <1>1, <2>1 DEF AnswerInv, Hosts, Promise!Next, Promise!Fail, Promise!Free
  <1>8. CASE HostReset
    BY <1>1, <1>8 DEF HostReset, AnswerInv, Hosts, Promise!Next, Promise!Reset
  <1>9. ~HostAbort
    BY <1>1 DEF HostAbort
  <1>10. CASE Firmware /\ UNCHANGED <<host, budget>>
    BY <1>2, <1>10
  <1>11. CASE UNCHANGED vars
    BY <1>2, <1>11 DEF vars
  <1>12. QED
    BY <1>3, <1>4, <1>5, <1>6, <1>7, <1>8, <1>9, <1>10, <1>11 DEF Next, Transaction

LEMMA TransferInit == Init => Promise!Init /\ AnswerInv
  BY DEF Init, PipeInit, Promise!Init, AnswerInv

(* The control pipe keeps the promise of ControlTransfer to a host that aborts
   nothing and gives the handler its time: whatever handshakes and bus resets
   come in between, an answer arrives in order and whole before its status
   stage, and a request the device does not know is never answered. *)
THEOREM PipeKeepsPromise ==
    ASSUME BackToBack = FALSE, MaxAborts = 0, \A r \in Requests : Answerable(r)
    PROVE  Spec => TransferSpec
  <1>1. Asking
    BY DEF Asking, Calm
  <1>2. Spec => [](Inv /\ CalmInv /\ PieceInv)
    BY InvInit, InvNext, CalmInvHolds, PieceInvHolds, PTL DEF Spec
  <1>3. Inv /\ CalmInv /\ PieceInv /\ AnswerInv /\ [Next]_vars
            => [Promise!Next]_(Promise!transferVars) /\ AnswerInv'
    BY <1>1, TransferStep
  <1>4. QED
    BY <1>2, <1>3, TransferInit, PTL DEF Spec, TransferSpec, Promise!Spec

(* Where no handshake is lost and the host asks for what the pipe can serve, no
   transfer of a request the device knows fails. *)
THEOREM PipeReliable ==
    ASSUME BackToBack = FALSE, MaxAborts = 0, MaxResets <= 1, MaxLost = 0, \A r \in Requests : Servable(r)
    PROVE  Spec => ReliableTransferSpec
  <1>1. \A r \in Requests : Answerable(r)
    BY DEF Servable, Answerable
  <1>2. Spec => TransferSpec
    BY <1>1, PipeKeepsPromise
  <1>3. Spec => [](Inv /\ OnlyIgnoredFails)
    BY InvInit, InvNext, ServedSucceed, PTL DEF Spec
  <1>4. OnlyIgnoredFails' => (Promise!Fail => ~Promise!Known(host.req))
    <2>1. SUFFICES ASSUME OnlyIgnoredFails', Promise!Fail PROVE ~Promise!Known(host.req)
      OBVIOUS
    <2>2. host'.phase = "Failed" /\ host'.req = host.req
      BY <2>1 DEF Promise!Fail
    <2>3. Ignored
      BY <2>1, <2>2 DEF OnlyIgnoredFails, Ignored
    <2>4. QED
      BY <2>3 DEF Ignored, Promise!Known
  <1>5. QED
    BY <1>2, <1>3, <1>4, PTL DEF TransferSpec, ReliableTransferSpec, Promise!Spec, Promise!ReliableSpec

-----------------------------------------------------------------------------
(* What the handler of a bus reset repairs: RestoreInv.                    *)

ResetList == {Reset8, Reset7, Reset6, Reset5, Reset4, Reset3, Reset2, Reset1}

LEMMA ResetApart ==
    /\ Nothing \notin ResetList
    /\ Reset8 \notin {Reset7, Reset6, Reset5, Reset4, Reset3, Reset2, Reset1}
    /\ Reset7 \notin {Reset6, Reset5, Reset4, Reset3, Reset2, Reset1}
    /\ Reset6 \notin {Reset5, Reset4, Reset3, Reset2, Reset1}
    /\ Reset5 \notin {Reset4, Reset3, Reset2, Reset1}
    /\ Reset4 \notin {Reset3, Reset2, Reset1}
    /\ Reset3 \notin {Reset2, Reset1}
    /\ Reset2 # Reset1
  BY ResetLists, OpsTyped DEF ResetList, Begins, Status, Nothing

(* Its lists are no handler's of a transfer. *)
LEMMA ResetNotHandler == Inv /\ todo \in ResetList => ~InHandler
  <1> SUFFICES ASSUME Inv, todo \in ResetList, InHandler PROVE FALSE
    OBVIOUS
  <1>1. todo # <<>> /\ stage \in TransferStage
    BY ResetApart, StageTyped DEF Nothing
  <1>2. todo \in {Reset5, Reset3}
    BY <1>1, HandlerOps, ResetHeads DEF ResetList
  <1>3. CASE todo = Reset5
    <2>1. Head(todo).op = "SetTxStatus" /\ Head(Tail(todo)).op = "ClearRxDTOG"
      BY <1>3, ResetHeads, ResetLists DEF Begins
    <2>2. AtTx
      BY <1>1, <2>1, PointOps DEF InHandler, AtIn, AtSetup, AtOut
    <2>3. PICK rest \in Ends : Tail(todo) = KindLeft(stage, rest)
      BY <1>1, <2>2, PointTails
    <2>4. CASE stage = "StatusOUT"
      BY <1>1, <2>1, <2>3, <2>4, StageLists DEF Begins
    <2>5. CASE stage # "StatusOUT"
      <3>1. Tail(todo) \in {Nothing, Address}
        BY <1>1, <2>3, <2>5, StageLists DEF Ends
      <3>2. Tail(todo) = Reset4 /\ Reset4 # Nothing
        BY <1>3, ResetHeads, ResetApart DEF ResetList
      <3>3. Head(Address).op = "ApplyAddress"
        BY CallLists DEF Begins
      <3>4. QED
        BY <2>1, <3>1, <3>2, <3>3
    <2>6. QED
      BY <2>4, <2>5
  <1>4. CASE todo = Reset3
    <2>1. Head(todo).op = "SetRxStatus" /\ Head(Tail(todo)).op = "ResetMembers"
      BY <1>4, ResetHeads, ResetLists DEF Begins
    <2>2. AtRx
      BY <1>1, <2>1, PointOps DEF InHandler, AtIn, AtSetup, AtOut
    <2>3. PICK rest \in Ends : Tail(todo) = TxLeft(stage, rest)
      BY <1>1, <2>2, PointTails
    <2>4. Head(Tail(todo)) = SetTx(StageRegisters[stage][2])
      BY <1>1, <2>3, StageLists
    <2>5. Head(Tail(todo)).op = "SetTxStatus"
      BY <1>1, <2>4, StageOps
    <2>6. QED
      BY <2>1, <2>5
  <1>5. QED
    BY <1>2, <1>3, <1>4

(* The accessors leave the type of the endpoint alone but for SetType. *)
LEMMA TypeWritten ==
    ASSUME NEW o \in AccessorOp, NEW r \in Register, NEW now \in Register
    PROVE  After(o, r, now) \cap T_FIELD = IF o.op = "SetType" THEN CTRL ELSE r \cap T_FIELD
  <1> DEFINE v == Written(o, r)
  <1>1. v \cap T_FIELD = IF o.op = "SetType" THEN CTRL ELSE r \cap T_FIELD
    <2> USE StatusBits
        DEF CTRs, CTR_RX, CTR_TX, SETUP, T_FIELD, KIND, EA, DTOG_RX, DTOG_TX, EPTX_STAT, EPRX_STAT, USB_EPREG_MASK
    <2>1. CASE o.op = "SetRxStatus" /\ o.status \in Status /\ v = SetRxStatus(r, o.status)
      BY <2>1, StatusNames DEF SetRxStatus, Xor, USB_EPRX_DTOGMASK
    <2>2. CASE o.op = "SetTxStatus" /\ o.status \in Status /\ v = SetTxStatus(r, o.status)
      BY <2>2, StatusNames DEF SetTxStatus, Xor, USB_EPTX_DTOGMASK
    <2>3. CASE o.op \in {"SetStatusOut", "ClearStatusOut"} /\ v \in {SetStatusOut(r), ClearStatusOut(r)}
      BY <2>3 DEF SetStatusOut, ClearStatusOut, USB_EPKIND_MASK
    <2>4. CASE o.op \in {"ClearTxDTOG", "ClearRxDTOG"} /\ v \in {ClearTxDTOG(r), ClearRxDTOG(r)}
      BY <2>4 DEF ClearTxDTOG, ClearRxDTOG
    <2>5. CASE o.op \in {"ClearTxCTR", "ClearRxCTR"} /\ v \in {ClearTxCTR(r), ClearRxCTR(r)}
      BY <2>5 DEF ClearTxCTR, ClearRxCTR
    <2>6. CASE o.op = "SetAddress" /\ v = SetAddress(r, {})
      BY <2>6 DEF SetAddress
    <2>7. CASE o.op = "SetType" /\ v = SetType(r, CTRL)
      BY <2>7 DEF SetType, CTRL, USB_EP_T_MASK
    <2>8. QED
      BY <2>1, <2>2, <2>3, <2>4, <2>5, <2>6, <2>7, WrittenValue
  <1> HIDE DEF v
  <1>2. HwWrite(now, v) \cap T_FIELD = v \cap T_FIELD
    BY DEF HwWrite, Xor, CTR_RX, CTR_TX, SETUP, T_FIELD, KIND, EA, Toggles, DTOG_RX, DTOG_TX, EPTX_STAT, EPRX_STAT,
           TxBit, RxBit
  <1>3. After(o, r, now) = HwWrite(now, v)
    BY DEF After, v
  <1>4. QED
    BY <1>1, <1>2, <1>3

(* An endpoint toggle that is set is cleared. *)
LEMMA ToggleCleared ==
    ASSUME NEW r \in Register, DTOG_TX \subseteq r, NEW o \in AccessorOp, o.op = "ClearTxDTOG"
    PROVE  ~(DTOG_TX \subseteq After(o, r, r))
  <1>1. After(o, r, r) = HwWrite(r, ClearTxDTOG(r))
    BY WrittenValue DEF After
  <1>2. QED
    BY <1>1, StatusBits DEF HwWrite, ClearTxDTOG, Xor, CTRs, CTR_RX, CTR_TX, SETUP, T_FIELD, KIND, EA, Toggles,
       DTOG_RX, DTOG_TX, EPTX_STAT, EPRX_STAT, USB_EPREG_MASK

\* A step of that handler.
ResetStep == Inv /\ InReset /\ Restored /\ ~halted /\ Firmware

LEMMA ResetStepIs ==
    ASSUME ResetStep
    PROVE  /\ Inv /\ todo \in ResetList /\ todo # <<>> /\ Restored /\ latched \subseteq {epr} /\ epr \in Register
           /\ RegRead \/ RegWrite \/ ResetMembers \/ EnableFunction
           /\ RegRead \/ RegWrite => todo \notin {Reset2, Reset1} /\ Head(todo) \in AccessorOp
           /\ ResetMembers => todo = Reset2
           /\ EnableFunction => todo = Reset1
  <1>1. todo \in ResetList /\ latched \subseteq {epr} /\ epr \in Register /\ todo # <<>>
    BY StageTyped, ResetApart DEF ResetStep, InReset, ResetList, Nothing
  <1>2. Head(todo).op \in {"SetType", "SetAddress", "ClearTxDTOG", "SetTxStatus", "ClearRxDTOG", "SetRxStatus",
                           "ResetMembers", "EnableFunction"}
    BY <1>1, ResetHeads DEF ResetList
  <1>3. RegRead \/ RegWrite \/ ResetMembers \/ EnableFunction
    BY <1>1, <1>2 DEF ResetStep, Firmware, WritePMA, InComplete, OutComplete, SetupComplete, ApplyAddress, Running,
                      DispatchIn, DispatchSetup, DispatchOut, DispatchReset, Ready
  <1>4. \A o \in AccessorOp : o.op \notin {"ResetMembers", "EnableFunction"}
    BY DEF AccessorOp, PlainAccessors
  <1>5. RegRead \/ RegWrite => Head(todo) \in AccessorOp
    BY InvParts DEF ResetStep, RegRead, RegWrite, LatchOK
  <1>6. RegRead \/ RegWrite => todo \notin {Reset2, Reset1}
    BY <1>4, <1>5, ResetHeads
  <1>7. /\ ResetMembers => todo = Reset2
        /\ EnableFunction => todo = Reset1
    BY <1>1, ResetHeads DEF ResetMembers, EnableFunction, Running, ResetList
  <1>8. QED
    BY <1>1, <1>3, <1>5, <1>6, <1>7 DEF ResetStep

LEMMA RestoredRead ==
    ASSUME ResetStep, RegRead
    PROVE  Restored'
  <1>1. todo \in ResetList /\ Restored /\ UNCHANGED <<pipe, epr>>
    BY ResetStepIs DEF RegRead, hwVars
  <1>2. CASE todo' = todo /\ latched' = {epr} /\ Writes(Head(todo), epr)
    <2>1. todo = Reset6 => Pending(DTOG_TX)
      BY <1>2, ResetHeads DEF Writes, Pending
    <2>2. QED
      BY <1>1, <1>2, <2>1 DEF Restored, Pending
  <1>3. CASE todo' = Tail(todo) /\ latched' = latched /\ ~Writes(Head(todo), epr)
    <2>1. Head(todo).op \in {"ClearTxDTOG", "ClearRxDTOG"} /\ (Head(todo).op = "ClearTxDTOG" => ~Pending(DTOG_TX))
      BY <1>3 DEF Writes, Pending
    <2>2. \/ todo = Reset6 /\ todo' = Reset5 /\ ~Pending(DTOG_TX)
          \/ todo = Reset4 /\ todo' = Reset3
      BY <1>1, <1>3, <2>1, ResetHeads DEF ResetList
    <2>3. QED
      BY <1>1, <1>3, <2>2, ResetApart DEF Restored, Pending
  <1>4. QED
    BY <1>2, <1>3 DEF RegRead

LEMMA RestoredWrite ==
    ASSUME ResetStep, RegWrite
    PROVE  Restored'
  <1> DEFINE o == Head(todo)
  <1>1. /\ todo \in ResetList /\ todo \notin {Reset2, Reset1} /\ Restored /\ epr \in Register /\ o \in AccessorOp
        /\ latched = {epr}
    BY ResetStepIs DEF RegWrite
  <1>2. epr' = After(o, epr, epr) /\ todo' = Tail(todo) /\ latched' = {} /\ pipe' = pipe
    BY <1>1 DEF RegWrite, After
  <1>3. /\ o.op # "SetRxStatus" => epr' \cap EPRX_STAT = epr \cap EPRX_STAT
        /\ o.op # "ClearTxDTOG" => epr' \cap DTOG_TX = epr \cap DTOG_TX
        /\ epr' \cap T_FIELD = IF o.op = "SetType" THEN CTRL ELSE epr \cap T_FIELD
    BY <1>1, <1>2, AccessorFrame, TypeWritten
  <1>4. epr' \cap T_FIELD = CTRL
    <2>1. o.op = "SetType" \/ todo # Reset8
      BY <1>1, ResetHeads
    <2>2. QED
      BY <1>1, <1>3, <2>1 DEF Restored
  <1>5. CASE todo \in {Reset8, Reset7}
    <2>1. todo' \in {Reset7, Reset6}
      BY <1>2, <1>5, ResetHeads
    <2>2. QED
      BY <1>2, <1>4, <2>1, ResetApart DEF Restored
  <1>6. CASE todo = Reset6
    <2>1. todo' = Reset5 /\ o.op = "ClearTxDTOG" /\ Pending(DTOG_TX)
      BY <1>1, <1>2, <1>6, ResetHeads DEF Restored
    <2>2. ~Pending(DTOG_TX)'
      BY <1>1, <1>2, <2>1, ToggleCleared DEF Pending
    <2>3. QED
      BY <1>2, <1>4, <2>1, <2>2, ResetApart DEF Restored
  <1>7. CASE todo \in {Reset5, Reset4}
    <2>1. todo' \in {Reset4, Reset3} /\ o.op # "ClearTxDTOG"
      BY <1>2, <1>7, ResetHeads
    <2>2. ~Pending(DTOG_TX)'
      BY <1>1, <1>3, <1>7, <2>1 DEF Restored, Pending, DTOG_TX
    <2>3. QED
      BY <1>2, <1>4, <2>1, <2>2, ResetApart DEF Restored
  <1>8. CASE todo = Reset3
    <2>1. todo' = Reset2 /\ o = SetRx(VALID) /\ o.op = "SetRxStatus"
      BY <1>2, <1>8, ResetHeads
    <2>2. ~Pending(DTOG_TX)'
      BY <1>1, <1>3, <1>8, <2>1 DEF Restored, Pending, DTOG_TX
    <2>3. RxStatus(epr') = VALID
      <3>1. RxStatus(epr') = Xor(Xor(RxStatus(epr), VALID), RxStatus(epr))
        BY <1>1, <1>2, <2>1, StatusToggled DEF Status
      <3>2. QED
        BY <3>1, ToggledFrom
    <2>4. QED
      BY <1>2, <1>4, <2>1, <2>2, <2>3, ResetApart DEF Restored
  <1>9. QED
    BY <1>1, <1>5, <1>6, <1>7, <1>8 DEF ResetList

LEMMA RestoredFirmware ==
    ASSUME Inv, Inv', TxInv, RestoreInv, Firmware, UNCHANGED host
    PROVE  RestoreInv'
  <1> SUFFICES ASSUME ~halted', InReset' PROVE Restored'
    BY DEF RestoreInv
  <1>1. ~halted
    BY DEF Firmware, RegRead, RegWrite, WritePMA, InComplete, OutComplete, SetupComplete, DispatchIn,
           DispatchSetup, DispatchOut, DispatchReset, ApplyAddress, ResetMembers, EnableFunction, Running, Ready
  <1>2. CASE InReset
    <2>1. ResetStep
      BY <1>1, <1>2 DEF ResetStep, RestoreInv
    <2>2. CASE ResetMembers
      <3>1. /\ todo = Reset2 /\ todo' = Reset1 /\ pipe' = NoTransfer /\ epr' = epr /\ Restored
        BY <2>1, <2>2, ResetStepIs, ResetHeads DEF ResetMembers, hwVars
      <3>2. QED
        BY <3>1, ResetApart DEF Restored, Pending
    <2>3. CASE EnableFunction
      <3>1. todo' = Nothing
        BY <2>1, <2>3, ResetStepIs, ResetHeads DEF EnableFunction
      <3>2. QED
        BY <3>1, ResetApart DEF InReset, ResetList
    <2>4. QED
      BY <2>1, <2>2, <2>3, ResetStepIs, RestoredRead, RestoredWrite
  <1>3. CASE TxInterrupted
    <2>1. DispatchReset
      BY <1>3 DEF TxInterrupted, InReset, Firmware, RegRead, RegWrite, WritePMA, InComplete, OutComplete,
                  SetupComplete, DispatchIn, DispatchSetup, DispatchOut, ApplyAddress, ResetMembers,
                  EnableFunction, hwVars
    <2>2. todo' = Reset8
      BY <2>1, DispatchLists
    <2>3. QED
      BY <2>2, ResetApart DEF Restored
  <1>4. CASE TxLive \/ Cold
    <2>1. TxLive
      BY <1>4 DEF Cold, Nothing, Firmware, RegRead, RegWrite, WritePMA, InComplete, OutComplete, SetupComplete,
                  DispatchIn, DispatchSetup, DispatchOut, DispatchReset, ApplyAddress, ResetMembers, EnableFunction,
                  Running, Pending, CTR_RX, CTR_TX
    <2>2. TxLive'
      BY <2>1, TxStepLive
    <2>3. InHandler'
      BY <2>2 DEF TxLive, InHandler, AtIn
    <2>4. Inv' /\ (todo \in ResetList)' => ~InHandler'
      BY ResetNotHandler, PTL
    <2>5. QED
      BY <2>3, <2>4 DEF InReset, ResetList
  <1>5. QED
    BY <1>1, <1>2, <1>3, <1>4 DEF TxInv

LEMMA RestoredHost ==
    ASSUME Inv, Inv', TxInv, RestoreInv, HostActs
    PROVE  RestoreInv'
  <1> SUFFICES ASSUME ~halted', InReset' PROVE FALSE
    BY DEF RestoreInv
  <1>1. UNCHANGED <<todo, halted>>
    BY DEF HostActs, Transaction, HostSetup, HostAbort, SendSetup, HostIn, HostStatusIn, HostStatusOut,
           HostInLostAck, HostStalled, HostTimeout, HostReset, pipeVars
  <1>2. todo \in ResetList
    BY <1>1 DEF InReset, ResetList
  <1>3. ~InHandler /\ todo # Nothing
    BY <1>2, ResetNotHandler, ResetApart
  <1>4. InReset
    BY <1>1, <1>3 DEF TxInv, Cold, TxLive, TxInterrupted, InHandler, AtIn
  <1>5. QED
    BY <1>1, <1>4, SilentWhileReset DEF HostActs

LEMMA RestoreInvNext == Inv /\ Inv' /\ TxInv /\ RestoreInv /\ [Next]_vars => RestoreInv'
  <1> SUFFICES ASSUME Inv, Inv', TxInv, RestoreInv, [Next]_vars PROVE RestoreInv'
    OBVIOUS
  <1>1. CASE Firmware /\ UNCHANGED <<host, budget>>
    BY <1>1, RestoredFirmware
  <1>2. CASE HostActs
    BY <1>2, RestoredHost
  <1>3. CASE UNCHANGED vars
    <2>1. UNCHANGED <<pipe, todo, latched, halted, epr, istrReset, host>>
      BY <1>3 DEF vars, pipeVars, hwVars
    <2>2. QED
      BY <2>1 DEF RestoreInv, InReset, Restored, Pending, stage
  <1>4. QED
    BY <1>1, <1>2, <1>3 DEF Next, HostActs

(* Whatever it interrupts, the handler of a bus reset finds nothing disturbed
   that it has repaired. *)
THEOREM RestoreInvHolds == Spec => []RestoreInv
  <1>1. Init => RestoreInv
    BY ResetApart DEF Init, PipeInit, RestoreInv, InReset, ResetList, Nothing
  <1>2. QED
    BY <1>1, InvInit, InvNext, TxInvHolds, RestoreInvNext, PTL DEF Spec

(* When the handler of a bus reset enables the function, the pipe accepts the
   SETUP of the next enumeration.  Of KIND and g_devAddress, which Reset() does
   not touch, this says nothing: StatusStageLeft does. *)
THEOREM ResetReady == Spec => ResetRestores
  <1>1. ASSUME Inv, TxInv, RestoreInv, EnableFunction
        PROVE  PipeReady'
    <2>1. ~halted /\ todo # <<>> /\ Head(todo).op = "EnableFunction" /\ Firmware
      BY <1>1 DEF EnableFunction, Running, Firmware
    <2>2. InReset
      <3>1. ~InHandler /\ ~Cold
        BY <1>1, <2>1, HandlerOps DEF Cold, Nothing
      <3>2. QED
        BY <1>1, <2>1, <3>1 DEF TxInv, TxLive, TxInterrupted, InHandler, AtIn
    <2>3. ResetStep /\ todo = Reset1
      BY <1>1, <2>1, <2>2, ResetStepIs DEF ResetStep, RestoreInv
    <2>4. /\ epr \cap T_FIELD = CTRL /\ ~Pending(DTOG_TX) /\ RxStatus(epr) = VALID /\ pipe = NoTransfer
          /\ TxStatus(epr) = NAK
      BY <2>2, <2>3, ResetApart DEF ResetStep, Restored, InReset
    <2>5. todo' = <<>> /\ UNCHANGED <<epr, pipe>> /\ daddr' = [ef |-> TRUE, add |-> 0]
      BY <1>1, <2>3, ResetHeads DEF EnableFunction, Nothing
    <2>6. QED
      BY <2>4, <2>5 DEF PipeReady, Pending, DTOG_TX
  <1>2. Spec => [](Inv /\ TxInv /\ RestoreInv)
    BY InvInit, InvNext, TxInvHolds, RestoreInvHolds, PTL DEF Spec
  <1>3. QED
    BY <1>1, <1>2, PTL DEF Spec, ResetRestores
-----------------------------------------------------------------------------
(* What that handler does not repair: LeftInv.                             *)

\* KIND is set, or a running accessor has read it as set.
KindUp == \E r \in latched \cup {epr} : KIND \subseteq r

\* What a step of the firmware leaves of KIND, when it is no accessor that sets it.
LEMMA KindStep ==
    ASSUME Inv, RegRead \/ RegWrite, todo # <<>>, Head(todo).op # "SetStatusOut", KindUp'
    PROVE  KindUp /\ (RegWrite => Head(todo).op # "ClearStatusOut")
  <1>1. CASE RegRead
    <2>1. epr' = epr /\ (latched' = {epr} \/ latched' = latched)
      BY <1>1 DEF RegRead, hwVars
    <2>2. ~RegWrite
      BY <1>1 DEF RegRead, RegWrite
    <2>3. QED
      BY <2>1, <2>2 DEF KindUp
  <1>2. CASE RegWrite
    <2>1. PICK r \in latched : epr' = HwWrite(epr, Written(Head(todo), r))
      BY <1>2 DEF RegWrite
    <2>2. Head(todo) \in AccessorOp /\ r \in Register /\ epr \in Register
      BY <2>1, InvParts, StageTyped DEF LatchOK
    <2>3. epr' = After(Head(todo), r, epr) /\ latched' = {} /\ KIND \subseteq epr'
      BY <1>2, <2>1 DEF After, RegWrite, KindUp
    <2>4. Head(todo).op # "ClearStatusOut"
      BY <2>2, <2>3, KindWritten
    <2>5. epr' \cap KIND = r \cap KIND
      BY <2>2, <2>3, <2>4, AccessorFrame
    <2>6. QED
      BY <2>1, <2>3, <2>4, <2>5 DEF KindUp
  <1>3. QED
    BY <1>1, <1>2

LEMMA AccountedIs == Accounted <=> /\ KindUp => stage = "StatusOUT" \/ AtUnkind
                                   /\ g_devAddress # 0 => stage = "StatusIN" \/ Applies
  BY DEF Accounted, KindUp

(* The three calls keep the account: only OnOutTransferComplite leaves a status
   OUT stage, to clear KIND next, and only OnInTransferComplite a status IN
   stage, to apply the address at its end. *)
LEMMA AccountedCall ==
    ASSUME Inv, Accounted,
           \/ InComplete /\ todo = InCall
           \/ OutComplete /\ todo = OutCall
           \/ SetupComplete /\ todo = SetupCall
    PROVE  Accounted'
  <1>1. UNCHANGED <<latched, epr>> /\ (KindUp' <=> KindUp)
    BY DEF InComplete, OutComplete, SetupComplete, hwVars, KindUp
  <1>2. todo # <<>> /\ ~AtUnkind
    BY PointOps, CallLists DEF Begins
  <1>3. CASE InComplete /\ todo = InCall
    <2>1. Applies'
      BY <1>3, InCompleteApplies
    <2>2. stage = "StatusOUT" => stage' = "StatusOUT"
      BY <1>3 DEF InComplete, OnInTransferComplite, stage
    <2>3. QED
      BY <1>1, <1>2, <2>1, <2>2, AccountedIs DEF Accounted, KindUp
  <1>4. CASE OutComplete /\ todo = OutCall
    <2>1. ~Applies /\ g_devAddress' = g_devAddress
      BY <1>4, AppliesWhere, OutCompletePoints DEF AtOut
    <2>2. (stage = "StatusOUT" /\ AtUnkind') \/ stage' = stage
      BY <1>4, OutCompletePoints DEF stage
    <2>3. QED
      BY <1>1, <1>2, <2>1, <2>2, AccountedIs DEF Accounted, KindUp
  <1>5. CASE SetupComplete /\ todo = SetupCall
    <2>1. ~Applies
      BY <1>5, AppliesWhere DEF AtSetup
    <2>2. CASE stage # "Setup"
      <3>1. g_devAddress' = g_devAddress /\ stage' = stage
        BY <1>5, <2>2 DEF SetupComplete, Ignore, stage
      <3>2. QED
        BY <1>1, <1>2, <2>1, <3>1, AccountedIs DEF Accounted, KindUp
    <2>3. CASE stage = "Setup"
      <3>1. ~KindUp /\ g_devAddress = 0
        BY <1>2, <2>1, <2>3, AccountedIs
      <3>2. CASE g_devAddress' = g_devAddress
        BY <1>1, <3>1, <3>2 DEF Accounted, KindUp
      <3>3. CASE GoToStage(pipe, "StatusIN", <<Load(ZLP)>>, Tail(todo))
        <4>1. stage' = "StatusIN"
          BY <3>3, InvParts DEF GoToStage, stage, PipeOK, Pipes
        <4>2. QED
          BY <1>1, <3>1, <4>1 DEF Accounted, KindUp
      <3>4. QED
        BY <1>5, <3>2, <3>3 DEF SetupComplete, OnDeviceRequest, Ignore
    <2>4. QED
      BY <2>2, <2>3
  <1>6. QED
    BY <1>3, <1>4, <1>5

LEMMA AccountedStep ==
    ASSUME Inv, InHandler, Accounted, Firmware
    PROVE  Accounted'
  <1>1. todo \in Seq(Op)
    BY DEF Inv, TypeOK
  <1>2. CASE RegRead
    <2>1. UNCHANGED <<pipe, todo, g_devAddress, epr>> /\ latched' = {epr}
      BY <1>2, HandlerReads DEF hwVars
    <2>2. (AtUnkind' <=> AtUnkind) /\ stage' = stage /\ (Applies' <=> Applies)
      BY <2>1, PointsSame DEF Applies
    <2>3. QED
      BY <2>1, <2>2 DEF Accounted
  <1>3. CASE RegWrite
    <2>1. Head(todo) \in AccessorOp /\ todo # <<>> /\ todo' = Tail(todo) /\ stage' = stage
          /\ g_devAddress' = g_devAddress
      BY <1>3, HandlerWrites DEF Advanced, stage
    <2>2. Applies => Applies'
      BY <1>1, <2>1, AppliesStill DEF AccessorOp, PlainAccessors
    <2>3. KindUp' => stage = "StatusOUT"
      <3>1. CASE Head(todo).op = "SetStatusOut"
        BY <2>1, <3>1, PointOps DEF InHandler, AtIn, AtSetup, AtOut, AtKind
      <3>2. CASE Head(todo).op # "SetStatusOut"
        BY <1>3, <2>1, <3>2, KindStep, PointOps, AccountedIs
      <3>3. QED
        BY <3>1, <3>2
    <2>4. QED
      BY <2>1, <2>2, <2>3 DEF Accounted, KindUp
  <1>4. CASE \/ InComplete /\ todo = InCall
             \/ OutComplete /\ todo = OutCall
             \/ SetupComplete /\ todo = SetupCall
    BY <1>4, AccountedCall
  <1>5. CASE WritePMA /\ AtLoad
    <2>1. todo # <<>> /\ todo' = Tail(todo) /\ Head(todo).op = "WritePMA" /\ UNCHANGED <<pipe, g_devAddress, latched, epr>>
      BY <1>5 DEF WritePMA, Running
    <2>2. Applies => Applies'
      BY <1>1, <2>1, AppliesStill
    <2>3. stage' = stage /\ ~AtUnkind
      BY <2>1, PointOps DEF stage
    <2>4. QED
      BY <2>1, <2>2, <2>3 DEF Accounted
  <1>6. CASE ApplyAddress /\ todo = Address
    <2>1. g_devAddress' = 0 /\ UNCHANGED <<pipe, latched, epr>>
      BY <1>6 DEF ApplyAddress
    <2>2. stage' = stage /\ ~AtUnkind
      BY <1>6, <2>1, PointOps, CallLists DEF stage, Begins
    <2>3. QED
      BY <2>1, <2>2 DEF Accounted
  <1>7. CASE DispatchIn \/ DispatchSetup \/ DispatchOut \/ DispatchReset
    <2>1. todo = <<>> /\ UNCHANGED <<pipe, g_devAddress, latched, epr>>
      BY <1>7 DEF DispatchIn, DispatchSetup, DispatchOut, DispatchReset, Ready, hwVars
    <2>2. stage' = stage /\ ~AtUnkind /\ ~Applies
      BY <2>1, PointOps DEF stage, Applies
    <2>3. QED
      BY <2>1, <2>2 DEF Accounted
  <1>8. QED
    BY <1>2, <1>3, <1>4, <1>5, <1>6, <1>7, HandlerSteps

\* Nothing has been transferred before the handler of the first bus reset ends.
Untouched == /\ g_devAddress = 0 /\ ~KindUp /\ stage = "Setup" /\ NoEvent
             /\ todo \in {Nothing} \cup ResetList

LEMMA LeftIs ==
    LeftInv <=> /\ budget.resets = 0 => Cold /\ g_devAddress = 0
                /\ budget.resets = 1 /\ host.phase = "Reset" => Untouched
                /\ budget.resets = 1 \/ (budget.resets = 2 /\ Interrupted) => Accounted
  BY DEF LeftInv, Untouched, KindUp, ResetList

(* The accesses of the handler of a bus reset. *)
LEMMA ResetListSteps ==
    ASSUME Inv, todo \in ResetList, Firmware
    PROVE  /\ RegRead \/ RegWrite \/ ResetMembers \/ EnableFunction
           /\ todo # <<>> /\ (todo' = todo \/ todo' = Tail(todo))
           /\ Tail(todo) \in {Nothing} \cup ResetList
           /\ Head(todo).op \notin {"SetStatusOut", "ClearStatusOut", "ApplyAddress"}
           /\ g_devAddress' = g_devAddress
           /\ stage' = stage \/ stage' = "Setup"
  <1>1. /\ todo # <<>> /\ Tail(todo) \in {Nothing} \cup ResetList
        /\ Head(todo).op \in {"SetType", "SetAddress", "ClearTxDTOG", "SetTxStatus", "ClearRxDTOG", "SetRxStatus",
                              "ResetMembers", "EnableFunction"}
    BY ResetHeads, ResetApart DEF ResetList, Nothing
  <1>2. RegRead \/ RegWrite \/ ResetMembers \/ EnableFunction
    BY <1>1 DEF Firmware, WritePMA, InComplete, OutComplete, SetupComplete, ApplyAddress, Running,
                DispatchIn, DispatchSetup, DispatchOut, DispatchReset, Ready
  <1>3. g_devAddress' = g_devAddress /\ (todo' = todo \/ todo' = Tail(todo))
    BY <1>2 DEF RegRead, RegWrite, ResetMembers, EnableFunction
  <1>4. stage' = stage \/ stage' = "Setup"
    BY <1>2 DEF RegRead, RegWrite, ResetMembers, EnableFunction, NoTransfer, stage
  <1>5. QED
    BY <1>1, <1>2, <1>3, <1>4

LEMMA KindInReset ==
    ASSUME Inv, todo \in ResetList, Firmware
    PROVE  KindUp' => KindUp
  <1>1. CASE RegRead \/ RegWrite
    BY <1>1, ResetListSteps, KindStep
  <1>2. CASE ResetMembers \/ EnableFunction
    BY <1>2 DEF ResetMembers, EnableFunction, hwVars, KindUp
  <1>3. QED
    BY <1>1, <1>2, ResetListSteps

LEMMA UntouchedStep ==
    ASSUME Inv, Untouched, Firmware, UNCHANGED host
    PROVE  Untouched'
  <1>1. NoEvent'
    <2>1. CASE RegWrite
      <3>1. PICK r \in latched : epr' = HwWrite(epr, Written(Head(todo), r))
        BY <2>1 DEF RegWrite
      <3>2. Head(todo) \in AccessorOp /\ r \in Register /\ epr \in Register
        BY <3>1, InvParts, StageTyped DEF LatchOK
      <3>3. epr' \cap CTRs \subseteq epr
        BY <3>1, <3>2, AccessorEvents DEF After
      <3>4. QED
        BY <3>3 DEF Untouched, NoEvent, Pending, CTRs, CTR_RX, CTR_TX
    <2>2. CASE ~RegWrite
      <3>1. epr' = epr
        BY <2>2 DEF Firmware, RegRead, WritePMA, InComplete, OutComplete, SetupComplete, DispatchIn, DispatchSetup,
           DispatchOut, DispatchReset, ApplyAddress, ResetMembers, EnableFunction, hwVars
      <3>2. QED
        BY <3>1 DEF Untouched, NoEvent, Pending
    <2>3. QED
      BY <2>1, <2>2
  <1>2. CASE todo \in ResetList
    BY <1>1, <1>2, ResetListSteps, KindInReset DEF Untouched
  <1>3. CASE todo = Nothing
    <2>1. DispatchReset
      BY <1>3 DEF Untouched, NoEvent, Nothing, Firmware, RegRead, RegWrite, WritePMA, InComplete, OutComplete,
                  SetupComplete, DispatchIn, DispatchSetup, DispatchOut, ApplyAddress, ResetMembers, EnableFunction,
                  Running
    <2>2. todo' = Reset8 /\ UNCHANGED <<pipe, g_devAddress, latched, epr>>
      BY <2>1, DispatchLists DEF DispatchReset
    <2>3. QED
      BY <1>1, <2>2 DEF Untouched, KindUp, stage, ResetList
  <1>4. QED
    BY <1>2, <1>3 DEF Untouched

(* Only a bus reset brings the pipe to where its handler has yet to clear the
   members, and up to there that handler leaves the account as it is. *)
LEMMA InterruptedStep ==
    ASSUME Inv, Inv', TxInv, ~halted, ~Cold, Firmware, UNCHANGED host, Interrupted'
    PROVE  Interrupted /\ (Accounted => Accounted')
  <1>1. host.phase = "Reset" /\ (istrReset' => istrReset)
    BY DEF Interrupted, Firmware, RegRead, RegWrite, WritePMA, InComplete, OutComplete, SetupComplete, DispatchIn,
           DispatchSetup, DispatchOut, DispatchReset, ApplyAddress, ResetMembers, EnableFunction, hwVars
  <1>2. CASE TxInterrupted
    <2>1. InHandler /\ istrReset
      BY <1>2 DEF TxInterrupted, InHandler, AtIn
    <2>2. QED
      BY <1>1, <2>1, AccountedStep DEF Interrupted
  <1>3. CASE InReset
    <2>1. todo \in ResetList /\ ~istrReset'
      BY <1>1, <1>3 DEF InReset, ResetList
    <2>2. todo' \in ResetList \ {Reset1}
      BY <2>1, ResetApart DEF Interrupted, ResetList
    <2>3. todo \notin {Reset2, Reset1} \/ todo' = todo
      BY <2>1, <2>2, ResetListSteps, ResetHeads, ResetApart DEF ResetList
    <2>4. todo # Reset1 /\ ~ResetMembers /\ ~EnableFunction
      <3>1. todo # Reset1
        BY <2>2, <2>3
      <3>2. ASSUME ResetMembers \/ EnableFunction PROVE FALSE
        <4>1. todo = Reset2 \/ todo = Reset1
          BY <2>1, <3>2, ResetHeads DEF ResetMembers, EnableFunction, Running, ResetList
        <4>2. todo' = Tail(todo)
          BY <3>2 DEF ResetMembers, EnableFunction
        <4>3. QED
          BY <2>2, <3>1, <4>1, <4>2, ResetHeads
      <3>3. QED
        BY <3>1, <3>2
    <2>5. Interrupted
      BY <1>1, <2>1, <2>4 DEF Interrupted, ResetList
    <2>6. ASSUME Accounted PROVE Accounted'
      <3>1. stage' = stage /\ g_devAddress' = g_devAddress /\ ~AtUnkind
        BY <2>1, <2>4, ResetListSteps, ResetNotHandler DEF RegRead, RegWrite, stage, InHandler
      <3>2. Applies => Applies'
        <4>1. todo \in Seq(Op)
          BY DEF Inv, TypeOK
        <4>2. CASE todo' = todo
          BY <4>2 DEF Applies
        <4>3. CASE todo' = Tail(todo)
          BY <2>1, <4>1, <4>3, ResetListSteps, AppliesStill
        <4>4. QED
          BY <2>1, <4>2, <4>3, ResetListSteps
      <3>3. KindUp' => stage = "StatusOUT"
        BY <2>1, <2>6, <3>1, KindInReset, AccountedIs
      <3>4. QED
        BY <2>6, <3>1, <3>2, <3>3 DEF Accounted, KindUp
    <2>7. QED
      BY <2>5, <2>6
  <1>4. CASE TxLive
    <2>1. ~istrReset' /\ todo' \in ResetList
      BY <1>1, <1>4 DEF TxLive, Interrupted, ResetList
    <2>2. CASE TxLive'
      <3>1. InHandler'
        BY <2>2 DEF TxLive, InHandler, AtIn
      <3>2. Inv' /\ (todo \in ResetList)' => ~InHandler'
        BY ResetNotHandler, PTL
      <3>3. QED
        BY <2>1, <3>1, <3>2 DEF ResetList
    <2>3. CASE halted'
      <3>1. todo' = <<>>
        BY <2>3 DEF Firmware, RegRead, RegWrite, WritePMA, InComplete, OutComplete, SetupComplete, OnDeviceRequest,
                    Breakpoint, Ignore, DispatchIn, DispatchSetup, DispatchOut, DispatchReset, ApplyAddress,
                    ResetMembers, EnableFunction
      <3>2. QED
        BY <2>1, <3>1, ResetApart DEF Nothing
    <2>4. QED
      BY <1>4, <2>2, <2>3, TxStepLive
  <1>5. QED
    BY <1>2, <1>3, <1>4 DEF TxInv

LEMMA LeftFirmware ==
    ASSUME Inv, Inv', TxInv, LeftInv, Firmware, UNCHANGED <<host, budget>>
    PROVE  LeftInv'
  <1>1. ~halted /\ ~Cold
    BY DEF Cold, Nothing, Firmware, RegRead, RegWrite, WritePMA, InComplete, OutComplete, SetupComplete,
           DispatchIn, DispatchSetup, DispatchOut, DispatchReset, ApplyAddress, ResetMembers, EnableFunction,
           Running, Ready, Pending, CTR_RX, CTR_TX
  <1>2. budget'.resets = budget.resets /\ budget.resets # 0 /\ host' = host
    BY <1>1, LeftIs
  <1>3. CASE budget.resets = 1 /\ host.phase = "Reset"
    <2>1. Untouched'
      BY <1>2, <1>3, LeftIs, UntouchedStep
    <2>2. Accounted'
      BY <2>1 DEF Untouched, Accounted, KindUp
    <2>3. QED
      BY <1>2, <1>3, <2>1, <2>2 DEF LeftInv, Untouched, KindUp, ResetList
  <1>4. CASE budget.resets = 1 /\ host.phase # "Reset"
    <2>1. InHandler
      BY <1>1, <1>4 DEF TxInv, TxLive, TxInterrupted, InReset, InHandler, AtIn
    <2>2. Accounted'
      BY <1>4, <2>1, LeftIs, AccountedStep
    <2>3. QED
      BY <1>2, <1>4, <2>2 DEF LeftInv
  <1>5. CASE budget.resets = 2
    <2>1. Interrupted' => Accounted'
      BY <1>1, <1>5, LeftIs, InterruptedStep
    <2>2. QED
      BY <1>2, <1>5, <2>1 DEF LeftInv
  <1>6. CASE budget.resets \notin {0, 1, 2}
    BY <1>2, <1>6 DEF LeftInv
  <1>7. QED
    BY <1>2, <1>3, <1>4, <1>5, <1>6

LEMMA LeftReset ==
    ASSUME Inv, LeftInv, HostReset
    PROVE  LeftInv'
  <1>1. budget.resets \in Nat /\ budget'.resets = budget.resets + 1
    <2>1. budget \in [resets : 0 .. MaxResets, aborts : 0 .. MaxAborts, lost : 0 .. MaxLost]
      BY InvParts DEF HostOK
    <2>2. MaxResets \in Nat
      BY BusAssumption
    <2>3. QED
      BY <2>1, <2>2 DEF HostReset
  <1>2. UNCHANGED <<pipe, g_devAddress, todo, latched>> /\ epr' = HwReset(epr) /\ stage' = stage
    BY DEF HostReset, pipeVars, stage
  <1>3. KIND \cap epr' = {} /\ ~(KIND \subseteq epr')
    BY <1>2, HwResetFields DEF KIND
  <1>4. CASE budget.resets = 0
    <2>1. Cold /\ g_devAddress = 0
      BY <1>4, LeftIs
    <2>2. latched = {} /\ todo = Nothing /\ stage = "Setup" /\ epr = {}
      BY <2>1, InvParts DEF Cold, LatchOK, Nothing
    <2>3. NoEvent'
      BY <1>2, <2>2 DEF NoEvent, Pending, HwReset, CTR_RX, CTR_TX
    <2>4. Untouched'
      BY <1>2, <1>3, <2>1, <2>2, <2>3 DEF Untouched, KindUp
    <2>5. Accounted'
      BY <2>4 DEF Untouched, Accounted, KindUp
    <2>6. QED
      BY <1>1, <1>4, <2>4, <2>5 DEF LeftInv, Untouched, KindUp, ResetList
  <1>5. CASE budget.resets = 1
    <2>1. Accounted
      BY <1>5, LeftIs
    <2>2. (AtUnkind' <=> AtUnkind) /\ (Applies' <=> Applies)
      BY <1>2, PointsSame DEF Applies
    <2>3. Accounted'
      BY <1>2, <1>3, <2>1, <2>2 DEF Accounted
    <2>4. QED
      BY <1>1, <1>5, <2>3 DEF LeftInv
  <1>6. CASE budget.resets \notin {0, 1}
    BY <1>1, <1>6 DEF LeftInv
  <1>7. QED
    BY <1>4, <1>5, <1>6

LEMMA LeftHost ==
    ASSUME Inv, LeftInv, HostActs, ~HostReset
    PROVE  LeftInv'
  <1>1. /\ UNCHANGED <<pipe, g_devAddress, todo, latched>> /\ budget'.resets = budget.resets
        /\ epr' \in {epr, HwSetup(epr), HwIn(epr), HwOut(epr)} /\ host'.phase # "Reset"
    BY HostFrame
  <1>2. ~Cold
    BY DEF Cold, HostActs, HostSetup, HostAbort, SendSetup, AcceptsSetup, Transaction, HostIn, HostStatusIn,
           HostStatusOut, HostInLostAck, HostStalled, HostTimeout, Free, Reached
  <1>3. epr' \cap KIND = epr \cap KIND
    BY <1>1, StageTyped, HwSetupFields, HwInFields, HwOutFields
  <1>4. Accounted => Accounted'
    <2>1. (AtUnkind' <=> AtUnkind) /\ (Applies' <=> Applies) /\ stage' = stage
      BY <1>1, PointsSame DEF Applies
    <2>2. QED
      BY <1>1, <1>3, <2>1 DEF Accounted, KIND
  <1>5. QED
    BY <1>1, <1>2, <1>4 DEF LeftInv, Interrupted

LEMMA LeftInvNext == Inv /\ Inv' /\ TxInv /\ LeftInv /\ [Next]_vars => LeftInv'
  <1> SUFFICES ASSUME Inv, Inv', TxInv, LeftInv, [Next]_vars PROVE LeftInv'
    OBVIOUS
  <1>1. CASE Firmware /\ UNCHANGED <<host, budget>>
    BY <1>1, LeftFirmware
  <1>2. CASE HostActs
    BY <1>2, LeftReset, LeftHost
  <1>3. CASE UNCHANGED vars
    <2>1. UNCHANGED <<pipe, g_devAddress, todo, latched, halted, epr, daddr, istrReset, host, budget>>
      BY <1>3 DEF vars, pipeVars, hwVars
    <2>2. (AtUnkind' <=> AtUnkind) /\ (Applies' <=> Applies) /\ stage' = stage /\ (Cold' <=> Cold)
      BY <2>1, PointsSame DEF Applies, Cold
    <2>3. QED
      BY <2>1, <2>2 DEF LeftInv, Accounted, Interrupted, NoEvent, Pending
  <1>4. QED
    BY <1>1, <1>2, <1>3 DEF Next, HostActs

(* Up to the handler of the second bus reset, KIND and g_devAddress are accounted
   for: by the stage, or by what the running handler has still to do. *)
THEOREM LeftInvHolds == Spec => []LeftInv
  <1>1. Init => LeftInv
    BY DEF Init, PipeInit, NoTransfer, LeftInv, Cold, stage, Nothing
  <1>2. QED
    BY <1>1, InvInit, InvNext, TxInvHolds, LeftInvNext, PTL DEF Spec

(* What Reset() finds in KIND and g_devAddress, and leaves there, is of the
   status stage that the first bus reset after enumeration has cut off. *)
THEOREM StatusStageLeft == Spec => OnlyStatusStageLeft
  <1>1. ASSUME Inv, TxInv, LeftInv, ResetMembers, budget.resets <= 2
        PROVE  /\ Pending(KIND) => stage = "StatusOUT"
               /\ g_devAddress # 0 => stage = "StatusIN"
    <2>1. ~halted /\ todo # <<>> /\ Head(todo).op = "ResetMembers"
      BY <1>1 DEF ResetMembers, Running
    <2>2. ~InHandler /\ ~Cold
      BY <1>1, <2>1, HandlerOps DEF Cold, Nothing
    <2>3. InReset
      BY <1>1, <2>1, <2>2 DEF TxInv, TxLive, TxInterrupted, InHandler, AtIn
    <2>4. todo = Reset2
      BY <2>1, <2>3, ResetHeads DEF InReset
    <2>5. Accounted
      <3>1. Interrupted
        BY <2>3, <2>4 DEF InReset, Interrupted
      <3>2. budget.resets \in {0, 1, 2}
        <4>1. budget \in [resets : 0 .. MaxResets, aborts : 0 .. MaxAborts, lost : 0 .. MaxLost]
          BY <1>1, InvParts DEF HostOK
        <4>2. budget.resets \in Nat
          BY <4>1, BusAssumption
        <4>3. QED
          BY <1>1, <4>2
      <3>3. QED
        BY <1>1, <2>2, <3>1, <3>2, LeftIs
    <2>6. ~AtUnkind
      BY <2>2 DEF InHandler
    <2>7. ~Applies
      <3>1. Do("ResetMembers") \in Op /\ Do("EnableFunction") \in Op
        BY OpsTyped DEF Calls
      <3>2. Reset1[Len(Reset1)] = Do("EnableFunction") /\ Reset1 \in Seq(Op) /\ Reset1 # <<>>
        BY <3>1, LastOfThen, NothingTyped, ResetLists DEF Reset1, Begins
      <3>3. Reset2[Len(Reset2)] = Do("EnableFunction")
        BY <3>1, <3>2, LastOfThen DEF Reset2
      <3>4. QED
        BY <2>4, <3>3 DEF Applies, Do
    <2>8. QED
      BY <2>5, <2>6, <2>7 DEF Accounted, Pending
  <1>2. Spec => [](Inv /\ TxInv /\ LeftInv)
    BY InvInit, InvNext, TxInvHolds, LeftInvHolds, PTL DEF Spec
  <1>3. QED
    BY <1>1, <1>2, PTL DEF Spec, OnlyStatusStageLeft, stage
=============================================================================
