-------------------------- MODULE EndpointReg_proofs --------------------------
(***************************************************************************)
(* What the accessors of EndPointReg do to the register, for every value   *)
(* r they read, and for every value now that the peripheral has made of    *)
(* the register when the accessor writes.                                  *)
(***************************************************************************)
EXTENDS EndpointReg, TLAPS

(* Whatever is written, the result is a register value: SetAddress and SetType,
   which mask nothing of their argument, included. *)
LEMMA HwWriteClosed ==
    ASSUME NEW old \in Register, NEW v
    PROVE  HwWrite(old, v) \in Register
  BY DEF Register, HwWrite, Bits, USB_EPREG_MASK, CTR_RX, CTR_TX, SETUP, T_FIELD,
         KIND, EA, Toggles, Xor

(* The names of the four status bits. *)
LEMMA StatusBits ==
    /\ TxBit(1) = "STAT_TX1" /\ TxBit(2) = "STAT_TX2"
    /\ RxBit(1) = "STAT_RX1" /\ RxBit(2) = "STAT_RX2"
  BY DEF TxBit, RxBit

(* SetTxStatus arrives at the status it is given exactly if the peripheral has
   left the status alone since the read (usbHwRegs.hpp:139-148): toggling bits
   needs no lock against the software, but none helps against the hardware. *)
THEOREM SetTxStatusExact ==
    ASSUME NEW r \in Register, NEW now \in Register, NEW s \in Status
    PROVE  TxStatus(HwWrite(now, SetTxStatus(r, s))) = s <=> TxStatus(now) = TxStatus(r)
  <1> DEFINE w == HwWrite(now, SetTxStatus(r, s))
  <1>1. \A i \in {1, 2} : TxBit(i) \in SetTxStatus(r, s)
                             <=> ~((TxBit(i) \in r) <=> (i \in s))
    BY StatusBits
       DEF Status, DIS, STALL, NAK, VALID, EPTX_STAT, SetTxStatus, Xor, CTRs,
           USB_EPTX_DTOGMASK, USB_EPREG_MASK, CTR_RX, CTR_TX, SETUP, T_FIELD, KIND, EA
  <1>2. \A i \in {1, 2} : TxBit(i) \in w
                             <=> ~((TxBit(i) \in now) <=> (TxBit(i) \in SetTxStatus(r, s)))
    BY StatusBits
       DEF EPTX_STAT, HwWrite, Xor, CTR_RX, CTR_TX, SETUP, T_FIELD, KIND, EA,
           Toggles, DTOG_RX, DTOG_TX, EPRX_STAT
  <1>3. TxStatus(w) = s <=> \A i \in {1, 2} : TxBit(i) \in w <=> i \in s
    BY DEF TxStatus, Status, DIS, STALL, NAK, VALID
  <1>4. TxStatus(now) = TxStatus(r) <=> \A i \in {1, 2} : TxBit(i) \in now <=> TxBit(i) \in r
    BY DEF TxStatus
  <1>5. QED
    BY <1>1, <1>2, <1>3, <1>4

(* The same of SetRxStatus (usbHwRegs.hpp:150-159). *)
THEOREM SetRxStatusExact ==
    ASSUME NEW r \in Register, NEW now \in Register, NEW s \in Status
    PROVE  RxStatus(HwWrite(now, SetRxStatus(r, s))) = s <=> RxStatus(now) = RxStatus(r)
  <1> DEFINE w == HwWrite(now, SetRxStatus(r, s))
  <1>1. \A i \in {1, 2} : RxBit(i) \in SetRxStatus(r, s)
                             <=> ~((RxBit(i) \in r) <=> (i \in s))
    BY StatusBits
       DEF Status, DIS, STALL, NAK, VALID, EPRX_STAT, SetRxStatus, Xor, CTRs,
           USB_EPRX_DTOGMASK, USB_EPREG_MASK, CTR_RX, CTR_TX, SETUP, T_FIELD, KIND, EA
  <1>2. \A i \in {1, 2} : RxBit(i) \in w
                             <=> ~((RxBit(i) \in now) <=> (RxBit(i) \in SetRxStatus(r, s)))
    BY StatusBits
       DEF EPRX_STAT, HwWrite, Xor, CTR_RX, CTR_TX, SETUP, T_FIELD, KIND, EA,
           Toggles, DTOG_RX, DTOG_TX, EPTX_STAT
  <1>3. RxStatus(w) = s <=> \A i \in {1, 2} : RxBit(i) \in w <=> i \in s
    BY DEF RxStatus, Status, DIS, STALL, NAK, VALID
  <1>4. RxStatus(now) = RxStatus(r) <=> \A i \in {1, 2} : RxBit(i) \in now <=> RxBit(i) \in r
    BY DEF RxStatus
  <1>5. QED
    BY <1>1, <1>2, <1>3, <1>4

(* The status accessors disturb no other field, and not the status of the other
   direction, although they write the whole register: TYPE, KIND and EA must not
   have changed since the read, and only software changes them. *)
THEOREM StatusAccessorsFrame ==
    ASSUME NEW r \in Register, NEW now \in Register, NEW s \in Status,
           r \cap (T_FIELD \cup KIND \cup EA) = now \cap (T_FIELD \cup KIND \cup EA)
    PROVE  /\ HwWrite(now, SetTxStatus(r, s)) \ EPTX_STAT = now \ EPTX_STAT
           /\ HwWrite(now, SetRxStatus(r, s)) \ EPRX_STAT = now \ EPRX_STAT
  <1>1. /\ {TxBit(i) : i \in s} \subseteq EPTX_STAT
        /\ {RxBit(i) : i \in s} \subseteq EPRX_STAT
    BY DEF Status, DIS, STALL, NAK, VALID, EPTX_STAT, EPRX_STAT
  <1> USE StatusBits
      DEF HwWrite, Xor, CTRs, Register, Bits, USB_EPREG_MASK, CTR_RX, CTR_TX, SETUP,
          T_FIELD, KIND, EA, Toggles, DTOG_RX, DTOG_TX, EPTX_STAT, EPRX_STAT
  <1>2. HwWrite(now, SetTxStatus(r, s)) \ EPTX_STAT = now \ EPTX_STAT
    BY <1>1 DEF SetTxStatus, USB_EPTX_DTOGMASK
  <1>3. HwWrite(now, SetRxStatus(r, s)) \ EPRX_STAT = now \ EPRX_STAT
    BY <1>1 DEF SetRxStatus, USB_EPRX_DTOGMASK
  <1>4. QED
    BY <1>2, <1>3

(* The notices of a transfer that completes between the read and the write of an
   accessor, for every one of the ten (usbHwRegs.hpp:126-187).  Seven write 1 to
   both CTR bits, which keeps them; three do not.  ClearTxCTR and ClearRxCTR write
   the other CTR bit back as they read it, and SetType both of them: a notice that
   came since the read is lost. *)
THEOREM EventsSurvive ==
    ASSUME NEW r \in Register, NEW now \in Register, NEW s, NEW addr, NEW type \in SUBSET T_FIELD
    PROVE  /\ \A v \in {SetTxStatus(r, s), SetRxStatus(r, s), SetStatusOut(r), ClearStatusOut(r),
                        ClearTxDTOG(r), ClearRxDTOG(r), SetAddress(r, addr)} :
                  HwWrite(now, v) \cap CTRs = now \cap CTRs
           /\ HwWrite(now, ClearTxCTR(r)) \cap CTRs = now \cap r \cap CTR_RX
           /\ HwWrite(now, ClearRxCTR(r)) \cap CTRs = now \cap r \cap CTR_TX
           /\ HwWrite(now, SetType(r, type)) \cap CTRs = now \cap r \cap CTRs
  <1> USE DEF HwWrite, CTRs, CTR_RX, CTR_TX, SETUP, T_FIELD, KIND, EA, Toggles, Xor,
              DTOG_RX, DTOG_TX, EPTX_STAT, EPRX_STAT, TxBit, RxBit
  <1>1. ASSUME NEW v \in {SetTxStatus(r, s), SetRxStatus(r, s), SetStatusOut(r), ClearStatusOut(r),
                          ClearTxDTOG(r), ClearRxDTOG(r), SetAddress(r, addr)}
        PROVE  HwWrite(now, v) \cap CTRs = now \cap CTRs
    <2>1. CTRs \subseteq v
      BY DEF SetTxStatus, SetRxStatus, SetStatusOut, ClearStatusOut, ClearTxDTOG,
             ClearRxDTOG, SetAddress
    <2>2. QED
      BY <2>1
  <1>2. /\ HwWrite(now, ClearTxCTR(r)) \cap CTRs = now \cap r \cap CTR_RX
        /\ HwWrite(now, ClearRxCTR(r)) \cap CTRs = now \cap r \cap CTR_TX
    BY DEF ClearTxCTR, ClearRxCTR, USB_EPREG_MASK
  <1>3. HwWrite(now, SetType(r, type)) \cap CTRs = now \cap r \cap CTRs
    <2>1. type \subseteq {"TYPE1", "TYPE2"}
      OBVIOUS
    <2>2. SetType(r, type) \cap CTRs = r \cap CTRs
      BY <2>1 DEF SetType, USB_EP_T_MASK, USB_EPREG_MASK
    <2>3. QED
      BY <2>2
  <1>4. QED
    BY <1>1, <1>2, <1>3

(* ClearTxDTOG and ClearRxDTOG, called only with the bit set, clear the toggle
   of their direction and leave the one of the other. *)
THEOREM ClearDTOGExact ==
    ASSUME NEW r \in Register
    PROVE  /\ DTOG_TX \subseteq r => HwWrite(r, ClearTxDTOG(r)) = r \ DTOG_TX
           /\ DTOG_RX \subseteq r => HwWrite(r, ClearRxDTOG(r)) = r \ DTOG_RX
  <1> USE StatusBits
      DEF HwWrite, Xor, CTRs, Register, Bits, USB_EPREG_MASK, CTR_RX, CTR_TX, SETUP,
          T_FIELD, KIND, EA, Toggles, DTOG_RX, DTOG_TX, EPTX_STAT, EPRX_STAT
  <1>1. ASSUME DTOG_TX \subseteq r PROVE HwWrite(r, ClearTxDTOG(r)) = r \ DTOG_TX
    BY <1>1 DEF ClearTxDTOG
  <1>2. ASSUME DTOG_RX \subseteq r PROVE HwWrite(r, ClearRxDTOG(r)) = r \ DTOG_RX
    BY <1>2 DEF ClearRxDTOG
  <1>3. QED
    BY <1>1, <1>2

(* The reception buffer announced to the peripheral holds the packets it is to
   hold, and exceeds them by less than one block: SetMaxSize for every size the
   field can express (usbHwRegs.hpp:26-41). *)
THEOREM SetMaxSizeCapacity ==
    ASSUME NEW size \in 1 .. 1024
    PROVE  /\ BufferCapacity(SetMaxSize(size)) >= size
           /\ BufferCapacity(SetMaxSize(size)) < size + (IF size > 62 THEN 32 ELSE 2)
  <1>1. CASE size > 62
    <2> DEFINE n == (size \div 32) - (IF size % 32 = 0 THEN 1 ELSE 0)
    <2>1. n \in 1 .. 31 /\ 32 * n < size /\ size <= 32 * n + 32
      BY <1>1
    <2>2. SetMaxSize(size) = n * 1024 + 32768
      BY <1>1, <2>1 DEF SetMaxSize, BL_SIZE
    <2>3. BufferCapacity(n * 1024 + 32768) = 32 * (n + 1)
      BY <2>1 DEF BufferCapacity, BL_SIZE
    <2>4. QED
      BY <1>1, <2>1, <2>2, <2>3
  <1>2. CASE ~(size > 62)
    <2> DEFINE n == (size \div 2) + (size % 2)
    <2>1. n \in 1 .. 31 /\ size <= 2 * n /\ 2 * n < size + 2
      BY <1>2
    <2>2. SetMaxSize(size) = n * 1024
      BY <1>2, <2>1 DEF SetMaxSize
    <2>3. BufferCapacity(n * 1024) = 2 * n
      BY <2>1 DEF BufferCapacity, BL_SIZE
    <2>4. QED
      BY <1>2, <2>1, <2>2, <2>3
  <1>3. QED
    BY <1>1, <1>2
=============================================================================
