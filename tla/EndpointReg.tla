----------------------------- MODULE EndpointReg -----------------------------
(***************************************************************************)
(* The USB endpoint register EPnR of the STM32F103 and the accessors of    *)
(* class EndPointReg (usbHwRegs.hpp).                                      *)
(*                                                                         *)
(* A register value is the set of the names of its bits that are 1, so     *)
(* that C's &, | and ^ are \cap, \cup and Xor.  The register is no memory: *)
(* two of its bits can only be cleared, six can only be toggled, one is    *)
(* read-only.  HwWrite says what the peripheral does with a written value; *)
(* every accessor is "the value written, given the value read".            *)
(***************************************************************************)
EXTENDS Naturals

CTR_RX == {"CTR_RX"}
CTR_TX == {"CTR_TX"}
SETUP  == {"SETUP"}
KIND   == {"KIND"}

\* The two bits of a STAT field; USB_EPxX_DTOG1 is the low one.
RxBit(i) == IF i = 1 THEN "STAT_RX1" ELSE "STAT_RX2"
TxBit(i) == IF i = 1 THEN "STAT_TX1" ELSE "STAT_TX2"
EPRX_STAT == {RxBit(1), RxBit(2)}
EPTX_STAT == {TxBit(1), TxBit(2)}
DTOG_RX == {"DTOG_RX"}
DTOG_TX == {"DTOG_TX"}
T_FIELD == {"TYPE1", "TYPE2"}
EA == {"EA0", "EA1", "EA2", "EA3"}

Toggles == DTOG_RX \cup DTOG_TX \cup EPRX_STAT \cup EPTX_STAT
USB_EPREG_MASK == CTR_RX \cup SETUP \cup T_FIELD \cup KIND \cup CTR_TX \cup EA
Bits == USB_EPREG_MASK \cup Toggles
Register == SUBSET Bits

USB_EPTX_DTOGMASK == EPTX_STAT \cup USB_EPREG_MASK
USB_EPRX_DTOGMASK == EPRX_STAT \cup USB_EPREG_MASK
USB_EP_T_MASK == USB_EPREG_MASK \ T_FIELD
USB_EPKIND_MASK == USB_EPREG_MASK \ KIND

Xor(a, b) == (a \ b) \cup (b \ a)

\* EpTxStatus and EpRxStatus: the numbers of the STAT bits that are 1.
DIS == {}
STALL == {1}
NAK == {2}
VALID == {1, 2}
Status == {DIS, STALL, NAK, VALID}

TxStatus(r) == {i \in {1, 2} : TxBit(i) \in r}
RxStatus(r) == {i \in {1, 2} : RxBit(i) \in r}

\* EpType: BULK is no bit, CTRL the low one.
CTRL == {"TYPE1"}
INTR == {"TYPE1", "TYPE2"}

-----------------------------------------------------------------------------
(* The peripheral (external): what a write of v makes of the register.     *)

HwWrite(old, v) ==
    (old \cap v \cap (CTR_RX \cup CTR_TX))          \* rc_w0: cleared by 0
        \cup (old \cap SETUP)                       \* read-only
        \cup (v \cap (T_FIELD \cup KIND \cup EA))   \* read-write
        \cup Xor(old \cap Toggles, v \cap Toggles)  \* toggled by 1

-----------------------------------------------------------------------------
(* The accessors: the value each one writes after it has read r.           *)

CTRs == CTR_RX \cup CTR_TX

ClearTxDTOG(r) == CTRs \cup DTOG_TX \cup (r \cap USB_EPREG_MASK)
ClearRxDTOG(r) == CTRs \cup DTOG_RX \cup (r \cap USB_EPREG_MASK)

\* Faulty variant of SetTxStatus: writes the CTR bits back as they were read.
SetTxStatusStaleCTR(r, status) ==
    Xor(r \cap USB_EPTX_DTOGMASK, {TxBit(i) : i \in status})

SetTxStatus(r, status) ==
    Xor(r \cap USB_EPTX_DTOGMASK, {TxBit(i) : i \in status}) \cup CTRs
SetRxStatus(r, status) ==
    Xor(r \cap USB_EPRX_DTOGMASK, {RxBit(i) : i \in status}) \cup CTRs

SetAddress(r, addr) == CTRs \cup (r \cap USB_EPREG_MASK) \cup addr
SetType(r, type) == (r \cap USB_EP_T_MASK) \cup type

ClearTxCTR(r) == r \cap (USB_EPREG_MASK \ CTR_TX)
ClearRxCTR(r) == r \cap (USB_EPREG_MASK \ CTR_RX)

SetStatusOut(r) == CTRs \cup ((r \cup KIND) \cap USB_EPREG_MASK)
ClearStatusOut(r) == CTRs \cup (r \cap USB_EPKIND_MASK)

-----------------------------------------------------------------------------
(* PacketBufTableCountRxReg: the size of the reception buffer is written   *)
(* as a number of blocks of 2 or of 32 bytes (BL_SIZE, bit 15), in a field *)
(* of five bits; with blocks of 32 the field holds the number less one.    *)

BL_SIZE == 32768

SetMaxSize(size) ==
    IF size > 62
    THEN LET blocksCnt == (size \div 32) - (IF size % 32 = 0 THEN 1 ELSE 0)
             field == (blocksCnt * 1024) % 65536
         IN  IF field < BL_SIZE THEN field + BL_SIZE ELSE field
    ELSE LET blocksCnt == (size \div 2) + (size % 2)
         IN  (blocksCnt * 1024) % 65536

\* (external) The bytes the peripheral accepts for such a register value.
BufferCapacity(countRx) ==
    LET blocks == (countRx \div 1024) % 32
    IN  IF countRx \div BL_SIZE = 1 THEN 32 * (blocks + 1) ELSE 2 * blocks
=============================================================================
