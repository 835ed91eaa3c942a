----------------------------- MODULE ControlTransfer -----------------------------
(***************************************************************************)
(* What the default control pipe promises a host: a transfer with a data   *)
(* stage hands over the answer to its request, piece by piece and whole,   *)
(* before its status stage; an address is given by the status stage of the *)
(* request that carries it; a request the device does not know never gets  *)
(* an answer.                                                              *)
(***************************************************************************)
EXTENDS Integers, Sequences

CONSTANTS MaxPacket, DescSize, Requests,
          Stack   \* where the two bytes of a device status are

VARIABLES phase,   \* where the host is in the transfer
          addr,    \* the address it has given the device
          req,     \* its request
          data     \* the packets with data it has received

transferVars == <<phase, addr, req, data>>

Free == phase \in {"Reset", "Idle", "Failed"}

\* Requests the device serves.
Known(r) ==
    /\ r.kind # "Unsupported"
    /\ r.kind = "GetDescriptor" => r.desc \in DOMAIN DescSize /\ r.wLength > 0

HasData(r) == r.kind \in {"GetDescriptor", "GetStatus"} /\ r.wLength > 0

\* The bytes a known request asks for that exist.
Length(r) ==
    LET size == IF r.kind = "GetDescriptor" THEN DescSize[r.desc] ELSE 2
    IN  IF r.wLength < size THEN r.wLength ELSE size

\* They come in full packets, but for the last.
Pieces(r) == (Length(r) + MaxPacket - 1) \div MaxPacket
Piece(r, i) ==
    LET off == (i - 1) * MaxPacket
        left == Length(r) - off
    IN  [src |-> IF r.kind = "GetDescriptor" THEN r.desc ELSE Stack,
         off |-> off,
         len |-> IF MaxPacket < left THEN MaxPacket ELSE left]
Answer(r) == [i \in 1 .. Pieces(r) |-> Piece(r, i)]

-----------------------------------------------------------------------------

Begin(r) ==
    /\ Free
    /\ phase' = IF HasData(r) THEN "DataIN" ELSE "StatusIN"
    /\ req' = r
    /\ data' = <<>>
    /\ UNCHANGED addr

\* The next packet of the answer, or an empty one behind the last; the host goes
\* on to the status stage only when it has the whole answer.
Data ==
    /\ phase = "DataIN" /\ Known(req)
    /\ \/ /\ Len(data) < Pieces(req)
          /\ data' = Append(data, Piece(req, Len(data) + 1))
       \/ data = Answer(req) /\ UNCHANGED data
    /\ UNCHANGED phase \/ (phase' = "StatusOUT" /\ data' = Answer(req))
    /\ UNCHANGED <<addr, req>>

StatusIn ==
    /\ phase = "StatusIN" /\ Known(req)
    /\ phase' = "Idle"
    /\ addr' = IF req.kind = "SetAddress" THEN req.addr ELSE addr
    /\ UNCHANGED <<req, data>>

StatusOut ==
    /\ phase = "StatusOUT"
    /\ phase' = "Idle"
    /\ UNCHANGED <<addr, req, data>>

Fail ==
    /\ ~Free
    /\ phase' = "Failed"
    /\ UNCHANGED <<addr, req, data>>

Reset ==
    /\ phase' = "Reset" /\ addr' = 0
    /\ UNCHANGED <<req, data>>

Init == phase = "Idle" /\ addr = 0 /\ req \in Requests /\ data = <<>>

Next == (\E r \in Requests : Begin(r)) \/ Data \/ StatusIn \/ StatusOut \/ Fail \/ Reset

Spec == Init /\ [][Next]_transferVars

\* The same, and no transfer of a known request fails.
ReliableSpec == Spec /\ [][Fail => ~Known(req)]_transferVars
=============================================================================
