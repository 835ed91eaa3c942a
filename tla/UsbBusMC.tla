------------------------------- MODULE UsbBusMC -------------------------------
(* Instances of UsbBus for TLC: the requests a host sends during enumeration. *)
EXTENDS UsbBusInvariants

Get(desc, wLength) == [kind |-> "GetDescriptor", desc |-> desc, wLength |-> wLength, addr |-> 0]
\* desc is of no meaning in the other requests.
GetStatus == [kind |-> "GetStatus", desc |-> Unknown, wLength |-> 2, addr |-> 0]
SetAddr(a) == [kind |-> "SetAddress", desc |-> Unknown, wLength |-> 0, addr |-> a]
Unsupported == [kind |-> "Unsupported", desc |-> Unknown, wLength |-> 0, addr |-> 0]

\* g_deviceDescriptor and the longest string descriptor: 2 + 2 * 21 bytes.
RealSizes == [device |-> 18, string |-> 44]
\* A descriptor that fills whole packets of 8 bytes, so that a ZLP ends it.
SmallSizes == [device |-> 18, string |-> 24]

EnumerationRequests ==
    {Get("device", 64), Get("device", 8), Get("string", 255), Get(Unknown, 255),
     Get("device", 0), GetStatus, SetAddr(5), SetAddr(9), Unsupported}
SmallRequests == {Get("device", 18), Get("device", 255), Get("device", 9), Get("string", 255), GetStatus, Unsupported}
ResetRequests == {Get("device", 18), Get("device", 9), Get("string", 255), Get(NoReturn, 64), SetAddr(5), Unsupported}
StaleRequests == {Get("device", 64), SetAddr(5)}
FirstEight == {Get("device", 8)}
Lens == {0, 5, 16}
NoLens == {}
=============================================================================
