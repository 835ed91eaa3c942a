------------------------------- MODULE RingBuffer -------------------------------
(***************************************************************************)
(* usr::ring_buffer (usrlib.h), the store behind the channels of scmRTOS.  *)
(* The byte-wide TCbuf (usrlib.cpp) is the same code for one item type,    *)
(* without the operations at the other end; empty, it gives a 0, which no  *)
(* caller sees.                                                            *)
(*                                                                         *)
(* A buffer is a record of the members.  Count, First and Last are of the  *)
(* type S, uint8_t by default, and wrap at SMod; Size is a uint16_t.       *)
(***************************************************************************)
EXTENDS Integers, Sequences

CONSTANTS Size, SMod, Items

\* The channel works for every size that S can count to.
ASSUME RingAssumption == /\ SMod \in Nat /\ Size \in Nat
                         /\ 0 < Size /\ Size < SMod
                         /\ Items # {}

S == 0 .. (SMod - 1)
Slots == 0 .. (Size - 1)
Buffers == [Count : S, First : S, Last : S, Buf : [Slots -> Items]]

Inc(n) == (n + 1) % SMod
Dec(n) == (n - 1) % SMod

\* Faulty variant of Next1: passes the end of Buf.
Next1Late(n) == IF n = Size THEN 0 ELSE Inc(n)

\* Last and First after a step towards the end of Buf, and towards its beginning.
Next1(n) == IF Inc(n) = Size THEN 0 ELSE Inc(n)
Prev1(n) == IF n = 0 THEN (Size - 1) % SMod ELSE Dec(n)

\* The slot that n steps from the beginning of Buf lead to, for n < 2 * Size.
Slot(n) == IF n < Size THEN n ELSE n - Size

get_count(b) == b.Count
get_free_size(b) == (Size - b.Count) % SMod

-----------------------------------------------------------------------------
(* For internal purposes: without a check of the free size or the count.   *)

push_item(b, x) == [b EXCEPT !.Buf[b.Last] = x, !.Last = Next1(@), !.Count = Inc(@)]

push_item_front(b, x) ==
    LET first == Prev1(b.First)
    IN  [b EXCEPT !.First = first, !.Buf[first] = x, !.Count = Inc(@)]

pop_item(b) == [b EXCEPT !.Count = Dec(@), !.First = Next1(@)]
pop_item_back(b) == [b EXCEPT !.Count = Dec(@), !.Last = Prev1(@)]

-----------------------------------------------------------------------------
push_back(b, x) == IF b.Count = Size THEN b ELSE push_item(b, x)
push_front(b, x) == IF b.Count = Size THEN b ELSE push_item_front(b, x)

\* pop_front() and pop_back() return the item at First if the buffer is empty.
\* BackItemLast, a faulty variant, reads before it moves Last.
FrontItem(b) == b.Buf[b.First]
BackItemLast(b) == b.Buf[b.Last]
BackItem(b) == IF b.Count # 0 THEN b.Buf[Prev1(b.Last)] ELSE b.Buf[b.First]
pop_front(b) == IF b.Count # 0 THEN pop_item(b) ELSE b
pop_back(b) == IF b.Count # 0 THEN pop_item_back(b) ELSE b

\* write() puts data[1] at Last and the others behind it: push_item for each.
write(b, data) ==
    IF Len(data) > Size - b.Count THEN b
    ELSE [b EXCEPT !.Buf = [s \in Slots |->
                              LET new == {i \in 1 .. Len(data) : Slot(b.Last + i - 1) = s}
                              IN  IF new = {} THEN b.Buf[s] ELSE data[CHOOSE i \in new : TRUE]],
                   !.Last = Slot(b.Last + Len(data)),
                   !.Count = @ + Len(data)]

\* read() is pop_item for each, of what there is if that is less than the cnt asked for.
nItems(b, cnt) == IF cnt <= b.Count THEN cnt ELSE b.Count
ReadItems(b, cnt) == [i \in 1 .. nItems(b, cnt) |-> b.Buf[Slot(b.First + i - 1)]]
read(b, cnt) == [b EXCEPT !.Count = @ - nItems(b, cnt), !.First = Slot(@ + nItems(b, cnt))]

flush(b) == [b EXCEPT !.Count = 0, !.Last = b.First]

\* operator[], in which the index wraps at SMod before it wraps at Size.
Item(b, index) ==
    LET x == (b.First + index) % SMod
    IN  IF x < Size THEN b.Buf[x] ELSE b.Buf[x - Size]

\* What a buffer holds, in order.
Contents(b) == [i \in 1 .. b.Count |-> b.Buf[Slot(b.First + i - 1)]]
=============================================================================
