---------------------------- MODULE RingBuffer_proofs ----------------------------
(***************************************************************************)
(* What the operations of a ring buffer do to the sequence it holds, for   *)
(* every Size, every width of S that can count to it and all items.        *)
(***************************************************************************)
EXTENDS RingBuffer, SequenceTheorems, TLAPS

\* The invariant of a buffer: Last is where the items end.
Consistent(b) ==
    /\ b \in Buffers
    /\ b.Count <= Size /\ b.First < Size /\ b.Last < Size
    /\ b.Last = Slot(b.First + b.Count)

-----------------------------------------------------------------------------
(* S does not wrap where an index or the count stays within Size. *)
LEMMA ModSmall == \A n \in Nat : n < SMod => n % SMod = n
  BY RingAssumption

LEMMA Indices ==
  ASSUME NEW n \in Nat, n < Size
  PROVE  /\ Next1(n) = (IF n + 1 = Size THEN 0 ELSE n + 1) /\ Next1(n) = Slot(n + 1)
         /\ Prev1(n) = (IF n = 0 THEN Size - 1 ELSE n - 1)
         /\ Next1(n) \in Slots /\ Prev1(n) \in Slots
         /\ Inc(n) = n + 1
         /\ n # 0 => Dec(n) = n - 1
<1>1. (n + 1) % SMod = n + 1  BY ModSmall, RingAssumption
<1>2. n # 0 => (n - 1) % SMod = n - 1  BY ModSmall, RingAssumption
<1>3. (Size - 1) % SMod = Size - 1  BY ModSmall, RingAssumption
<1> QED  BY <1>1, <1>2, <1>3, RingAssumption DEF Next1, Prev1, Inc, Dec, Slots, Slot

LEMMA Members ==
  ASSUME NEW b, Consistent(b)
  PROVE  /\ b.Count \in Nat /\ b.First \in Nat /\ b.Last \in Nat
         /\ b.Count <= Size /\ b.First < Size /\ b.Last < Size
         /\ b.Last = Slot(b.First + b.Count) /\ b.Buf \in [Slots -> Items]
         /\ b = [Count |-> b.Count, First |-> b.First, Last |-> b.Last, Buf |-> b.Buf]
  BY RingAssumption DEF Consistent, Buffers, S

LEMMA Composed ==
  ASSUME NEW n \in Nat, NEW f \in Nat, NEW l \in Nat, NEW buf \in [Slots -> Items],
         n <= Size, f < Size, l < Size, l = Slot(f + n)
  PROVE  Consistent([Count |-> n, First |-> f, Last |-> l, Buf |-> buf])
<1>1. n \in S /\ f \in S /\ l \in S  BY RingAssumption DEF S
<1>2. [Count |-> n, First |-> f, Last |-> l, Buf |-> buf] \in Buffers  BY <1>1 DEF Buffers
<1> QED  BY <1>2 DEF Consistent

(* The slots that hold the items are different ones. *)
LEMMA SlotFacts ==
  ASSUME NEW f \in Nat, f < Size
  PROVE  /\ \A n \in 0 .. Size : Slot(f + n) \in Slots
         /\ \A m, n \in 0 .. Size - 1 : m # n => Slot(f + m) # Slot(f + n)
         /\ \A m, n \in 0 .. Size : m + n <= Size => Slot(Slot(f + m) + n) = Slot(f + (m + n))
  BY RingAssumption DEF Slot, Slots

LEMMA FreeSlots ==
  ASSUME NEW f \in Nat, f < Size, NEW k \in Nat, NEW n \in Nat, k + n <= Size, NEW l, l = Slot(f + k)
  PROVE  /\ \A j \in 1 .. n : /\ Slot(l + j - 1) \in Slots
                              /\ Slot(l + j - 1) = Slot(f + ((k + j) - 1))
         /\ \A i \in 1 .. k, j \in 1 .. n : Slot(l + j - 1) # Slot(f + (i - 1))
         /\ \A i, j \in 1 .. n : Slot(l + j - 1) = Slot(l + i - 1) => i = j
  BY RingAssumption DEF Slot, Slots

LEMMA Held ==
  ASSUME NEW b, Consistent(b)
  PROVE  /\ Contents(b) \in Seq(Items)
         /\ Len(Contents(b)) = b.Count
         /\ \A i \in 1 .. b.Count : Contents(b)[i] = b.Buf[Slot(b.First + (i - 1))]
<1>1. \A i \in 1 .. b.Count : b.Buf[Slot(b.First + i - 1)] \in Items
  BY Members, RingAssumption DEF Slot, Slots
<1>2. \A i \in 1 .. b.Count : b.First + i - 1 = b.First + (i - 1)
  BY Members
<1> QED  BY <1>1, <1>2, Members DEF Contents

LEMMA Same ==
  ASSUME NEW c, Consistent(c), NEW s \in Seq(Items), Len(s) = c.Count,
         \A i \in 1 .. c.Count : c.Buf[Slot(c.First + (i - 1))] = s[i]
  PROVE  Contents(c) = s
  BY Held, SeqEqual

(* get_free_size() is exact for every content, the empty and the full buffer
   included: what the producers' loops rest on. *)
THEOREM FreeSizeExact ==
  ASSUME NEW b, Consistent(b)
  PROVE  get_free_size(b) = Size - Len(Contents(b)) /\ get_count(b) = Len(Contents(b))
<1>1. b.Count \in Nat /\ Size - b.Count \in Nat /\ Size - b.Count < SMod
  BY RingAssumption DEF Consistent, Buffers, S
<1>2. Len(Contents(b)) = b.Count
  BY <1>1 DEF Contents
<1> QED  BY <1>1, <1>2, ModSmall DEF get_free_size, get_count

-----------------------------------------------------------------------------
(* push_item is Append, wherever Last is: it is the slot behind the last item,
   and no item is overwritten. *)
THEOREM PushBackAppends ==
  ASSUME NEW b, Consistent(b), NEW x \in Items, b.Count < Size
  PROVE  /\ Consistent(push_back(b, x))
         /\ Contents(push_back(b, x)) = Append(Contents(b), x)
<1> DEFINE buf == [b.Buf EXCEPT ![b.Last] = x]
           c == [Count |-> b.Count + 1, First |-> b.First, Last |-> Slot(b.Last + 1), Buf |-> buf]
<1>1. push_back(b, x) = c
  <2>1. push_back(b, x) = [b EXCEPT !.Buf = buf, !.Last = Next1(b.Last), !.Count = Inc(b.Count)]
    BY Members DEF push_back, push_item
  <2> HIDE DEF buf
  <2> QED  BY <2>1, Members, Indices
<1>2. buf \in [Slots -> Items] /\ buf[b.Last] = x /\ \A s \in Slots : s # b.Last => buf[s] = b.Buf[s]
  <2>1. b.Last \in Slots  BY Members, RingAssumption DEF Slots
  <2> QED  BY <2>1, Members
<1>3. Consistent(c)
  <2> HIDE DEF buf
  <2>1. Slot(b.Last + 1) \in Slots /\ Slot(b.Last + 1) = Slot(b.First + (b.Count + 1))
    BY Members, SlotFacts, RingAssumption DEF Slot, Slots
  <2>2. /\ b.Count + 1 \in Nat /\ b.Count + 1 <= Size /\ b.First \in Nat /\ b.First < Size
        /\ Slot(b.Last + 1) \in Nat /\ Slot(b.Last + 1) < Size
    BY <2>1, Members, RingAssumption DEF Slots
  <2> QED  BY <1>2, <2>1, <2>2, Composed
<1>4. \A i \in 1 .. b.Count + 1 : buf[Slot(b.First + (i - 1))] = Append(Contents(b), x)[i]
  <2> HIDE DEF buf
  <2> SUFFICES ASSUME NEW i \in 1 .. b.Count + 1
               PROVE  buf[Slot(b.First + (i - 1))] = Append(Contents(b), x)[i]
    OBVIOUS
  <2>1. CASE i = b.Count + 1
    BY <1>2, <2>1, Held, Members, AppendProperties
  <2>2. CASE i # b.Count + 1
    <3>1. i \in 1 .. b.Count  BY <2>2, Members
    <3>2. Slot(b.First + (i - 1)) \in Slots /\ Slot(b.First + (i - 1)) # b.Last
      BY <3>1, Members, SlotFacts, RingAssumption DEF Slot, Slots
    <3> QED  BY <1>2, <3>1, <3>2, Held, AppendProperties
  <2> QED  BY <2>1, <2>2
<1>5. Append(Contents(b), x) \in Seq(Items) /\ Len(Append(Contents(b), x)) = b.Count + 1
  BY Held, AppendProperties
<1>6. Contents(c) = Append(Contents(b), x)
  <2>1. c.Count = b.Count + 1 /\ c.First = b.First /\ c.Buf = buf  OBVIOUS
  <2> HIDE DEF c
  <2> QED  BY <1>3, <1>4, <1>5, <2>1, Same
<1> QED  BY <1>1, <1>3, <1>6

(* push_front puts the item before all others. *)
THEOREM PushFrontPrepends ==
  ASSUME NEW b, Consistent(b), NEW x \in Items, b.Count < Size
  PROVE  /\ Consistent(push_front(b, x))
         /\ Contents(push_front(b, x)) = <<x>> \o Contents(b)
<1> DEFINE first == Prev1(b.First)
           buf == [b.Buf EXCEPT ![first] = x]
           c == [Count |-> b.Count + 1, First |-> first, Last |-> b.Last, Buf |-> buf]
<1>0. first \in Slots /\ first = (IF b.First = 0 THEN Size - 1 ELSE b.First - 1)
  BY Members, Indices
<1>1. push_front(b, x) = c
  <2>1. push_front(b, x) = [b EXCEPT !.First = first, !.Buf = buf, !.Count = Inc(b.Count)]
    BY Members DEF push_front, push_item_front
  <2> HIDE DEF buf, first
  <2>2. Inc(b.Count) = b.Count + 1
    BY Members, Indices
  <2>3. b = [Count |-> b.Count, First |-> b.First, Last |-> b.Last, Buf |-> b.Buf]
    BY Members
  <2> QED  BY <2>1, <2>2, <2>3
<1> HIDE DEF first
<1>2. buf \in [Slots -> Items] /\ buf[first] = x /\ \A s \in Slots : s # first => buf[s] = b.Buf[s]
  BY <1>0, Members
<1> HIDE DEF buf
<1>3. Consistent(c)
  <2>1. b.Last = Slot(first + (b.Count + 1))
    BY <1>0, Members, RingAssumption DEF Slot, Slots
  <2>2. /\ b.Count + 1 \in Nat /\ b.Count + 1 <= Size /\ first \in Nat /\ first < Size
        /\ b.Last \in Nat /\ b.Last < Size
    BY <1>0, Members, RingAssumption DEF Slots
  <2> QED  BY <1>2, <2>1, <2>2, Composed
<1>4. \A i \in 1 .. b.Count + 1 : buf[Slot(first + (i - 1))] = (<<x>> \o Contents(b))[i]
  <2> SUFFICES ASSUME NEW i \in 1 .. b.Count + 1
               PROVE  buf[Slot(first + (i - 1))] = (<<x>> \o Contents(b))[i]
    OBVIOUS
  <2>0. /\ <<x>> \in Seq(Items) /\ Len(<<x>>) = 1 /\ <<x>>[1] = x
        /\ (<<x>> \o Contents(b))[i] = IF i <= 1 THEN <<x>>[i] ELSE Contents(b)[i - 1]
    <3>1. <<x>> \in Seq(Items) /\ Len(<<x>>) = 1 /\ <<x>>[1] = x  OBVIOUS
    <3>2. i \in 1 .. Len(<<x>>) + Len(Contents(b))  BY <3>1, Held, Members
    <3> QED  BY <3>1, <3>2, Held, ConcatProperties
  <2>1. CASE i = 1
    <3>1. Slot(first + (i - 1)) = first  BY <1>0, <2>1, RingAssumption DEF Slot, Slots
    <3> QED  BY <1>2, <2>0, <2>1, <3>1
  <2>2. CASE i # 1
    <3>1. i - 1 \in 1 .. b.Count /\ ~(i <= 1)  BY <2>2, Members
    <3>2. /\ Slot(first + (i - 1)) \in Slots /\ Slot(first + (i - 1)) # first
          /\ Slot(first + (i - 1)) = Slot(b.First + ((i - 1) - 1))
      BY <1>0, <3>1, Members, RingAssumption DEF Slot, Slots
    <3> QED  BY <1>2, <2>0, <3>1, <3>2, Held
  <2> QED  BY <2>1, <2>2
<1>5. <<x>> \o Contents(b) \in Seq(Items) /\ Len(<<x>> \o Contents(b)) = b.Count + 1
  <2>1. <<x>> \in Seq(Items) /\ Len(<<x>>) = 1  OBVIOUS
  <2> QED  BY <2>1, Held, Members, ConcatProperties
<1>6. Contents(c) = <<x>> \o Contents(b)
  <2>1. c.Count = b.Count + 1 /\ c.First = first /\ c.Buf = buf  OBVIOUS
  <2> HIDE DEF c
  <2> QED  BY <1>3, <1>4, <1>5, <2>1, Same
<1> QED  BY <1>1, <1>3, <1>6

(* pop_front returns the first item and leaves the others. *)
THEOREM PopFrontTakesHead ==
  ASSUME NEW b, Consistent(b), b.Count # 0
  PROVE  /\ Consistent(pop_front(b))
         /\ FrontItem(b) = Head(Contents(b))
         /\ Contents(pop_front(b)) = Tail(Contents(b))
<1> DEFINE c == [Count |-> b.Count - 1, First |-> Slot(b.First + 1), Last |-> b.Last, Buf |-> b.Buf]
<1>1. pop_front(b) = c
  <2>1. pop_front(b) = [b EXCEPT !.Count = Dec(b.Count), !.First = Next1(b.First)]
    BY DEF pop_front, pop_item
  <2>2. Dec(b.Count) = b.Count - 1
    <3>1. b.Count - 1 \in Nat /\ b.Count - 1 < SMod  BY Members, RingAssumption
    <3> QED  BY <3>1, ModSmall DEF Dec
  <2>3. Next1(b.First) = Slot(b.First + 1)  BY Members, Indices
  <2>4. b = [Count |-> b.Count, First |-> b.First, Last |-> b.Last, Buf |-> b.Buf]  BY Members
  <2> QED  BY <2>1, <2>2, <2>3, <2>4
<1>2. Consistent(c)
  <2>1. /\ b.Count - 1 \in Nat /\ b.Count - 1 <= Size
        /\ Slot(b.First + 1) \in Nat /\ Slot(b.First + 1) < Size
        /\ b.Last = Slot(Slot(b.First + 1) + (b.Count - 1))
    BY Members, RingAssumption DEF Slot
  <2> QED  BY <2>1, Members, Composed
<1>3. Contents(b) # <<>>
  BY Held
<1>4. Tail(Contents(b)) \in Seq(Items) /\ Len(Tail(Contents(b))) = b.Count - 1
  BY <1>3, Held, HeadTailProperties
<1>5. \A i \in 1 .. b.Count - 1 : b.Buf[Slot(Slot(b.First + 1) + (i - 1))] = Tail(Contents(b))[i]
  <2> SUFFICES ASSUME NEW i \in 1 .. b.Count - 1
               PROVE  b.Buf[Slot(Slot(b.First + 1) + (i - 1))] = Tail(Contents(b))[i]
    OBVIOUS
  <2>1. /\ i + 1 \in 1 .. b.Count
        /\ Slot(Slot(b.First + 1) + (i - 1)) = Slot(b.First + ((i + 1) - 1))
    BY Members, RingAssumption DEF Slot
  <2>2. Tail(Contents(b))[i] = Contents(b)[i + 1]
    BY <1>3, <1>4, Held, HeadTailProperties
  <2> QED  BY <2>1, <2>2, Held
<1>6. Contents(c) = Tail(Contents(b))
  <2>1. c.Count = b.Count - 1 /\ c.First = Slot(b.First + 1) /\ c.Buf = b.Buf  OBVIOUS
  <2> HIDE DEF c
  <2> QED  BY <1>2, <1>4, <1>5, <2>1, Same
<1>7. FrontItem(b) = Head(Contents(b))
  <2>1. 1 \in 1 .. b.Count /\ Slot(b.First + (1 - 1)) = b.First  BY Members DEF Slot
  <2>2. Head(Contents(b)) = Contents(b)[1]  BY <1>3, Held
  <2> QED  BY <2>1, <2>2, Held DEF FrontItem
<1> QED  BY <1>1, <1>2, <1>6, <1>7

(* read() leaves the items behind those it returns, which are the first ones. *)
THEOREM ReadTakesFirst ==
  ASSUME NEW b, Consistent(b), NEW n \in Nat, n <= b.Count
  PROVE  /\ Consistent(read(b, n))
         /\ ReadItems(b, n) = SubSeq(Contents(b), 1, n)
         /\ Contents(read(b, n)) = SubSeq(Contents(b), n + 1, Len(Contents(b)))
<1> DEFINE c == [Count |-> b.Count - n, First |-> Slot(b.First + n), Last |-> b.Last, Buf |-> b.Buf]
           left == SubSeq(Contents(b), n + 1, Len(Contents(b)))
           taken == SubSeq(Contents(b), 1, n)
<1>0. nItems(b, n) = n
  BY DEF nItems
<1>1. read(b, n) = c
  <2>1. b = [Count |-> b.Count, First |-> b.First, Last |-> b.Last, Buf |-> b.Buf]  BY Members
  <2>2. read(b, n) = [b EXCEPT !.Count = b.Count - n, !.First = Slot(b.First + n)]
    BY <1>0 DEF read
  <2> QED  BY <2>1, <2>2
<1>2. Consistent(c)
  <2>1. /\ b.Count - n \in Nat /\ b.Count - n <= Size
        /\ Slot(b.First + n) \in Nat /\ Slot(b.First + n) < Size
        /\ b.Last = Slot(Slot(b.First + n) + (b.Count - n))
    BY Members, RingAssumption DEF Slot
  <2> QED  BY <2>1, Members, Composed
<1>3. /\ left \in Seq(Items) /\ Len(left) = b.Count - n
      /\ \A i \in 1 .. b.Count - n : left[i] = Contents(b)[n + i]
  <2>1. \A i \in n + 1 .. Len(Contents(b)) : Contents(b)[i] \in Items  BY Held
  <2>2. n + 1 \in Int /\ Len(Contents(b)) \in Int /\ Len(Contents(b)) = b.Count /\ b.Count \in Nat
    BY Held, Members
  <2>3. left \in Seq(Items)  BY <2>1, <2>2, SubSeqProperties
  <2>4. Len(left) = IF n + 1 <= b.Count THEN b.Count - (n + 1) + 1 ELSE 0
    BY <2>1, <2>2, SubSeqProperties
  <2>5. \A i \in 1 .. b.Count - (n + 1) + 1 : left[i] = Contents(b)[(n + 1) + i - 1]
    BY <2>1, <2>2, SubSeqProperties
  <2> HIDE DEF left
  <2> QED  BY <2>2, <2>3, <2>4, <2>5
<1>4. \A i \in 1 .. b.Count - n : b.Buf[Slot(Slot(b.First + n) + (i - 1))] = left[i]
  <2> SUFFICES ASSUME NEW i \in 1 .. b.Count - n
               PROVE  b.Buf[Slot(Slot(b.First + n) + (i - 1))] = left[i]
    OBVIOUS
  <2>1. n + i \in 1 .. b.Count /\ Slot(Slot(b.First + n) + (i - 1)) = Slot(b.First + ((n + i) - 1))
    BY Members, RingAssumption DEF Slot
  <2> HIDE DEF left
  <2> QED  BY <1>3, <2>1, Held
<1>5. Contents(c) = left
  <2>1. c.Count = b.Count - n /\ c.First = Slot(b.First + n) /\ c.Buf = b.Buf  OBVIOUS
  <2> HIDE DEF c, left
  <2> QED  BY <1>2, <1>3, <1>4, <2>1, Same
<1>6. ReadItems(b, n) = taken
  <2>1. \A i \in 1 .. n : /\ b.Buf[Slot(b.First + i - 1)] = Contents(b)[i] /\ Contents(b)[i] \in Items
    <3> SUFFICES ASSUME NEW i \in 1 .. n
                 PROVE  b.Buf[Slot(b.First + i - 1)] = Contents(b)[i] /\ Contents(b)[i] \in Items
      OBVIOUS
    <3>1. i \in 1 .. b.Count /\ b.First + i - 1 = b.First + (i - 1)  BY Members
    <3> QED  BY <3>1, Held
  <2>2. taken \in Seq(Items) /\ Len(taken) = n /\ \A i \in 1 .. n : taken[i] = Contents(b)[i]
    <3>1. taken \in Seq(Items)  BY <2>1, SubSeqProperties
    <3>2. Len(taken) = IF 1 <= n THEN n - 1 + 1 ELSE 0  BY <2>1, SubSeqProperties
    <3>3. \A i \in 1 .. n - 1 + 1 : taken[i] = Contents(b)[1 + i - 1]  BY <2>1, SubSeqProperties
    <3> HIDE DEF taken
    <3> QED  BY <3>1, <3>2, <3>3
  <2>3. ReadItems(b, n) \in Seq(Items) /\ Len(ReadItems(b, n)) = n
        /\ \A i \in 1 .. n : ReadItems(b, n)[i] = Contents(b)[i]
    BY <1>0, <2>1 DEF ReadItems
  <2> HIDE DEF taken
  <2> QED  BY <2>2, <2>3, SeqEqual
<1> QED  BY <1>1, <1>2, <1>5, <1>6

(* pop_back returns the last item and leaves the others. *)
THEOREM PopBackTakesLast ==
  ASSUME NEW b, Consistent(b), b.Count # 0
  PROVE  /\ Consistent(pop_back(b))
         /\ BackItem(b) = Contents(b)[Len(Contents(b))]
         /\ Contents(pop_back(b)) = SubSeq(Contents(b), 1, Len(Contents(b)) - 1)
<1> DEFINE last == Prev1(b.Last)
           c == [Count |-> b.Count - 1, First |-> b.First, Last |-> last, Buf |-> b.Buf]
           left == SubSeq(Contents(b), 1, b.Count - 1)
<1>0. last \in Slots /\ last = Slot(b.First + (b.Count - 1))
  <2>1. last \in Slots /\ last = (IF b.Last = 0 THEN Size - 1 ELSE b.Last - 1)
    BY Members, Indices
  <2> QED  BY <2>1, Members, RingAssumption DEF Slot
<1>1. pop_back(b) = c
  <2>1. pop_back(b) = [b EXCEPT !.Count = Dec(b.Count), !.Last = last]
    BY DEF pop_back, pop_item_back
  <2>2. Dec(b.Count) = b.Count - 1
    <3>1. b.Count - 1 \in Nat /\ b.Count - 1 < SMod  BY Members, RingAssumption
    <3> QED  BY <3>1, ModSmall DEF Dec
  <2>3. b = [Count |-> b.Count, First |-> b.First, Last |-> b.Last, Buf |-> b.Buf]  BY Members
  <2> HIDE DEF last
  <2> QED  BY <2>1, <2>2, <2>3
<1> HIDE DEF last
<1>2. Consistent(c)
  <2>1. b.Count - 1 \in Nat /\ b.Count - 1 <= Size /\ last \in Nat /\ last < Size
    BY <1>0, Members, RingAssumption DEF Slots
  <2> QED  BY <1>0, <2>1, Members, Composed
<1>3. /\ left \in Seq(Items) /\ Len(left) = b.Count - 1
      /\ \A i \in 1 .. b.Count - 1 : left[i] = Contents(b)[i]
  <2>1. \A i \in 1 .. b.Count - 1 : Contents(b)[i] \in Items
    <3> TAKE i \in 1 .. b.Count - 1
    <3>1. i \in 1 .. Len(Contents(b))  BY Held, Members
    <3> QED  BY <3>1, Held
  <2>2. b.Count - 1 \in Int /\ b.Count \in Nat  BY Members
  <2>3. left \in Seq(Items)  BY <2>1, <2>2, SubSeqProperties
  <2>4. Len(left) = IF 1 <= b.Count - 1 THEN (b.Count - 1) - 1 + 1 ELSE 0
    BY <2>1, <2>2, SubSeqProperties
  <2>5. \A i \in 1 .. (b.Count - 1) - 1 + 1 : left[i] = Contents(b)[1 + i - 1]
    BY <2>1, <2>2, SubSeqProperties
  <2> HIDE DEF left
  <2> QED  BY <2>2, <2>3, <2>4, <2>5
<1>4. \A i \in 1 .. b.Count - 1 : b.Buf[Slot(b.First + (i - 1))] = left[i]
  <2> SUFFICES ASSUME NEW i \in 1 .. b.Count - 1  PROVE b.Buf[Slot(b.First + (i - 1))] = left[i]
    OBVIOUS
  <2>1. i \in 1 .. b.Count  BY Members
  <2> HIDE DEF left
  <2> QED  BY <1>3, <2>1, Held
<1>5. Contents(c) = left
  <2>1. c.Count = b.Count - 1 /\ c.First = b.First /\ c.Buf = b.Buf  OBVIOUS
  <2> HIDE DEF c, left
  <2> QED  BY <1>2, <1>3, <1>4, <2>1, Same
<1>6. BackItem(b) = Contents(b)[b.Count]
  <2>1. b.Count \in 1 .. b.Count  BY Members
  <2> QED  BY <1>0, <2>1, Held DEF BackItem, last
<1> QED  BY <1>1, <1>2, <1>5, <1>6, Held

(* write() appends all of the data, in its order, across the end of Buf. *)
THEOREM WriteAppends ==
  ASSUME NEW b, Consistent(b), NEW data \in Seq(Items), Len(data) <= Size - b.Count
  PROVE  /\ Consistent(write(b, data))
         /\ Contents(write(b, data)) = Contents(b) \o data
<1> DEFINE n == Len(data)
           new(s) == {i \in 1 .. n : Slot(b.Last + i - 1) = s}
           buf == [s \in Slots |-> IF new(s) = {} THEN b.Buf[s] ELSE data[CHOOSE i \in new(s) : TRUE]]
           c == [Count |-> b.Count + n, First |-> b.First, Last |-> Slot(b.Last + n), Buf |-> buf]
<1>0. n \in Nat /\ n <= Size /\ b.Count + n <= Size /\ \A i \in 1 .. n : data[i] \in Items
  BY Members, RingAssumption
<1>1. write(b, data) = c
  <2>1. write(b, data) = [b EXCEPT !.Buf = buf, !.Last = Slot(b.Last + n), !.Count = b.Count + n]
    <3>1. ~(Len(data) > Size - b.Count)  BY <1>0, Members, RingAssumption
    <3> QED  BY <3>1 DEF write
  <2>2. b = [Count |-> b.Count, First |-> b.First, Last |-> b.Last, Buf |-> b.Buf]  BY Members
  <2> HIDE DEF buf, n
  <2> QED  BY <2>1, <2>2
<1> HIDE DEF n
<1> HIDE DEF buf
<1>a. /\ \A j \in 1 .. n : /\ Slot(b.Last + j - 1) \in Slots
                           /\ Slot(b.Last + j - 1) = Slot(b.First + ((b.Count + j) - 1))
      /\ \A i \in 1 .. b.Count, j \in 1 .. n : Slot(b.Last + j - 1) # Slot(b.First + (i - 1))
      /\ \A i, j \in 1 .. n : Slot(b.Last + j - 1) = Slot(b.Last + i - 1) => i = j
  BY <1>0, Members, FreeSlots
<1>2. \A i \in 1 .. n : Slot(b.Last + i - 1) \in Slots /\ new(Slot(b.Last + i - 1)) = {i}
  BY <1>a
<1>3. \A i \in 1 .. n : buf[Slot(b.Last + i - 1)] = data[i]
  <2> HIDE DEF new
  <2> QED  BY <1>2 DEF buf
<1>4. \A s \in Slots : (\A i \in 1 .. n : Slot(b.Last + i - 1) # s) => buf[s] = b.Buf[s]
  <2> SUFFICES ASSUME NEW s \in Slots, \A i \in 1 .. n : Slot(b.Last + i - 1) # s
               PROVE  buf[s] = b.Buf[s]
    OBVIOUS
  <2>1. new(s) = {}  OBVIOUS
  <2> HIDE DEF new
  <2> QED  BY <2>1 DEF buf
<1>5. buf \in [Slots -> Items]
  <2> SUFFICES ASSUME NEW s \in Slots
               PROVE  (IF new(s) = {} THEN b.Buf[s] ELSE data[CHOOSE i \in new(s) : TRUE]) \in Items
    BY DEF buf
  <2>1. CASE new(s) = {}  BY <2>1, Members
  <2>2. CASE new(s) # {}
    <3>1. (CHOOSE i \in new(s) : TRUE) \in 1 .. n  BY <2>2
    <3> QED  BY <1>0, <2>2, <3>1
  <2> QED  BY <2>1, <2>2
<1> HIDE DEF new
<1>6. Consistent(c)
  <2>1. /\ b.Count + n \in Nat /\ Slot(b.Last + n) \in Nat /\ Slot(b.Last + n) < Size
        /\ Slot(b.Last + n) = Slot(b.First + (b.Count + n))
    BY <1>0, Members, RingAssumption DEF Slot
  <2> QED  BY <1>0, <1>5, <2>1, Members, Composed
<1>7. /\ Contents(b) \o data \in Seq(Items) /\ Len(Contents(b) \o data) = b.Count + n
      /\ \A i \in 1 .. b.Count + n :
            (Contents(b) \o data)[i] = IF i <= b.Count THEN Contents(b)[i] ELSE data[i - b.Count]
  BY Held, ConcatProperties DEF n
<1>8. \A i \in 1 .. b.Count + n : buf[Slot(b.First + (i - 1))] = (Contents(b) \o data)[i]
  <2> SUFFICES ASSUME NEW i \in 1 .. b.Count + n
               PROVE  buf[Slot(b.First + (i - 1))] = (Contents(b) \o data)[i]
    OBVIOUS
  <2>1. CASE i <= b.Count
    <3>1. i \in 1 .. b.Count  BY <1>0, <2>1, Members
    <3>2. Slot(b.First + (i - 1)) \in Slots
      BY <3>1, Members, RingAssumption DEF Slot, Slots
    <3>3. \A j \in 1 .. n : Slot(b.Last + j - 1) # Slot(b.First + (i - 1))
      BY <1>a, <3>1
    <3> QED  BY <1>4, <1>7, <2>1, <3>1, <3>2, <3>3, Held
  <2>2. CASE ~(i <= b.Count)
    <3>1. i - b.Count \in 1 .. n  BY <1>0, <2>2, Members
    <3>2. Slot(b.Last + (i - b.Count) - 1) = Slot(b.First + (i - 1))
      <4>1. (b.Count + (i - b.Count)) - 1 = i - 1  BY Members
      <4> QED  BY <1>a, <3>1, <4>1
    <3> QED  BY <1>3, <1>7, <2>2, <3>1, <3>2
  <2> QED  BY <2>1, <2>2
<1>9. Contents(c) = Contents(b) \o data
  <2>1. c.Count = b.Count + n /\ c.First = b.First /\ c.Buf = buf  OBVIOUS
  <2> HIDE DEF c
  <2> QED  BY <1>6, <1>7, <1>8, <2>1, Same
<1> QED  BY <1>1, <1>6, <1>9

(* flush() leaves an empty buffer, wherever First is. *)
THEOREM FlushEmpties ==
  ASSUME NEW b, Consistent(b)
  PROVE  Consistent(flush(b)) /\ Contents(flush(b)) = <<>>
<1> DEFINE c == [Count |-> 0, First |-> b.First, Last |-> b.First, Buf |-> b.Buf]
<1>1. flush(b) = c
  <2>1. b = [Count |-> b.Count, First |-> b.First, Last |-> b.Last, Buf |-> b.Buf]  BY Members
  <2>2. flush(b) = [b EXCEPT !.Count = 0, !.Last = b.First]  BY DEF flush
  <2> QED  BY <2>1, <2>2
<1>2. Consistent(c)
  <2>1. b.First = Slot(b.First + 0)  BY Members DEF Slot
  <2>2. 0 <= Size  BY RingAssumption
  <2> QED  BY <2>1, <2>2, Members, Composed
<1>3. Contents(c) = <<>>
  <2>1. Len(Contents(c)) = 0 /\ Contents(c) \in Seq(Items)
    <3>1. c.Count = 0  OBVIOUS
    <3> HIDE DEF c
    <3> QED  BY <1>2, <3>1, Held
  <2> QED  BY <2>1
<1> QED  BY <1>1, <1>2, <1>3

(* operator[] is the item at the index only as long as First + index does not
   wrap at SMod: for every content of a buffer of at most half of what S can
   count to. *)
THEOREM IndexExact ==
  ASSUME NEW b, Consistent(b), 2 * Size - 1 <= SMod, NEW i \in 0 .. b.Count - 1
  PROVE  Item(b, i) = Contents(b)[i + 1]
<1>1. b.First + i \in Nat /\ b.First + i < SMod
  BY Members, RingAssumption
<1>2. (b.First + i) % SMod = b.First + i
  BY <1>1, ModSmall
<1>3. i + 1 \in 1 .. b.Count /\ b.First + ((i + 1) - 1) = b.First + i
  BY Members
<1> QED  BY <1>2, <1>3, Held, Members DEF Item, Slot

(* And it is another item in some content of a larger buffer: a full one, whose
   first item is in the last slot, for the index of its last item. *)
THEOREM IndexWraps ==
  ASSUME 2 * Size - 1 > SMod, NEW x \in Items, NEW y \in Items, x # y
  PROVE  \E b : Consistent(b) /\ Item(b, b.Count - 1) # Contents(b)[b.Count]
<1> DEFINE buf == [s \in Slots |-> IF s = Size - 2 THEN x ELSE y]
           b == [Count |-> Size, First |-> Size - 1, Last |-> Size - 1, Buf |-> buf]
<1>1. /\ Size >= 2 /\ Size - 1 = Slot((Size - 1) + Size) /\ Slot((Size - 1) + (Size - 1)) = Size - 2
      /\ (Size - 1) + (Size - 1) >= SMod
  BY RingAssumption DEF Slot
<1>2. buf \in [Slots -> Items]
  OBVIOUS
<1>3. Consistent(b)
  <2>1. Size \in Nat /\ Size - 1 \in Nat /\ Size <= Size /\ Size - 1 < Size  BY <1>1, RingAssumption
  <2> HIDE DEF buf
  <2> QED  BY <1>1, <1>2, <2>1, Composed
<1>4. Contents(b)[b.Count] = buf[Size - 2]
  <2>1. b.Count = Size /\ b.First = Size - 1 /\ b.Buf = buf /\ Size \in 1 .. Size
    BY <1>1, RingAssumption
  <2> HIDE DEF b, buf
  <2> QED  BY <1>1, <1>3, <2>1, Held
<1>5. buf[Size - 2] = x
  BY <1>1, RingAssumption DEF Slots
<1>6. Item(b, b.Count - 1) = y
  <2> DEFINE z == (Size - 1) + (Size - 1) - SMod
  <2>1. z \in Nat /\ z < Size /\ z # Size - 2 /\ z < SMod  BY <1>1, RingAssumption
  <2>2. ((Size - 1) + (Size - 1)) % SMod = z
    <3>1. (Size - 1) + (Size - 1) = z + SMod  BY RingAssumption
    <3>2. (z + SMod) % SMod = z  BY <2>1, RingAssumption
    <3> QED  BY <3>1, <3>2
  <2>3. buf[z] = y  BY <2>1, RingAssumption DEF Slots
  <2> HIDE DEF buf, z
  <2> QED  BY <2>1, <2>2, <2>3 DEF Item
<1> QED  BY <1>3, <1>4, <1>5, <1>6
=============================================================================
