------------------------------ MODULE BoundedQueue ------------------------------
(***************************************************************************)
(* What a channel of scmRTOS promises its users: a sequence of at most     *)
(* Size items, to which a call adds all of its items at one end, or from   *)
(* which it takes as many as it asks for, at once.                         *)
(***************************************************************************)
EXTENDS Integers, Sequences

CONSTANTS Size, Items

VARIABLES items,   \* the content
          done     \* the last call that has been served: its name and its items

queueVars == <<items, done>>

Served(name, data) == done' = [call |-> name, data |-> data]
Fits(data) == Len(items) + Len(data) <= Size
Has(n) == n <= Len(items)

PushBack(x) == Fits(<<x>>) /\ items' = Append(items, x) /\ Served("push", <<x>>)
PushFront(x) == Fits(<<x>>) /\ items' = <<x>> \o items /\ Served("push_front", <<x>>)
Write(data) == Fits(data) /\ items' = items \o data /\ Served("write", data)

PopFront == Has(1) /\ items' = Tail(items) /\ Served("pop", <<Head(items)>>)
PopBack == Has(1) /\ items' = SubSeq(items, 1, Len(items) - 1) /\ Served("pop_back", <<items[Len(items)]>>)
Read(n) ==
    /\ Has(n)
    /\ items' = SubSeq(items, n + 1, Len(items))
    /\ Served("read", SubSeq(items, 1, n))

Flush == items' = <<>> /\ Served("flush", <<>>)

Init == items = <<>> /\ done = [call |-> "none", data |-> <<>>]

Next ==
    \/ \E x \in Items : PushBack(x) \/ PushFront(x)
    \/ \E data \in UNION {[1 .. n -> Items] : n \in 0 .. Size} : Write(data)
    \/ PopFront \/ PopBack
    \/ \E n \in 0 .. Size : Read(n)
    \/ Flush

Spec == Init /\ [][Next]_queueVars
=============================================================================
