--------------------------- MODULE BoundedChannel ---------------------------
(***************************************************************************)
(* What UsnJournalQueue promises its producers and consumers, without      *)
(* locks, waits or wake-ups: a bounded FIFO that drops nothing while it is *)
(* open, is emptied when it is closed, and hands out what it holds as long *)
(* as somebody keeps asking.                                               *)
(***************************************************************************)
EXTENDS Naturals, Sequences

CONSTANTS Capacity, Buffers

VARIABLES items, closed

cvars == <<items, closed>>

Init == items = <<>> /\ closed = FALSE

Put(b) ==
    /\ ~closed
    /\ Len(items) < Capacity
    /\ items' = Append(items, b)
    /\ UNCHANGED closed

Take ==
    /\ ~closed
    /\ items # <<>>
    /\ items' = Tail(items)
    /\ UNCHANGED closed

Close ==
    /\ closed' = TRUE
    /\ items' = <<>>

Next == (\E b \in Buffers : Put(b)) \/ Take \/ Close

Safety == Init /\ [][Next]_cvars

Spec == Safety /\ WF_cvars(Take)
=============================================================================
