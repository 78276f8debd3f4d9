----------------------------- MODULE BoundedFifo -----------------------------
(***************************************************************************)
(* What LockFreeQueue<T> (include/common/lockfree_queue.h) promises to its *)
(* callers, with every call a single step: a first-in first-out queue that *)
(* holds at most Capacity items, refuses a push only when it is full and a *)
(* pop only when it is empty.                                              *)
(***************************************************************************)
EXTENDS Integers, Sequences

CONSTANTS
  Capacity,   (* the argument of the constructor *)
  Item        (* the values that travel through the queue *)

VARIABLES
  fifo,       (* the items in the queue, oldest first *)
  delivered,  (* every item handed to a caller of pop, in order *)
  refused     (* the items push returned false for *)

fifoVars == <<fifo, delivered, refused>>

Init ==
  /\ fifo = <<>>
  /\ delivered = <<>>
  /\ refused = {}

\* push returns true.
Push(x) ==
  /\ Len(fifo) < Capacity
  /\ fifo' = Append(fifo, x)
  /\ UNCHANGED <<delivered, refused>>

\* push returns false: the caller keeps (and here, drops) the item.
Refuse(x) ==
  /\ Len(fifo) = Capacity
  /\ refused' = refused \union {x}
  /\ UNCHANGED <<fifo, delivered>>

\* pop returns true.
Pop ==
  /\ fifo # <<>>
  /\ delivered' = Append(delivered, Head(fifo))
  /\ fifo' = Tail(fifo)
  /\ UNCHANGED refused

Next ==
  \/ \E x \in Item : Push(x) \/ Refuse(x)
  \/ Pop

Spec == Init /\ [][Next]_fifoVars
=============================================================================
