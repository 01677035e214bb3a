-------------------------------- MODULE Fifo ---------------------------------
(* What a ring buffer promises: the bytes that were put in come out in their  *)
(* order, none twice and none changed, and there are never more inside than   *)
(* it can hold.  Bytes carry consecutive numbers, counted modulo Numbers.     *)
EXTENDS Integers, Sequences

CONSTANTS Capacity, Numbers

VARIABLES
  queue,                  \* the bytes inside, oldest first
  next                    \* the number of the next byte

fifoVars == <<queue, next>>

FifoInit == queue = <<>> /\ next = 0

Put(n) ==
  /\ Len(queue) + n <= Capacity
  /\ queue' = queue \o [k \in 1..n |-> (next + k - 1) % Numbers]
  /\ next' = (next + n) % Numbers

Take(n) ==
  /\ n <= Len(queue)
  /\ queue' = SubSeq(queue, n + 1, Len(queue))
  /\ UNCHANGED next

FifoSpec ==
  FifoInit /\ [][\E n \in 1..Capacity : Put(n) \/ Take(n)]_fifoVars

==============================================================================
