------------------------------ MODULE ByteQueue ------------------------------
(***************************************************************************)
(* What the receive buffer of the I2C slave is for: a queue of at most     *)
(* Limit bytes that loses what does not fit and gives its bytes out in     *)
(* their order.  RxRing implements it operation by operation; BspI2cSlave  *)
(* models the buffer as such a queue.                                      *)
(***************************************************************************)
EXTENDS Naturals, Sequences

CONSTANTS
    Limit

VARIABLES
    queue,
    out             \* the byte given out last

Init == queue = <<>> /\ out = 0

Put(b) ==
    /\ queue' = IF Len(queue) < Limit THEN Append(queue, b) ELSE queue
    /\ UNCHANGED out

\* An empty queue gives 0 out.
Take ==
    IF queue = <<>>
    THEN out' = 0 /\ UNCHANGED queue
    ELSE out' = Head(queue) /\ queue' = Tail(queue)

Clear == queue' = <<>> /\ UNCHANGED out
=============================================================================
