------------------------------- MODULE RxRing -------------------------------
(***************************************************************************)
(* The receive ring of Drivers/BSP/Src/bsp_i2c_slave.c: an array and two   *)
(* indexes, of which one slot stays free to tell full from empty.  The RXI *)
(* interrupt writes; the main loop reads inside a critical section; the    *)
(* initialisation of the driver clears it.                                 *)
(***************************************************************************)
EXTENDS Naturals, Sequences

CONSTANTS
    BSP_I2C_RX_CAPACITY,
    Bytes           \* the values of a byte, 0 among them

ASSUME RingAssumption ==
    /\ BSP_I2C_RX_CAPACITY \in Nat \ {0}
    /\ 0 \in Bytes

VARIABLES
    data,
    _BufferHead,    \* where the next byte is written
    _BufferTail,    \* where the next byte is read
    c               \* what rxBufferRead returned last

ring_vars == <<data, _BufferHead, _BufferTail, c>>

Index == 0 .. BSP_I2C_RX_CAPACITY - 1

\* memset of the whole structure.
Zeroed == [i \in Index |-> 0]

RingInit ==
    /\ data = Zeroed
    /\ _BufferHead = 0 /\ _BufferTail = 0
    /\ c = 0

\* Mutant: the index runs one past the array's end before it wraps.
AfterLate(i) == (i + 1) % (BSP_I2C_RX_CAPACITY + 1)

After(i) == (i + 1) % BSP_I2C_RX_CAPACITY

rxBufferAvailable ==
    (BSP_I2C_RX_CAPACITY + _BufferHead - _BufferTail) % BSP_I2C_RX_CAPACITY

\* Mutant: the last slot is used as well, and a full ring looks empty.
HasRoomToTheBrim == rxBufferAvailable < BSP_I2C_RX_CAPACITY

HasRoom == After(_BufferHead) # _BufferTail

rxBufferWrite(ch) ==
    /\ IF HasRoom
       THEN /\ data' = [data EXCEPT ![_BufferHead] = ch]
            /\ _BufferHead' = After(_BufferHead)
       ELSE UNCHANGED <<data, _BufferHead>>
    /\ UNCHANGED <<_BufferTail, c>>

rxBufferRead ==
    /\ IF _BufferHead = _BufferTail
       THEN c' = 0 /\ UNCHANGED _BufferTail
       ELSE c' = data[_BufferTail] /\ _BufferTail' = After(_BufferTail)
    /\ UNCHANGED <<data, _BufferHead>>

\* bsp_i2c_slave_init.
Clear ==
    /\ data' = Zeroed
    /\ _BufferHead' = 0 /\ _BufferTail' = 0
    /\ UNCHANGED c

RingNext ==
    \/ \E ch \in Bytes : rxBufferWrite(ch)
    \/ rxBufferRead
    \/ Clear

RingSpec == RingInit /\ [][RingNext]_ring_vars

-----------------------------------------------------------------------------
(* Properties.                                                             *)

\* The bytes between tail and head, around the end of the array.
Contents ==
    [i \in 1 .. rxBufferAvailable |-> data[(_BufferTail + i - 1) % BSP_I2C_RX_CAPACITY]]

Queue == INSTANCE ByteQueue WITH
    queue <- Contents, out <- c, Limit <- BSP_I2C_RX_CAPACITY - 1

\* Wherever its indexes stand, each operation of the ring does what the
\* operation of a queue of capacity - 1 bytes does: it loses only what does
\* not fit, keeps the order and never takes full for empty.
\* rxBufferAvailable, which bounds the parser's copy loop, counts what is in
\* it.
RingIsAQueue ==
    /\ Queue!Init
    /\ [][/\ \A ch \in Bytes : rxBufferWrite(ch) => Queue!Put(ch)
          /\ rxBufferRead => Queue!Take
          /\ Clear => Queue!Clear]_ring_vars
=============================================================================
