----------------------------- MODULE BspI2cSlave -----------------------------
(***************************************************************************)
(* The I2C slave driver, Drivers/BSP/Src/bsp_i2c_slave.c: what its three   *)
(* interrupt handlers and its main-loop functions do to the state they     *)
(* share, one operator per handler or per step of a function that an       *)
(* interrupt can get in front of.  BootLink composes them with the bus and *)
(* the main loop.                                                          *)
(*                                                                         *)
(* A byte is a unit of a frame or of a response; a message has few units,  *)
(* so that it can be truncated, overrun or torn.  The receive ring is the  *)
(* sequence of the bytes between tail and head.  SysTick's increment of    *)
(* err_count loads and stores in two steps, and the EEI interrupt, whose   *)
(* priority is higher, may come between them.                              *)
(***************************************************************************)
EXTENDS Naturals, Sequences

CONSTANTS
    RX_CAPACITY,    \* BSP_I2C_RX_CAPACITY - 1, what the ring can hold
    ERR_LIMIT,      \* the 2000 of bsp_i2c_slave_update
    TX_LENGTH       \* the units of a response

ASSUME DriverAssumption ==
    /\ RX_CAPACITY \in Nat \ {0}
    /\ ERR_LIMIT \in Nat \ {0}
    /\ TX_LENGTH \in Nat \ {0}

VARIABLES
    irq_on,         \* the three interrupts are enabled and the unit is on
    slave_state,
    rx,             \* the bytes in rx_transactions
    tx_data,        \* the bytes of tx_transactions
    tx_head,
    tx_tail,
    err_count,
    tick            \* what a preempted SysTick_Handler has loaded

driver == <<irq_on, slave_state, rx, tx_data, tx_head, tx_tail, err_count, tick>>
tx == <<tx_data, tx_head, tx_tail>>

NoTick == ERR_LIMIT + 1

i2c_slave_state_t == {"SLAVE_RX", "SLAVE_RX_DONE", "SLAVE_TX", "SLAVE_TX_DONE"}

\* Nothing was ever written here (memset to 0).
Zero == [msg |-> [n |-> 0], unit |-> 0]

TxZeroed == [i \in 1 .. TX_LENGTH |-> Zero]

DriverInit ==
    /\ irq_on = TRUE
    /\ slave_state = "SLAVE_RX"
    /\ rx = <<>>
    /\ tx_data = TxZeroed
    /\ tx_head = 0
    /\ tx_tail = 0
    /\ err_count = 0
    /\ tick = NoTick

-----------------------------------------------------------------------------
(* Interrupt handlers.                                                     *)

txBufferAvailable == tx_head > tx_tail

\* i2c_eei_callback on an address match for a write.
MatchWrite ==
    /\ slave_state' = "SLAVE_RX"
    /\ UNCHANGED <<irq_on, rx, tx, err_count, tick>>

\* The byte txBufferRead hands to the transmitter, if there is one.
SendByte(sent) ==
    /\ sent = IF txBufferAvailable THEN <<tx_data[tx_tail + 1]>> ELSE <<>>
    /\ tx_tail' = IF txBufferAvailable THEN tx_tail + 1 ELSE tx_tail
    /\ UNCHANGED <<irq_on, rx, tx_data, tx_head, err_count, tick>>

\* i2c_eei_callback on an address match for a read: it preloads a byte.
MatchRead(sent) ==
    /\ slave_state' = "SLAVE_TX"
    /\ SendByte(sent)

\* i2c_tei_callback: the next byte.
TransmitEmpty(sent) ==
    /\ SendByte(sent)
    /\ UNCHANGED slave_state

\* i2c_rxi_callback: rxBufferWrite drops the byte when the ring is full.
ReceiveFull(byte) ==
    /\ rx' = IF Len(rx) < RX_CAPACITY THEN Append(rx, byte) ELSE rx
    /\ UNCHANGED <<irq_on, slave_state, tx, err_count, tick>>

\* Mutant: the end of a read leaves the state SLAVE_TX.
StopDetectedAfterWrite ==
    /\ slave_state' = IF slave_state = "SLAVE_RX" THEN "SLAVE_RX_DONE" ELSE slave_state
    /\ err_count' = IF slave_state = "SLAVE_TX" THEN 0 ELSE err_count
    /\ tx_head' = IF slave_state = "SLAVE_TX" THEN 0 ELSE tx_head
    /\ UNCHANGED <<irq_on, rx, tx_data, tx_tail, tick>>

\* i2c_eei_callback on STOP.
StopDetected ==
    /\ slave_state' = CASE slave_state = "SLAVE_RX" -> "SLAVE_RX_DONE"
                        [] slave_state = "SLAVE_TX" -> "SLAVE_TX_DONE"
                        [] OTHER -> slave_state
    /\ err_count' = IF slave_state = "SLAVE_TX" THEN 0 ELSE err_count
    /\ tx_head' = IF slave_state = "SLAVE_TX" THEN 0 ELSE tx_head
    /\ UNCHANGED <<irq_on, rx, tx_data, tx_tail, tick>>

\* SysTick_Handler counts a millisecond.  Counting stops at the limit, which
\* is all that bsp_i2c_slave_update asks about.
TickLoad ==
    /\ tick = NoTick
    /\ tick' = err_count
    /\ UNCHANGED <<irq_on, slave_state, rx, tx, err_count>>

TickStore ==
    /\ tick # NoTick
    /\ err_count' = IF tick < ERR_LIMIT THEN tick + 1 ELSE tick
    /\ tick' = NoTick
    /\ UNCHANGED <<irq_on, slave_state, rx, tx>>

-----------------------------------------------------------------------------
(* Functions of the main loop.                                             *)

\* txBufferWrite, in its three stores; its result reads _BufferHead again.
txBufferWriteData(bytes) ==
    /\ tx_data' = bytes
    /\ UNCHANGED <<irq_on, slave_state, rx, tx_head, tx_tail, err_count, tick>>

txBufferWriteHead ==
    /\ tx_head' = TX_LENGTH
    /\ UNCHANGED <<irq_on, slave_state, rx, tx_data, tx_tail, err_count, tick>>

\* Mutant: the tail of the previous response stays.
txBufferWriteNoTail == UNCHANGED driver

txBufferWriteTail ==
    /\ tx_tail' = 0
    /\ UNCHANGED <<irq_on, slave_state, rx, tx_data, tx_head, err_count, tick>>

\* Mutant: the bytes are copied and not consumed.
rxBufferPeek == UNCHANGED driver

\* The loop of BootProtocolParserProcess over rxBufferRead, inside its
\* critical section.
rxBufferDrain ==
    /\ rx' = <<>>
    /\ UNCHANGED <<irq_on, slave_state, tx, err_count, tick>>

\* Mutant: err_count is left to the completed reads.
errResetByReadsOnly == UNCHANGED driver

basp_i2c_slave_err_reset ==
    /\ err_count' = 0
    /\ UNCHANGED <<irq_on, slave_state, rx, tx, tick>>

bsp_i2c_slave_deinit ==
    /\ irq_on' = FALSE
    /\ UNCHANGED <<slave_state, rx, tx, err_count, tick>>

\* bsp_i2c_slave_init enables the interrupts first and clears the buffers
\* after that, one after the other.  A memset may be interrupted: in the
\* receive ring that loses or keeps the byte just as before or behind it, in
\* the response the data go first and the indexes behind them.
InitEnable ==
    /\ irq_on' = TRUE
    /\ UNCHANGED <<slave_state, rx, tx, err_count, tick>>

InitClearState ==
    /\ slave_state' = "SLAVE_RX"
    /\ UNCHANGED <<irq_on, rx, tx, err_count, tick>>

InitClearRx ==
    /\ rx' = <<>>
    /\ UNCHANGED <<irq_on, slave_state, tx, err_count, tick>>

InitClearTxData ==
    /\ tx_data' = TxZeroed
    /\ UNCHANGED <<irq_on, slave_state, rx, tx_head, tx_tail, err_count, tick>>

InitClearTxIndexes ==
    /\ tx_head' = 0
    /\ tx_tail' = 0
    /\ UNCHANGED <<irq_on, slave_state, rx, tx_data, err_count, tick>>
=============================================================================
