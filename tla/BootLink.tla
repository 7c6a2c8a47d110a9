------------------------------ MODULE BootLink ------------------------------
(***************************************************************************)
(* The command link: the I2C bus with the host that masters it, the slave  *)
(* driver's interrupts, and the main loop of Core/Src/main.c with the      *)
(* parser's Process function.  Interrupt handlers run between any two      *)
(* steps of the main loop; SysTick, which has the lowest priority, keeps   *)
(* the main loop off but lets the bus interrupts through.                  *)
(*                                                                         *)
(* The update service is reduced to what the link sees of it (modelled in  *)
(* full in BootUpdateService): it answers a frame, an accepted JUMP arms   *)
(* the jump, an ERASE withdraws it.  A frame has FRAME_LENGTH units, and   *)
(* the parser collects that many from a first unit on: a truncated frame   *)
(* takes units of the next one with it, and the CRC refuses the mixture.   *)
(***************************************************************************)
EXTENDS BspI2cSlave

CONSTANTS
    FRAME_LENGTH,   \* units of a frame
    MaxFrames,      \* bound: frames the host sends
    HostAborts,     \* the host may end a transaction early
    HostPatient,    \* the host keeps to the times below, and so does the loop
    FrameTime,      \* a write is over in so many milliseconds
    MaxLoop,        \* an iteration of the main loop without its handler, and
    MaxHandle,      \* the handler of a frame, take no longer than this
    ReadFrom,       \* an answer is read no earlier and no later than this
    ReadUntil,      \*   after the write of its frame began
    NextUntil       \* a frame that begins by then is prompt

ASSUME LinkAssumption ==
    /\ FRAME_LENGTH \in Nat \ {0}
    /\ MaxFrames \in Nat
    /\ HostPatient \in BOOLEAN /\ HostAborts \in BOOLEAN
    /\ \A t \in {FrameTime, MaxLoop, MaxHandle, ReadFrom, ReadUntil, NextUntil} : t \in Nat
    /\ ReadUntil <= NextUntil

VARIABLES
    \* the bus and the host
    bus,             \* the transaction in progress
    next_frame,      \* number of the next frame
    acked,           \* the answers a patient host has read intact
    read_since_jump, \* a read has ended since the last JUMP was sent
    awaiting,        \* a patient host has not read the answer to its last frame
    prompt,          \* its last frame followed the one before it promptly
    host_ms,         \* how long ago its last frame began
    \* the main loop
    mpc,
    local_buffer,
    collected,       \* the parser's units of an incomplete frame
    frame,           \* the frame delivered last
    armed,           \* arm_jump_after_publish
    jump_requested,
    loop_ms          \* how long the iteration, or the handler in it, has taken

schedule == <<awaiting, prompt, host_ms>>
host == <<bus, next_frame, acked, read_since_jump, schedule>>
parser == <<local_buffer, collected, frame>>
main == <<mpc, parser, armed, jump_requested, loop_ms>>
vars == <<driver, host, main>>

Commands == {"JUMP", "ERASE", "OTHER"}

Frame == [n : 1 .. MaxFrames, cmd : Commands]

Answer == [n : 1 .. MaxFrames, cmd : Commands, ok : BOOLEAN]

NoFrame == [n |-> 0, cmd |-> "none"]

Unit(msg, k) == [msg |-> msg, unit |-> k]

\* attached: the slave takes part; it drops out when the driver is reset.
Idle == [kind |-> "none", frame |-> NoFrame, done |-> 0, got |-> <<>>, attached |-> FALSE]

Init ==
    /\ DriverInit
    /\ bus = Idle
    /\ next_frame = 1
    /\ acked = {}
    /\ read_since_jump = FALSE
    /\ awaiting = FALSE
    /\ prompt = FALSE
    /\ host_ms = 0
    /\ mpc = "check"
    /\ local_buffer = <<>>
    /\ collected = <<>>
    /\ frame = NoFrame
    /\ armed = FALSE
    /\ jump_requested = FALSE
    /\ loop_ms = 0

-----------------------------------------------------------------------------
(* The bus: what the host does, and the interrupt it raises.               *)

\* The response that carries answer a, as txBufferWrite gets it.
Response(a) == [k \in 1 .. TX_LENGTH |-> Unit(a, k)]

\* What docs/i2c_slave_contract.md asks of a host: a write, a delay in which
\* the frame is processed, and a separate read.  A patient host keeps to it by
\* its own clock: it sends the next frame when it has read, and after an
\* accepted JUMP it leaves the link alone.  Whether there is an answer to read
\* it cannot know.
MayWrite == HostPatient => ~awaiting /\ \A a \in acked : ~(a.cmd = "JUMP" /\ a.ok)

MayRead == HostPatient => awaiting /\ host_ms \in ReadFrom .. ReadUntil

\* An address that the slave does not acknowledge ends the attempt.
StartWrite(cmd) ==
    /\ bus = Idle /\ irq_on
    /\ next_frame <= MaxFrames
    /\ MayWrite
    /\ bus' = [Idle EXCEPT !.kind = "write", !.attached = TRUE,
                           !.frame = [n |-> next_frame, cmd |-> cmd]]
    /\ next_frame' = next_frame + 1
    /\ read_since_jump' = (read_since_jump /\ cmd # "JUMP")
    /\ awaiting' = HostPatient
    /\ prompt' = (HostPatient /\ host_ms <= NextUntil)
    /\ host_ms' = 0
    /\ MatchWrite
    /\ UNCHANGED <<acked, main>>

WriteByte ==
    /\ bus.kind = "write"
    /\ bus.done < FRAME_LENGTH
    /\ bus' = [bus EXCEPT !.done = @ + 1]
    /\ IF bus.attached THEN ReceiveFull(Unit(bus.frame, bus.done + 1)) ELSE UNCHANGED driver
    /\ UNCHANGED <<next_frame, acked, read_since_jump, schedule, main>>

Stop == IF bus.attached THEN StopDetected ELSE UNCHANGED driver

EndWrite ==
    /\ bus.kind = "write"
    /\ bus.done = FRAME_LENGTH \/ HostAborts
    /\ bus' = Idle
    /\ Stop
    /\ UNCHANGED <<next_frame, acked, read_since_jump, schedule, main>>

StartRead ==
    /\ bus = Idle /\ irq_on
    /\ MayRead
    /\ \E sent \in {<<>>} \cup {<<tx_data[k]>> : k \in 1 .. TX_LENGTH} :
          /\ MatchRead(sent)
          /\ bus' = [Idle EXCEPT !.kind = "read", !.attached = TRUE, !.done = 1, !.got = sent]
    /\ UNCHANGED <<next_frame, acked, read_since_jump, schedule, main>>

ReadByte ==
    /\ bus.kind = "read"
    /\ bus.done < TX_LENGTH
    /\ \E sent \in {<<>>} \cup {<<tx_data[k]>> : k \in 1 .. TX_LENGTH} :
          /\ IF bus.attached THEN TransmitEmpty(sent) ELSE sent = <<>> /\ UNCHANGED driver
          /\ bus' = [bus EXCEPT !.done = @ + 1, !.got = @ \o sent]
    /\ UNCHANGED <<next_frame, acked, read_since_jump, schedule, main>>

EndRead ==
    /\ bus.kind = "read"
    /\ bus.done = TX_LENGTH \/ HostAborts
    /\ acked' = acked \cup {a \in Answer : HostPatient /\ bus.got = Response(a)}
    /\ read_since_jump' = TRUE
    /\ awaiting' = FALSE
    /\ bus' = Idle
    /\ Stop
    /\ UNCHANGED <<next_frame, prompt, host_ms, main>>

Bus ==
    \/ \E cmd \in Commands : StartWrite(cmd)
    \/ WriteByte \/ EndWrite \/ StartRead \/ ReadByte \/ EndRead

Handling == mpc \in {"handle", "write_head", "write_tail", "written"}

\* With a patient host a millisecond passes only while nobody is late: neither
\* the main loop nor the host, which has read by ReadUntil unless the link is
\* off.
OnTime ==
    HostPatient => /\ loop_ms < (IF Handling THEN MaxHandle ELSE MaxLoop)
                   /\ bus.kind = "write" => host_ms < FrameTime
                   /\ awaiting /\ irq_on => host_ms # ReadUntil

Millisecond ==
    IF HostPatient THEN /\ loop_ms' = loop_ms + 1
                        /\ host_ms' = IF host_ms <= NextUntil THEN host_ms + 1 ELSE host_ms
                   ELSE UNCHANGED <<loop_ms, host_ms>>

SysTick_Handler ==
    /\ \/ OnTime /\ TickLoad /\ Millisecond
       \/ TickStore /\ UNCHANGED <<loop_ms, host_ms>>
    /\ UNCHANGED <<bus, next_frame, acked, read_since_jump, awaiting, prompt,
                   mpc, parser, armed, jump_requested>>

-----------------------------------------------------------------------------
(* The main loop.                                                          *)

\* A step of the main loop, which a running SysTick_Handler keeps off.
Step(from) == mpc = from /\ tick = NoTick

\* BootProtocolParserProcess looks at the state before its critical section.
CheckRx ==
    /\ Step("check")
    /\ mpc' = IF slave_state = "SLAVE_RX_DONE" THEN "drain" ELSE "update"
    /\ UNCHANGED <<driver, host, parser, armed, jump_requested, loop_ms>>

DrainRx ==
    /\ Step("drain")
    /\ local_buffer' = rx
    /\ rxBufferDrain
    /\ mpc' = "parse"
    /\ UNCHANGED <<host, collected, frame, armed, jump_requested, loop_ms>>

\* The next unit, with what is collected of its frame.
Pushed ==
    IF collected = <<>> /\ Head(local_buffer).unit # 1 THEN <<>>
    ELSE Append(collected, Head(local_buffer))

Complete == Len(Pushed) = FRAME_LENGTH

Intact == Complete /\ \A k \in 1 .. FRAME_LENGTH : Pushed[k] = Unit(Pushed[1].msg, k)

\* BootProtocolParserPushByte without a delivery: searching, collecting, or
\* a CRC error.
PushByte ==
    /\ Step("parse")
    /\ local_buffer # <<>>
    /\ ~Intact
    /\ local_buffer' = Tail(local_buffer)
    /\ collected' = IF Complete THEN <<>> ELSE Pushed
    /\ UNCHANGED <<driver, host, mpc, frame, armed, jump_requested, loop_ms>>

\* With a delivery: BootUpdateServiceFrameCallback resets err_count first.
DeliverFrame ==
    /\ Step("parse")
    /\ local_buffer # <<>>
    /\ Intact
    /\ local_buffer' = Tail(local_buffer)
    /\ collected' = <<>>
    /\ frame' = Pushed[1].msg
    /\ armed' = FALSE
    /\ mpc' = "handle"
    /\ loop_ms' = 0
    /\ basp_i2c_slave_err_reset
    /\ UNCHANGED <<host, jump_requested>>

\* encode_response, and the copy at the start of txBufferWrite.  A JUMP may
\* be refused; an ERASE withdraws the jump unless it is refused or repeated.
HandleFrame ==
    /\ Step("handle")
    /\ \E ok \in (IF frame.cmd = "JUMP" THEN BOOLEAN ELSE {TRUE}) :
          /\ armed' = (frame.cmd = "JUMP" /\ ok)
          /\ txBufferWriteData(Response([n |-> frame.n, cmd |-> frame.cmd, ok |-> ok]))
    /\ jump_requested' \in (IF frame.cmd = "ERASE" THEN {FALSE, jump_requested}
                                                   ELSE {jump_requested})
    /\ mpc' = "write_head"
    /\ UNCHANGED <<host, parser, loop_ms>>

WriteHead ==
    /\ Step("write_head")
    /\ txBufferWriteHead
    /\ mpc' = "write_tail"
    /\ UNCHANGED <<host, parser, armed, jump_requested, loop_ms>>

WriteTail ==
    /\ Step("write_tail")
    /\ txBufferWriteTail
    /\ mpc' = "written"
    /\ UNCHANGED <<host, parser, armed, jump_requested, loop_ms>>

\* txBufferWrite returns _BufferHead; any other value than the length counts
\* as response_busy_drop.
FinishFrame ==
    /\ Step("written")
    /\ jump_requested' = (jump_requested \/ (armed /\ tx_head = TX_LENGTH))
    /\ armed' = FALSE
    /\ mpc' = "parse"
    /\ loop_ms' = 0
    /\ UNCHANGED <<driver, host, parser>>

EndParse ==
    /\ Step("parse")
    /\ local_buffer = <<>>
    /\ mpc' = "update"
    /\ UNCHANGED <<driver, host, parser, armed, jump_requested, loop_ms>>

\* Mutant: a link that is off is not looked after.
UpdateNotDueWhenOff ==
    /\ Step("update")
    /\ err_count < ERR_LIMIT \/ ~irq_on
    /\ mpc' = "jump"
    /\ UNCHANGED <<driver, host, parser, armed, jump_requested, loop_ms>>

\* bsp_i2c_slave_update: ERR_LIMIT milliseconds without a valid frame or a
\* completed read re-initialise the link.
UpdateNotDue ==
    /\ Step("update")
    /\ err_count < ERR_LIMIT
    /\ mpc' = "jump"
    /\ UNCHANGED <<driver, host, parser, armed, jump_requested, loop_ms>>

UpdateDeinit ==
    /\ Step("update")
    /\ err_count >= ERR_LIMIT
    /\ bsp_i2c_slave_deinit
    /\ bus' = [bus EXCEPT !.attached = FALSE]
    /\ mpc' = "init"
    /\ UNCHANGED <<next_frame, acked, read_since_jump, schedule, parser, armed, jump_requested,
                   loop_ms>>

UpdateInitEnable ==
    /\ Step("init")
    /\ InitEnable
    /\ mpc' = "clear_state"
    /\ UNCHANGED <<host, parser, armed, jump_requested, loop_ms>>

\* The driver library refuses: the result is ignored, the interrupts stay
\* off and only err_count is reset, so that it is tried again.
UpdateInitFails ==
    /\ Step("init")
    /\ basp_i2c_slave_err_reset
    /\ mpc' = "jump"
    /\ UNCHANGED <<host, parser, armed, jump_requested, loop_ms>>

UpdateInitClearState ==
    /\ Step("clear_state")
    /\ InitClearState
    /\ mpc' = "clear_rx"
    /\ UNCHANGED <<host, parser, armed, jump_requested, loop_ms>>

UpdateInitClearRx ==
    /\ Step("clear_rx")
    /\ InitClearRx
    /\ mpc' = "clear_tx_data"
    /\ UNCHANGED <<host, parser, armed, jump_requested, loop_ms>>

UpdateInitClearTxData ==
    /\ Step("clear_tx_data")
    /\ InitClearTxData
    /\ mpc' = "clear_tx_indexes"
    /\ UNCHANGED <<host, parser, armed, jump_requested, loop_ms>>

UpdateInitClearTxIndexes ==
    /\ Step("clear_tx_indexes")
    /\ InitClearTxIndexes
    /\ mpc' = "clear_err"
    /\ UNCHANGED <<host, parser, armed, jump_requested, loop_ms>>

\* Twice, in bsp_i2c_slave_init and behind it.
UpdateInitEnds ==
    /\ Step("clear_err")
    /\ basp_i2c_slave_err_reset
    /\ mpc' = "jump"
    /\ UNCHANGED <<host, parser, armed, jump_requested, loop_ms>>

\* main(): the jump is taken when the last transaction was a read.
JumpNotDue ==
    /\ Step("jump")
    /\ ~(slave_state = "SLAVE_TX_DONE" /\ jump_requested)
    /\ mpc' = "check"
    /\ loop_ms' = 0
    /\ UNCHANGED <<driver, host, parser, armed, jump_requested>>

\* Mutant: the jump does not wait for a read.
TakeJumpAtOnce ==
    /\ Step("jump")
    /\ jump_requested
    /\ jump_requested' = FALSE
    /\ bsp_i2c_slave_deinit
    /\ bus' = [bus EXCEPT !.attached = FALSE]
    /\ mpc' = "jumped"
    /\ UNCHANGED <<next_frame, acked, read_since_jump, schedule, parser, armed, loop_ms>>

\* prepare_for_application turns the link off for good.
TakeJump ==
    /\ Step("jump")
    /\ slave_state = "SLAVE_TX_DONE" /\ jump_requested
    /\ jump_requested' = FALSE
    /\ bsp_i2c_slave_deinit
    /\ bus' = [bus EXCEPT !.attached = FALSE]
    /\ mpc' = "jumped"
    /\ UNCHANGED <<next_frame, acked, read_since_jump, schedule, parser, armed, loop_ms>>

MainStep ==
    \/ CheckRx \/ DrainRx \/ PushByte \/ DeliverFrame \/ EndParse
    \/ HandleFrame \/ WriteHead \/ WriteTail \/ FinishFrame
    \/ UpdateNotDue \/ UpdateDeinit \/ UpdateInitEnable \/ UpdateInitFails
    \/ UpdateInitClearState \/ UpdateInitClearRx \/ UpdateInitClearTxData
    \/ UpdateInitClearTxIndexes \/ UpdateInitEnds
    \/ JumpNotDue \/ TakeJump

-----------------------------------------------------------------------------
Next == Bus \/ SysTick_Handler \/ MainStep

\* The host finishes the transactions it starts and reads in its time; it
\* need not send anything.
HostGoesOn == WriteByte \/ EndWrite \/ StartRead \/ ReadByte \/ EndRead

\* The interrupt handlers leave the main loop most of the time, SysTick comes
\* back every millisecond, and the driver library does not refuse for ever.
Fairness ==
    /\ SF_vars(MainStep) /\ SF_vars(UpdateInitEnable)
    /\ WF_vars(SysTick_Handler) /\ WF_vars(HostGoesOn)

Spec == Init /\ [][Next]_vars /\ Fairness

-----------------------------------------------------------------------------
(* Properties.                                                             *)

Jumps == mpc # "jumped" /\ mpc' = "jumped"

\* The jump is never taken right after its frame: a read transaction has
\* ended since the host began its last JUMP.  Holds for every host, however
\* it interleaves reads and writes with the main loop.  (slave_state as the
\* condition of main(): it has to describe the last transaction.)
JumpNeedsARead == [][Jumps => read_since_jump]_vars

\* The jump is taken only after the host has read the ACK that accepts it.
\* Holds for a patient host whose read ends before err_count can reach its
\* limit, however long it was silent before and wherever the link was
\* re-initialised.  slave_state is SLAVE_TX_DONE also behind a read that came
\* before the ACK, or after the link was re-initialised and the ACK wiped.
AckReadBeforeJump == [][Jumps => \E a \in acked : a.cmd = "JUMP" /\ a.ok]_vars

\* Each frame is handled at most once and in the order sent: neither the
\* ring, nor the parser's leftovers of a truncated frame, nor a
\* re-initialisation between the bytes of a frame replays one.
FramesHandledInOrder ==
    [][mpc = "parse" /\ mpc' = "handle" => frame'.n > frame.n]_vars

\* The one read that a patient host does brings the answer, whatever the loop
\* was doing when the frame came, and though reads and ticks reset and count
\* err_count under each other.  A frame behind a longer silence can be lost to
\* the re-initialisation; the next one, sent promptly, is not.
EveryFrameAnswered ==
    prompt /\ (awaiting => host_ms > ReadUntil) => \E a \in acked : a.n = next_frame - 1

\* An accepted JUMP leads to the jump, if it was sent promptly.
AcceptedJumpHappens == jump_requested /\ prompt ~> mpc = "jumped"

\* The link is never off for good: a re-initialisation that fails is tried
\* again ERR_LIMIT milliseconds later.  (bsp_i2c_slave_update ignores the
\* result of bsp_i2c_slave_init, and clears err_count in either case.)
LinkComesBack == ~irq_on ~> irq_on \/ mpc = "jumped"
=============================================================================
