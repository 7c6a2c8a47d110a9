# Verification of the HC32F460xE bootloader

TLA+ models of the bootloader in this repository, TLC runs that check them on
small instances, and proofs of all but one of their safety properties for every
size the models are parameterised by.

## 1. The system

The firmware is one main loop (`Core/Src/main.c`), the I2C slave's three
interrupt handlers, SysTick and a HardFault handler. A host writes frames over
I2C, and reads the responses in separate transactions. A second program, the
J-Link RAM loader, writes the bootloader itself.

| Component | State | Operations | What makes it correct |
|---|---|---|---|
| Update service, `App/Src/boot_update_service.c` | `erase_completed`, `session_programmed_bytes`, `arm_jump_after_publish`, `jump_requested`; the application region in Flash | HANDSHAKE, ERASE, DOWNLOAD, JUMP; `TakeJumpRequest` | nothing outside the application region changes; OK means done; a jump needs its session, its ACK and a valid vector; an interrupted erase is harmless |
| Flash driver, `bsp_flash.c` over the vendor's `hc32_ll_efm.c` | the Flash controller's registers | sector erase, word programming, read | an OK is an operation that ended well, a busy controller is left alone, registers are closed behind every call |
| Memory map and validator | none | range predicates, vector check | boundaries, no wrap; an accepted vector can be taken, a usable one is accepted |
| I2C slave driver, `bsp_i2c_slave.c` | `slave_state`, RX ring, TX buffer with head and tail, `err_count` | EEI, RXI and TEI handlers; `txBufferWrite`, `rxBufferRead`, init, deinit, update | the ring is a queue; no byte replayed, no answer lost without a reason, the link recovers |
| Parser, `boot_protocol_parser.c` | collection state, indexes, frame | `PushByte`, `Process`, (`Timeout`, uncalled) | stays in its arrays, delivers only what was sent, finds what it can see, gets back in step |
| CRC, `boot_protocol_crc.c` | none | CRC-16 | equals polynomial division; sees the damage it should |
| Main loop, `main.c` | `now_ms`, boot context | start-up, poll everything, jump, fatal loop | order of the steps, quiet hand-over, jump only after a read |
| Boot decision, window, reset cause, `boot_app.c`, `boot_state.c`, `bsp_reset.c` | mode, start of the window, latched causes | capture, select the mode, timeout poll | a requested update is honoured |
| Power hold, `bsp_power.c`; debug port; write protection | PB3, PSPCR, lock bits | init, assert, deassert; configure; unlock, restore | held through the window, released behind it; registers written while they are open |
| Timebase, `boot_timebase.c` | `time_ms` | SysTick | counts modulo 2^32 |
| External watchdog, `bsp_external_watchdog.c` | scheduler state, deadline, pin | init, poll (force, stop_low uncalled) | fed in time, across the wrap |
| Status LED, `bsp_status_led.c` | mode, time of the last toggle, pin | set mode, poll | blinks in its rhythm, however late the polls |
| Fault handler, `hc32f460_it.c` | the snapshot | capture of the stacked frame | no fault inside the fault handler; the recorded PC is the one that faulted |
| J-Link RAM loader, `Tools/jlink/ram_flash_loader.c` | stage of the report, Flash | unlock, erase, program, verify | a report of success means the image is there |

How they interact: the driver's handlers and the main loop share the two
buffers, `slave_state` and `err_count` without locks, except for one critical
section around the draining of the RX ring. `BootProtocolParserProcess` pushes
the drained bytes through the parser, which calls the update service with each
valid frame; the service works on Flash, publishes its response in the TX
buffer and may arm the jump; the loop takes the jump when the service has one
and the driver's last transaction was a read. Watchdog, LED and the update
window are polled with a sample of `time_ms` that is taken before the frames
of the iteration are handled.

What is hard about it: resets between any two Flash operations, and operations
that fail half-way or outlast the call that gave up on them; interrupts between
any two stores of the main loop; a host whose reads, writes and aborted
transactions come at any time; the re-initialisation of the link under a
transaction; a parser that is never timed out; comparisons of wrapping
counters with samples that are old; reset causes that stay latched; a stack
pointer that may be what caused the fault. `PROJECT.json` lists each of these
hazards at its line, with the properties that watch it, and says of the three
that none does why.

## 2. Modules

| Module | Models | Extends |
|---|---|---|
| `BootMemoryMap` | `boot_memory_map.[hc]` | |
| `BspFlash` | `bsp_flash.c` and what the EFM does to cells | `BootMemoryMap` |
| `BootUpdateService` | `boot_update_service.c`, with start-up and the jump of `main.c` | `BspFlash` |
| `UpdateSession` | what the service promises a host: the abstract specification | `BspFlash` |
| `EfmDriver` | `bsp_flash.c` and `hc32_ll_efm.c` register by register, with the controller | |
| `AppValidator` | `app_validator.c` on two words | `BootMemoryMap` |
| `BspI2cSlave` | the driver, one operator per handler or per step of a function that an interrupt can get in front of | |
| `BootLink` | bus, host, driver and main loop together | `BspI2cSlave` |
| `RxRing`, `ByteQueue` | the receive ring with its indexes, and the bounded queue it implements | |
| `BootProtocolParser` | the parser on a stream of bytes | `SequencesExt` |
| `BootProtocolCrc` | `boot_protocol_crc.c`, and the CRC's way over the wire | |
| `BootMain` | from reset to the application: `main.c`, `boot_state.c`, `boot_app.c`, `app_jump.c`, power, debug port, write protection, reset cause | |
| `Timebase` | the wrapping clock, as the two schedulers read it | |
| `WatchdogScheduler` | the watchdog's feed as the main loop drives it | `Timebase` |
| `LedScheduler` | the status LED as the main loop drives it | `Timebase` |
| `FaultSnapshot` | the HardFault handler | |
| `RamFlashLoader` | the J-Link RAM loader | |
| `BootUpdateServiceProofs`, `BootLinkProofs`, `BootProtocolParserProofs`, `BootProtocolCrcProofs`, `BootMainProofs` | theorems about the module each is named after | that module, `TLAPS` |
| `FlashWriterProofs` | theorems about what commands the Flash controller | `EfmDriver`, `RamFlashLoader`, `TLAPS` |
| `RamRangeProofs` | theorems about addresses that must lie in the RAMs | `AppValidator`, `FaultSnapshot`, `TLAPS` |
| `WrapProofs` | theorems about what wraps: deadlines and indexes | `WatchdogScheduler`, `LedScheduler`, `RxRing`, `TLAPS` |
| `MCBootUpdateService`, `MCBootProtocolParser` | the values TLC uses | |
| `MCParts` | the parts that share no state with each other, side by side | the eight modules |

How they compose. `BootUpdateService` stands on `BspFlash`, which says of a
Flash call what it leaves in the cells; `EfmDriver` models the same calls from
below and shows what `BspFlash` takes for granted, that LL_OK means each
operation ended well. `AppValidator` is the arithmetic behind the constant set
`ValidVectors`. `BootUpdateService` implements `UpdateSession`. `BootLink`
composes bus, host, driver and main loop, with the service reduced to what the
link sees of it and the ring to the queue that `RxRing` implements. `BootMain`
has the way in and out of the loop, with the frames reduced to what they do to
it.

### `BootUpdateService`

The handler runs to completion in the main loop, so frames do not interleave
with each other; a reset can come in between any two Flash operations. One
Flash operation is one step, and `pc` says where the handler is. A frame is
dispatched by one action per branch of `encode_response` (`EraseDuplicate`,
`DownloadUnaligned`, `JumpRejected`, ...), each of which names the guards of
its branch and of those before it. `EraseSector`, `ProgramWord` and their
failing forms are the iterations of the two loops; `VerifyPasses` and
`VerifyFails` the read-back. `Publish` ends the handler; `PublishDropped` is
the case in which a STOP interrupt clears `_BufferHead` between its store and
the read that `txBufferWrite` returns. `Restart` clears RAM and keeps Flash.
`TakeJumpRequest` is the end of the loop in `main()`: when it may happen is
`BootLink`'s question, and here it may happen between any two frames.

A Flash cell is the set of its bits that read 1. Erasing sets all of them,
programming intersects, a failed operation leaves its own cells anywhere
between. The set of valid vectors is a constant of which only one thing is
assumed, that the erased vector is not in it (`app_validator_check` refuses an
all-ones MSP).

Abstractions:

- `session_programmed` stands for `session_programmed_bytes # 0`, all the code
  ever asks. Its wrap to 0 would take 4 GiB of chunks, more than a 400 kHz bus
  carries within the update window.
- `programmed_high_water`, the statistics and the frame number decide nothing.
- `payload_length < 12` cannot come from the parser, whose frames hold at
  least the 12-byte instruction segment.
- A Flash operation that is refused because the EFM is not ready
  (`LL_ERR_NOT_RDY`) is a failure that changes no cell, one of the outcomes of
  the failing actions.

### `UpdateSession`

What a host may rely on: a frame is taken, worked on in unseen steps that touch
only the cells it is about, and answered at most once, with an OK that means
what it says. Sectors, words, loop counters, the arming of the jump and the
distinction between a first and a repeated ERASE are left out. The refinement
(`ImplementsSession`) maps `erase_completed` to `open`, `jump_requested` to
`jump` and `pc` to four modes; the dispatch of a frame that is answered without
Flash operations is `Take`, an iteration of a loop is `Erase` or `Program`, and
the steps that only count are stutters.

### `EfmDriver`

The driver's steps down to the store that makes the controller start, and the
controller as a process of its own: an operation ends well, ends badly, or
goes on after `EFM_WaitFlag` has counted to its limit and ends during a later
call. `ready`, `optend`, `mode`, `unlocked`, `held` and `cache` are its
registers. A call is a number of operations (the words of `EFM_Program`, one
for an erase, none for a read).

### `AppValidator`

The two words may change at any time, any address may be asked about; the
verdict is compared with what the processor does with an accepted vector: it
pushes below the stack pointer, and fetches two bytes at the reset address.

### `BspI2cSlave`, `BootLink`, `RxRing`

A handler is one step: EEI has the highest priority, and RXI, TEI and EEI do
not touch the same variables half-way. SysTick has the lowest; its
`err_count++` is two steps between which the bus handlers may run and the main
loop may not. `txBufferWrite` is four steps (the copy, head, tail, and the read
of its result); `bsp_i2c_slave_init` enables the interrupts and then clears
`slave_state`, the ring, the TX buffer and its indexes, one step each, so that
an address match can come in front of any of them.

A frame has `FRAME_LENGTH` units and a response `TX_LENGTH`: enough for each to
be cut, overrun and mixed. The parser is reduced to collecting
`FRAME_LENGTH` units from a first one on and to the CRC's refusal of a mixture,
and the service to an answer that may be a refusal, a jump that is armed and an
ERASE that withdraws it. While the driver is being re-initialised
(`~attached`) a transaction goes on without the slave.

The host is a part of the model. Without `HostPatient` it reads and writes
whenever it likes, with `HostAborts` it ends transactions early, and ticks come
at any time. A patient host does what `docs/i2c_slave_contract.md` asks for, a
write, a processing delay and a separate read, by its own clock, and knows
nothing of the slave: it reads no sooner than `ReadFrom` and no later than
`ReadUntil` after its frame began (`MayRead`), whether there is an answer or
not, and sends the next frame when it has read (`MayWrite`). If the link is off
for all of that time, it gives up. It keeps silent between frames as long as it
likes; a frame that begins within `NextUntil` of the one before is `prompt`.
Time for such a host is counted by SysTick (`Millisecond`), which comes at any
point, but not before what has to be over by then is over (`OnTime`): a write
after `FrameTime`, an iteration of the loop after `MaxLoop` not counting the
handler of a frame, and that handler after `MaxHandle`. The contract names
neither the delay nor an upper limit. What they have to be is what the runs and
the theorem `JumpsAfterItsAck` show.

`BspI2cSlave` uses the receive ring as a bounded sequence. `RxRing` has the
array and the two indexes, and each of its operations is shown to be the one of
`ByteQueue`.

Not in these models: that Flash operations hold the bus and delay the handlers,
and a repeated start, which the contract excludes.

### `BootProtocolParser`

`PushByte`, one action per branch that a state can take. The stream consists
of items (whole, truncated and damaged frames, noise), and from an arbitrary
moment on, the calm, of plain frames only, in which the sync word occurs once.
`recent` keeps the last bytes, so that what is delivered can be compared with
what was on the wire. The CRC is a constant operator. The branches that count
an `overflow_error` are unreachable (a payload is never empty and complete when
its last byte is stored) and have no action.

### `BootProtocolCrc`

A word is the set of its bits: a shift adds 1 to each element, an exclusive or
is the symmetric difference, and the 9-bit sentinel of `crc_update` is an
element like the others. The reference is the remainder of the message's
polynomial, by long division. The loops over bits and bytes are functions
defined by recursion on a finite domain. The frame then goes over the wire, low
byte of the CRC first, and a run of its bits may be damaged.

### `BootMain`

`main()` call by call, from `bsp_write_protection_unlock` to the branch into
the application or the fatal loop, through any chain of resets. `unlocked`,
`pb3`, `rstf0` and `on` are the registers that matter: what can be written, the
power pin, the latched causes, what is switched on. `Process` stands for
`BootProtocolParserProcess`: frames may change the vector, request or withdraw
the jump, and re-initialise the link. `tickint` is SysTick's interrupt, the one
part of it that `SysTick_Suspend` turns off. It is on from `boot_timebase_init`
on, and SysTick may tick between any two steps, within the bounds `MaxStart` and `MaxLoop`
on start-up and on one iteration. The only relation assumed between the times
is that start-up is not longer than the window of ten minutes; an iteration may
be longer than the wait of one second, as one that erases the whole region can
be. `Horizon` bounds the clock behind the release of the power, which is the
last thing that depends on it.

### `WatchdogScheduler` and `LedScheduler`

`Sample` and a poll action are an iteration of the main loop; ticks come in
between, at most `MaxLoop` of them in an iteration. Time is modulo `TIME_MOD`
and wraps; the watchdog's deadline is compared by the sign of the difference,
the LED's intervals by the unsigned difference. `unfed_ms`, `high_ms` and `beat`
measure what the pins did, independently of the schedulers' own variables. In
`LedScheduler` a frame may set the mode between the sample and the poll.

### `FaultSnapshot`

The processor stacks a frame of 8 or 26 words wherever the stack pointer has
got to, and the handler looks for it. Addresses count words, the two RAMs are
scaled down, and a word on the stack is named by what the processor put there.

### `RamFlashLoader`

The loader's stages with the debugger that may start it again at any point.
The controller is not trusted: whatever it reports, the words an operation
worked on may hold anything behind it.

### `MCParts`

Efm driver, ring, validator, watchdog, LED, CRC, fault handler and loader share
no state. `MCParts` puts them side by side: `part` says which of them a
behaviour is one of, and the others rest in an initial state, so that the state
space is the sum of theirs.

## 3. Runs

| Run | Instance | Shows |
|---|---|---|
| `update_service` | 16 cells: bootloader 0-3, application 4-11, metadata 12-15; sectors of 4, words of 2, one bit per cell; 15 requests; every operation may fail | the service's type invariant, two invariants, five action properties, that every handler ends, and that the service implements `UpdateSession` |
| `update_service_fault_free` | the same without failures | OK to ERASE means blank; JUMP needs an acknowledged DOWNLOAD |
| `erase_ack_after_fault` | with failures | **violated**, see findings |
| `link_any_host` | 2 units per frame and response, 2 frames, a ring of 3 units, 1 ms to re-initialisation, aborts, ticks, failing re-initialisations | no replay, no jump without a read, the link comes back |
| `link_patient_host` | 2 frames; a write takes up to 1 ms, an iteration 1, a handler 2; read between 6 and 7 ms; prompt until 8; limit 11 ms | the ACK is read before the jump; every prompt frame is answered; the jump happens |
| `link_early_read` | 2 frames, read from 3 ms on, before the handler's longest time is over | **violated**, see findings |
| `link_late_read` | 1 frame, limit 8 ms, read until 9 ms | **violated**, see findings |
| `parser` | 4 byte values, payloads of 1 to 3 bytes, 11 items | delivery only of what was sent, frames found, resynchronisation |
| `parts` | see below | the properties of the eight parts in `MCParts` |
| `boot_main` | window 5 ms, wait 3, start-up up to 2, iterations of up to 4 | power held and released, link clocked, hand-over quiet, update honoured |
| `watchdog_pulse` | interval 6, pulse 1 | **violated**, see findings |
| `fault_pc` | the RAMs of `parts` | **violated**, see findings |

The parts: calls of up to 3 operations (`EfmTypeOK`, `OkMeansStored`,
`NoCommandWhileBusy`, `CallReturns`); a ring of 4 slots (`RingIsAQueue`); words
below 56, a region of 8 and two RAMs (`AcceptedVectorRuns`,
`RunnableVectorAccepted`); a clock modulo 32, interval 4, pulse 3, iterations of
up to 5 ms (`DeadlineIsAhead`, `FedInTime`, `BlinksInRhythm`); messages of up to
3 bytes and those of the unit tests (`CrcIsTheRemainder`, `BurstIsSeen`); RAMs
of 60 and 20 words (`HandlerNeverFaults`); images of up to 4 words in 6 words of
Flash (`SuccessMeansImage`).

Why the bounds are enough.

- The service treats all sectors alike except the first, and all words of a
  chunk alike except a partial last one: two sectors, and chunks of one and of
  two words with a partial one among them, contain each case, and the requests
  lie on both sides of each boundary.
- In the link, two frames suffice for an old answer or an old JUMP to meet a
  new frame, three units in the ring for an overflow in the middle of a frame.
  For any host a limit of one millisecond lets the re-initialisation come at
  every point at which it can.
- The patient host's times are small and tight. With `FrameTime` 1, `MaxLoop` 1
  and `MaxHandle` 2, the answer is there after 5 ms at the latest: the write,
  the iteration that just missed it, the one that drains it, and the handler. A
  host that reads at 5 is not always answered, one that reads from 6 on is. A
  frame that begins by `NextUntil` is delivered `FrameTime + 2 * MaxLoop` later
  at the latest, and must be so before `err_count`, reset with the frame before,
  is at its limit: 8 + 1 + 2 = 11 suffices, 10 does not. The limit is above
  both, so silences in which the link is re-initialised, with each step of it
  between any two of the host's, are part of the run. With three frames the
  safety properties hold as well.
- For the parser, a truncated long frame can swallow a whole short one, and one
  payload holds the sync word.
- The clock of the schedulers wraps about every eight intervals, and an
  iteration can be longer than an interval.
- The CRC is linear, so one payload is enough to see which disturbances are
  found; two payload bytes and the CRC have all the places a run of 12 bits can
  take relative to the CRC. The bound is tight for this order of the bytes: the
  generator finds runs of 16 bits in its own order, but some of 13 bits across
  the swapped bytes pass (its own four terms, for one: the last bit of the
  payload and three of the CRC). Section 5 has it for every payload.
- The validator's words straddle all four RAM boundaries, both ends of the
  region and the erased word. The theorems of section 5 cover every size.
- `boot_main`: each time is longer than one tick, and an iteration longer than
  the wait and shorter than the window, as in the firmware's longest one.

`CHECK_DEADLOCK FALSE` stands only in the runs of `BootLink`, which ends when
the jump is taken.

Each property of a passing run has a mutant in the modules, a definition whose
comment begins with "Mutant:", that breaks it the way a plausible slip in that
code would.

### Fairness

- `BootUpdateService`: weak fairness of `Progress`, the handler's steps without
  its failures; the handler is straight-line code of the only loop there is.
  Neither frames nor jumps nor failures nor the absence of resets are assumed.
- `BootLink`: the main loop runs again and again, though interrupted (strong
  fairness, since SysTick takes the processor away each millisecond); SysTick
  comes back; the driver library does not refuse for ever (strong fairness of
  `UpdateInitEnable`); the host goes on with the transaction it has begun, and a
  patient one reads in its time (`HostGoesOn`). Nothing is assumed about writes.
- `BootProtocolParser`: bytes that were sent are parsed; in the calm the host
  goes on sending.
- `EfmDriver`: weak fairness of `DriverStep`, straight-line code whose waits
  count. Nothing is assumed of the controller, which may never end an
  operation.
- The other modules have safety properties only and no fairness. That time does
  not run ahead of the main loop is the bound `MaxLoop`.

## 4. Findings

1. `erase_ack_after_fault`: a DOWNLOAD whose programming fails leaves cells
   programmed and `session_programmed_bytes` 0. The next ERASE is then taken for
   a repeated one (`boot_update_service.c:83`) and answered OK, and nothing is
   erased. A host that answers a failed chunk with a new ERASE gets stuck on
   cells it cannot clear, until a reset. The same state lets JUMP be accepted
   in a session of which no DOWNLOAD was acknowledged.
2. `link_early_read`: `main.c:121` takes `SLAVE_TX_DONE` for "the ACK was
   transmitted", but the state only says that some read ended. If the host
   reads once while the JUMP is still being handled, the jump is taken and the
   ACK is never transmitted.
3. `link_late_read`: the same behind the ACK. `err_count` counts milliseconds
   (`boot_timebase.c:24`), where `docs/i2c_slave_contract.md` speaks of recorded
   errors, so a link without a single error is re-initialised 2000 ms after the
   last frame or read. That wipes an ACK the host has not read, and leaves
   `jump_requested` set. The read that comes then finds an empty buffer and ends
   as `SLAVE_TX_DONE`, also if its address match falls between
   `bsp_i2c_slave.c:165` and `167`, and the jump is taken. The contract gives a
   host no upper limit for its read. Since `err_count` is reset when the frame is
   delivered, a handler that takes longer than the limit wipes its own answer.
4. `watchdog_pulse`: the pulse is timed from `now_ms`, sampled before the frames
   were handled, and can last less than its millisecond. The TPL5010 needs
   100 ns, so it is the documented figure that is off.
5. `fault_pc`: when floating-point registers were stacked, `hc32f460_it.c:26`
   adds 18 words to the frame's address, as if they lay below the basic frame.
   ARMv7-M puts them above it, so the recorded PC, LR and xPSR are
   floating-point words. The address is still checked against the RAMs, so the
   handler itself does not fault.

Disagreements between code and documents that need no run:

- `docs/debug_port_configuration.md` and `docs/board_configuration.md` say that
  PB3 is driven high before PSPCR releases it; `main.c` calls
  `bsp_debug_port_configure_for_boot_gpio` first and `bsp_power_init` two calls
  later. The pull-up on the board covers the gap.
- `docs/board_configuration.md` says that PB3 is held high throughout Boot;
  `boot_timeout_poll` lowers it after the window, in both modes, as
  `docs/power_hold_contract.md` says it does. `BootMain` checks the latter.
- `bsp_status_led.c:35`: a mode that a frame sets carries the time of now, and
  the poll of the same iteration works with an older sample. The unsigned
  difference is then nearly 2^32, and the LED takes millions of periods for
  passed, where `docs/status_led_contract.md` says that mode changes restart
  timing deterministically. `BlinksInRhythm` therefore speaks of the modes
  `main()` sets.
- The reset flags are never cleared (`docs/application_handover_contract.md`
  leaves them to the application). If the application does not clear them
  either, a pin reset that follows a software reset opens the update window,
  where `docs/current_status.md` promises an immediate start "after a normal
  reset". Losing an update request is the harmful direction, and
  `UpdateRequestHonoured` excludes it.

## 5. Proofs

Each theorem holds for every value of the constants that the named assumption
of its module admits.

| Module | Theorem | Property |
|---|---|---|
| `BootUpdateServiceProofs` | `TypeCorrect` | `TypeOK` |
| | `RegionConfined` | `OnlyApplicationRegionChanges` |
| | `EraseOrderSafe` | `VectorErasedFirst` |
| | `SessionsOpenBlank` | `SessionOpensBlank` |
| | `JumpRequestsDieWithErase`, `JumpsArmedByTheirAck` | `JumpRequestDiesWithErase`, `JumpArmedByItsAck` |
| | `OnlyValidVectorsStart` | `OnlyValidVectorStarts` |
| | `DownloadAcksMeanStored` | `DownloadAckMeansStored` |
| | `EraseAcksMeanBlank`, `JumpAcksNeedDownloadAck` (assuming `~FlashFaults`) | `EraseAckMeansBlank`, `JumpAckNeedsDownloadAck` |
| | `SessionImplemented` | `ImplementsSession` |
| `FlashWriterProofs` | `EfmTypeCorrect`, `OkMeansStoredAlways`, `NeverCommandsABusyController` | `EfmTypeOK`, `OkMeansStored`, `NoCommandWhileBusy` |
| | `SuccessMeansImageAlways` | `SuccessMeansImage` |
| | `ApplicationSurvivesLoader` | the loader changes words of the Boot partition only |
| `RamRangeProofs` | `VerdictsAreCurrent` | the verdict is about the words as they are |
| | `AcceptedVectorsRun`, `RunnableVectorsAccepted` | `AcceptedVectorRuns`, `RunnableVectorAccepted` |
| | `FaultHandlerNeverFaults` | `HandlerNeverFaults` |
| `WrapProofs` | `DeadlinesAreAhead`, `AlwaysFedInTime` | `DeadlineIsAhead`, `FedInTime` |
| | `AlwaysBlinksInRhythm` | `BlinksInRhythm` |
| | `RingImplementsQueue` | `RingIsAQueue` |
| `BootLinkProofs` | `JumpsNeedARead`, `FramesInOrder` | `JumpNeedsARead`, `FramesHandledInOrder` |
| | `JumpsAfterItsAck` (assuming `HostInTime`) | `AckReadBeforeJump` |
| `BootProtocolParserProofs` | `DeliveriesWereSent`, `FramesAreFound` | `DeliveredWasSent`, `FrameIsFound` |
| `BootProtocolCrcProofs` | `CrcIsAlwaysTheRemainder` | `CrcIsTheRemainder` |
| | `CalculateIsADivision` | what `BootProtocolCrcCalculate` returns for every sequence of bytes |
| | `BurstIsAlwaysSeen` (assuming `BurstBits <= 12`) | `BurstIsSeen` |
| `BootMainProofs` | `TypeCorrect` | `TypeOK` |
| | `PowerIsHeld`, `PowerIsReleased` | `PowerHeldThroughWindow`, `PowerReleasedInTime` |
| | `LinksAreClocked`, `HandoversAreQuiet` | `LinkIsClocked`, `HandoverIsQuiet` |
| | `UpdateRequestsHonoured` | `UpdateRequestHonoured` |

The arguments.

- Update service (every partition that satisfies `MemoryMapAssumption`, every
  word and sector size, set of requests, vectors and initial contents).
  `TypeOK` is inductive as it stands, because it ties `request` and `progress`
  to `pc`: without that the loops' bounds are lost. From it and the arithmetic
  of sectors (the application region is a whole number of them) every cell an
  action writes lies in the region. `EraseOrderSafe` and `SessionsOpenBlank`
  need `ErasedSoFar`: while erasing, the sectors below `progress` are blank. The
  jump properties need `JumpInv`, which ties the armed flag to an OK answer to
  a JUMP in the same handler, and a pending jump to `erase_completed`. The two
  theorems for fault-free operation need `SessionClean`: a session of which
  nothing was acknowledged has a blank region, except for the chunk being
  programmed (`FirstChunk`).
- Refinement of `UpdateSession`: initial states map to initial states and each
  action to one abstract action or a stutter. `AnswerInv` supplies what a
  handler knows when it publishes, that its OK means what `UpdateSession` says.
- Flash driver: `CallInv` counts. What the controller has ended well and what
  is left to command make up the call, and OPTEND is one of them as long as it
  is set. That needs the flags to be cleared before the first command and the
  controller to have been ready then, which is why the two checks are there.
- RAM loader: `LoaderInv` has the comparison (up to `at` the image is in Flash,
  and nothing writes behind it) and the erase going sector by sector, from
  which the last sector ends inside the Boot partition, because the partition
  is a whole number of sectors and the image fits in it.
- Validator: linear arithmetic on the boundaries, once the verdict is known to
  be current; the eight bytes below an aligned stack pointer lie in one RAM
  because both ends are multiples of eight.
- Fault handler: an address that passes the check has its whole frame in one
  RAM, by linear arithmetic, also behind the adjustment by 18 words; that it
  may be the wrong frame is finding 5.
- Watchdog: in `WatchdogInv` the deadline is ahead of the last sample by at
  most an interval (`FeedAhead`), or the sample went past it in the iteration
  it began (`FeedLate`), or a pulse is under way (`PulseUnderWay`), and each
  part accounts for the time since the last feed. Signed comparison of the
  difference is right because all of these are below half of `TIME_MOD`,
  which is what `SchedulerAssumption` asks for. The proof gave the bound of
  `FedInTime` its pulse: an interval and three iterations are enough for
  pulses of up to 2 ms only, which the firmware's of 1 ms is, but not every one
  the assumption admits; the run has one of 3 ms.
- LED: `LedBehind` says how far the scheduler is behind the sample, less than
  an interval and an iteration, and that what it has not caught up with is what
  separates the pin from its rhythm, modulo two intervals.
- Ring: the indexes stay in the array and `Contents` is described without the
  remainder (`Wrap`); each operation is one of the queue's.
- Link (every host, frame length, ring size and number of frames). `ReadInv`:
  the slave's view of the last transaction lags behind the bus but never claims
  a read for a write it takes part in. `OrderInv`: what is collected, then what
  was drained, then what is in the ring, is in the order in which it was sent,
  and none of it belongs to a frame that was delivered; nor does what the host
  has still to send. For the patient host `HostInTime` names the bounds: it
  ends no transaction early, reads later than
  `FrameTime + 2 * MaxLoop + MaxHandle`, and no later than a millisecond before
  the limit of `err_count`. `TimedInv` is then about the frame the host awaits
  the answer to. `FlowInv` follows it through ring, buffer and handler with the
  latest time for each, so that it is handled before the host reads;
  `CountInv` bounds `err_count`, and what a preempted SysTick has loaded, by the
  host's clock, so that the link is not re-initialised between the delivery and
  the end of the time to read; `ArmedInv` ties the armed flag to an ACK in the
  buffer. `WaitInv` leaves one way from an accepted JUMP to the state `main()`
  waits for: a read of the whole ACK. A re-initialisation comes too early to
  hurt, or too late for the host to read. Findings 2 and 3 are
  what happens when one of the bounds is missing.
- Parser (every byte size, sync word, payload bound, checksum and stream).
  `KeptInv`: the bytes taken end in what is collected, so that a delivery was
  on the wire (`SentInv`). `FoundInv`: in an item that is a frame and began
  while the parser searched, phase and indexes of the parser are those of the
  position in the item; the search cannot hide the start because the first
  sync byte is none of the others.
- CRC. Polynomials over GF(2) are sets of exponents, and `Congruent` is
  equality up to a multiple of the generator, a congruence for sums and shifts.
  One turn of `crc_update`'s loop is a shift and a reduction
  (`TurnIsReduction`), so a byte makes of a word c one that is congruent to
  c x^8 plus the byte (`CrcOfByte`); `CrcInv` says it of the bytes so far. Two
  words of 16 bits that are congruent are equal (`RemainderIsUnique`), which
  makes the result the remainder that long division computes. For a burst, the
  disturbance would have to be a multiple of the generator by some q;
  `BurstIsNoMultiple` shows from the highest and the lowest term of q that
  it would reach at least 13 bits of the wire. Induction over bits, bytes and
  steps of the division is an induction over sets of numbers (`Induction`, from
  the least element of a set), and `RecursionIsDefined` shows that the functions
  defined by recursion exist, so that what their definitions choose satisfies
  them.
- Main: `BootInv` is `RegisterInv` (which groups are open at which call; the
  link's clock is on from its first initialisation, and the link off before),
  `DecisionInv` (the last cause is latched, the captured flag decides, only an
  accepted JUMP leads from the loop to the jump), `ClockInv` (how far the clock
  can be ahead of the last sample at each step) and `PowerInv`.

Model-checked only: liveness, which this prover does not reach. That is
`HandlerEnds`, `LinkComesBack`, `AcceptedJumpHappens`, `Resynchronises` and
`CallReturns`. Of the safety properties, `EveryFrameAnswered` is the one that is
model-checked only: it needs `TimedInv` for every answer in the place of the
ACK, and what a silence before the frame leaves behind.

What the theorems assume beyond the named assumptions of the modules stands in
their statements and in the table: `~FlashFaults`, without which finding 1 is a
counterexample; `HostInTime`, without whose bounds findings 2 and 3 are ones;
`BurstBits <= 12`, without which a run of 13 bits is one.

## 6. Not modelled

- The clock's start-up (straight-line register writes whose results are
  ignored), logging (SEGGER RTT, EasyLogger), the C library's stubs, the build
  files, host tests and `LegacyReference`.
- The vendor's drivers and headers under `Drivers`, except for the EFM
  functions the Flash driver calls. They are register definitions, processor
  headers and drivers this firmware does not call, and more than nine tenths of
  the repository's lines; there is no state machine in them that the bootloader
  depends on.
- Functions nobody calls: the parser's `Timeout`, the watchdog's force and
  stop_low, `bsp_status_led_off`, `bsp_power_policy.c`,
  `boot_memory_is_sram_address`, `rxBufferReadBytes`.
- Loading MSP, the branch, and the processor's caches behind an erase.
- A STOP interrupt that is delayed until the next address match, which clears
  it (`bsp_i2c_slave.c:71`): handlers run at once here, and what the delay could
  be is not bounded by the code.
- The missing record of a complete image is a documented limitation
  (`docs/known_limitations.md`); there is no promise in the code to check.

## 7. Plan

1. `EveryFrameAnswered` as a theorem, on the invariant of `JumpsAfterItsAck`;
   `BootLink` with interrupts delayed by Flash operations.
2. The parser with the CRC of `BootProtocolCrc` in the place of its constant
   operator: a frame that is damaged by one burst is not delivered. The two
   theorems are there; what is missing is their composition.
3. The steps below the liveness properties that are safety: that what the
   fairness is about can happen (the handler's loops count down, an answer that
   waits stays readable), as invariants with proofs.
